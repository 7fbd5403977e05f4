---------------------------- MODULE CodecsProofs ----------------------------
(***************************************************************************)
(* The codecs, for every task: first each codec as an operator, for every  *)
(* text, and last the specification that uses them.                        *)
(***************************************************************************)
EXTENDS Codecs, OperatorProofs

Octets == 0..255

LEMMA OctetsAre ==
    ASSUME NEW s \in Seq(Octets)
    PROVE  /\ Len(s) \in Nat /\ DOMAIN s = 1..Len(s)
           /\ \A k \in 1..Len(s) : s[k] \in Octets /\ s[k] \in Nat /\ s[k] <= 255
<1>1. Len(s) \in Nat /\ DOMAIN s = 1..Len(s) /\ \A k \in 1..Len(s) : s[k] \in Octets
  OBVIOUS
<1>2. \A b \in Octets : b \in Nat /\ b <= 255
  BY DEF Octets
<1>3. QED
  BY <1>1, <1>2

-----------------------------------------------------------------------------
(* rot_cipher and the opposite shift.  Shifts go as far as the range is long: below that C's
   remainder is negative, and characters leave the range.  ROT_ONLY_NUM, which turns one digit
   only, is left out. *)

\* a place in the range of n, turned and turned back
LEMMA TurnedBack26 ==
    ASSUME NEW x \in 0..25, NEW shift \in -26..26
    PROVE  /\ Rem(x + 26 + shift, 26) \in 0..25
           /\ Rem(Rem(x + 26 + shift, 26) + 26 - shift, 26) = x
<1>1. x + 26 + shift \in Nat /\ Rem(x + 26 + shift, 26) = (x + 26 + shift) % 26
  BY DEF Rem
<1>2. (x + 26 + shift) % 26 \in 0..25
  BY <1>1
<1>3. Rem(((x + 26 + shift) % 26) + 26 - shift, 26) = (((x + 26 + shift) % 26) + 26 - shift) % 26
  BY <1>2 DEF Rem
<1>4. (((x + 26 + shift) % 26) + 26 - shift) % 26 = x
  BY <1>1, <1>2
<1>5. QED
  BY <1>1, <1>2, <1>3, <1>4

LEMMA TurnedBack94 ==
    ASSUME NEW x \in 0..93, NEW shift \in -94..94
    PROVE  /\ Rem(x + 94 + shift, 94) \in 0..93
           /\ Rem(Rem(x + 94 + shift, 94) + 94 - shift, 94) = x
<1>1. x + 94 + shift \in Nat /\ Rem(x + 94 + shift, 94) = (x + 94 + shift) % 94
  BY DEF Rem
<1>2. (x + 94 + shift) % 94 \in 0..93
  BY <1>1
<1>3. Rem(((x + 94 + shift) % 94) + 94 - shift, 94) = (((x + 94 + shift) % 94) + 94 - shift) % 94
  BY <1>2 DEF Rem
<1>4. (((x + 94 + shift) % 94) + 94 - shift) % 94 = x
  BY <1>1, <1>2
<1>5. QED
  BY <1>1, <1>2, <1>3, <1>4

\* a letter stays one of its case
LEMMA AlphaBack ==
    ASSUME NEW c \in 0..255, NEW shift \in -26..26
    PROVE  RotAlpha(RotAlpha(c, shift), -shift) = c
<1>1. CASE ~Letter(c)
  BY <1>1 DEF RotAlpha
<1>2. ASSUME NEW a \in {65, 97}, c \in a..(a + 25) PROVE RotAlpha(RotAlpha(c, shift), -shift) = c
  <2> DEFINE x == Rem((c - a) + 26 + shift, 26)
  <2>1. c - a \in 0..25
    BY <1>2
  <2>2. x \in 0..25 /\ Rem(x + 26 - shift, 26) = c - a
    BY <2>1, TurnedBack26
  <2> HIDE DEF x
  <2>3. \A d \in a..(a + 25) : Letter(d) /\ Case(d) = a
    BY DEF Letter, Upper, Lower, Case
  <2>4. RotAlpha(c, shift) = x + a
    BY <1>2, <2>2, <2>3 DEF RotAlpha, Turned, x
  <2>5. (x + a) - a + 26 + (-shift) = x + 26 - shift
    BY <2>2
  <2>6. RotAlpha(x + a, -shift) = c
    BY <1>2, <2>2, <2>3, <2>5 DEF RotAlpha, Turned
  <2>7. QED
    BY <2>4, <2>6
<1>3. QED
  BY <1>1, <1>2 DEF Letter, Upper, Lower

LEMMA AsciiprBack ==
    ASSUME NEW c \in 0..255, NEW shift \in -94..94
    PROVE  RotAsciipr(RotAsciipr(c, shift), -shift) = c
<1>1. CASE ~(33 <= c /\ c <= 126)
  BY <1>1 DEF RotAsciipr
<1>2. CASE 33 <= c /\ c <= 126
  <2> DEFINE x == Rem((c - 33) + 94 + shift, 94)
  <2>1. c - 33 \in 0..93
    BY <1>2
  <2>2. x \in 0..93 /\ Rem(x + 94 - shift, 94) = c - 33
    BY <2>1, TurnedBack94
  <2> HIDE DEF x
  <2>3. RotAsciipr(c, shift) = x + 33
    BY <1>2, <2>2 DEF RotAsciipr, Turned, x
  <2>4. (x + 33) - 33 + 94 + (-shift) = x + 94 - shift
    BY <2>2
  <2>5. RotAsciipr(x + 33, -shift) = c
    BY <1>2, <2>2, <2>4 DEF RotAsciipr, Turned
  <2>6. QED
    BY <2>3, <2>5
<1>3. QED
  BY <1>1, <1>2

LEMMA AllBack ==
    ASSUME NEW c \in 0..255, NEW shift \in Int
    PROVE  RotAll(RotAll(c, shift), -shift) = c
<1>1. (((c + shift) % 256) + (-shift)) % 256 = c
  OBVIOUS
<1>2. QED
  BY <1>1 DEF RotAll

\* Whatever the text, rot_cipher with the opposite shift gives it back: of letters, of the
\* printable characters and of all bytes, for every shift up to the length of the range.
THEOREM RotUndone ==
    ASSUME NEW source \in Seq(0..255),
           NEW target \in {"ROT_ONLY_ALPHA", "ROT_ONLY_ASCIIPR", "ROT_ALL"},
           NEW shift \in Shifts(target)
    PROVE  rot_cipher(rot_cipher(source, shift, target), -shift, target) = source
<1>1. ASSUME NEW c \in 0..255 PROVE Rot(Rot(c, shift, target), -shift, target) = c
  <2>1. CASE target = "ROT_ONLY_ALPHA"
    BY <2>1, AlphaBack DEF Rot, Shifts
  <2>2. CASE target = "ROT_ONLY_ASCIIPR"
    BY <2>2, AsciiprBack DEF Rot, Shifts
  <2>3. CASE target = "ROT_ALL"
    BY <2>3, AllBack DEF Rot, Shifts
  <2>4. QED
    BY <2>1, <2>2, <2>3
<1>2. \A k \in DOMAIN source : source[k] \in 0..255
  <2> DEFINE B == 0..255
  <2>1. source \in Seq(B)
    OBVIOUS
  <2> HIDE DEF B
  <2>2. \A k \in DOMAIN source : source[k] \in B
    BY <2>1
  <2>3. QED
    BY <2>2 DEF B
<1>3. rot_cipher(rot_cipher(source, shift, target), -shift, target)
        = [k \in DOMAIN source |-> Rot(Rot(source[k], shift, target), -shift, target)]
  BY DEF rot_cipher
<1>4. source = [k \in DOMAIN source |-> source[k]]
  OBVIOUS
<1>5. QED
  BY <1>1, <1>2, <1>3, <1>4

-----------------------------------------------------------------------------
(* vigenere_cipher and the opposite key.  A character of the key below 'A' is as the byte that
   its difference is, which the opposite key does not know: keys are of letters and what is
   behind them. *)

\* a place in the alphabet, turned by a character of the key and by its opposite
LEMMA TurnedOn26 ==
    ASSUME NEW x \in 0..25, NEW shift \in 0..190
    PROVE  /\ Rem(x + 26 + shift, 26) \in 0..25
           /\ (26 - shift) % 26 \in 0..25
           /\ Rem(Rem(x + 26 + shift, 26) + 26 + ((26 - shift) % 26), 26) = x
<1>1. x + 26 + shift \in Nat /\ Rem(x + 26 + shift, 26) = (x + 26 + shift) % 26
  BY DEF Rem
<1>2. PICK y \in 0..25, t \in 0..25 : y = (x + 26 + shift) % 26 /\ t = (26 - shift) % 26
  BY <1>1
<1>3. (y + 26 + t) % 26 = x
  BY <1>2
<1>4. y + 26 + t \in Nat /\ Rem(y + 26 + t, 26) = (y + 26 + t) % 26
  BY DEF Rem
<1>5. QED
  BY <1>1, <1>2, <1>3, <1>4

LEMMA LetterBack ==
    ASSUME NEW c \in 0..255, Letter(c), NEW shift \in 0..190,
           NEW d, d = Turned(c, Case(c), 26, shift)
    PROVE  Letter(d) /\ Turned(d, Case(d), 26, (26 - shift) % 26) = c
<1>1. ASSUME NEW a \in {65, 97}, c \in a..(a + 25)
      PROVE  Letter(d) /\ Turned(d, Case(d), 26, (26 - shift) % 26) = c
  <2> DEFINE x == Rem((c - a) + 26 + shift, 26)
             t == (26 - shift) % 26
  <2>1. c - a \in 0..25
    BY <1>1
  <2>2. x \in 0..25 /\ t \in 0..25 /\ Rem(x + 26 + t, 26) = c - a
    BY <2>1, TurnedOn26
  <2> HIDE DEF x
  <2>3. \A e \in a..(a + 25) : Letter(e) /\ Case(e) = a
    BY DEF Letter, Upper, Lower, Case
  <2>4. d = x + a
    BY <1>1, <2>2, <2>3 DEF Turned, x
  <2>5. Letter(d) /\ Case(d) = a
    BY <2>2, <2>3, <2>4
  <2> HIDE DEF t
  <2>6. (x + a) - a + 26 + t = x + 26 + t
    BY <2>2
  <2>7. Turned(d, a, 26, t) = c
    BY <1>1, <2>2, <2>4, <2>6 DEF Turned
  <2>8. QED
    BY <2>5, <2>7 DEF t
<1>2. QED
  BY <1>1 DEF Letter, Upper, Lower

\* where the places of the letters go: on by one behind a letter, from the last to the first
Goes(h, letters, n, m) ==
    /\ h[0] = 1
    /\ \A k \in 1..m : h[k] = IF ~letters[k] THEN h[k - 1] ELSE IF h[k - 1] = n THEN 1 ELSE h[k - 1] + 1

LEMMA PlacesGo ==
    ASSUME NEW n \in Nat \ {0}, NEW letters \in Seq(BOOLEAN), NEW m \in Nat, m = Len(letters)
    PROVE  \E h \in [0..m -> 1..n] : /\ Goes(h, letters, n, m)
                                     /\ Places(letters, n) = [k \in 1..m |-> h[k - 1]]
<1> DEFINE V == 1..n
           next(j, v) == IF ~letters[j] THEN v ELSE IF v = n THEN 1 ELSE v + 1
           step == [x \in (1..m) \X V |-> next(x[1], x[2])]
           Is(h) == h = [k \in 0..m |->
                            IF k = 0 THEN 1
                            ELSE IF ~letters[k] THEN h[k - 1]
                            ELSE IF h[k - 1] = n THEN 1 ELSE h[k - 1] + 1]
<1>1. Places(letters, n) = [k \in 1..m |-> (CHOOSE g : Is(g))[k - 1]]
  BY DEF Places
<1>2. 1 \in V /\ \A j \in 1..m, v \in V : next(j, v) \in V
  OBVIOUS
<1> HIDE DEF V
<1>3. ASSUME NEW h
      PROVE  Is(h) <=> (h = [k \in 0..m |-> h[k]] /\ h[0] = 1
                        /\ \A k \in 1..m : h[k] = next(k, h[k - 1]))
  <2>1. 0 \in 0..m /\ \A k \in 0..m : k = 0 \/ k \in 1..m
    OBVIOUS
  <2>2. \A k \in 1..m : k \in 0..m /\ k # 0
    OBVIOUS
  <2>3. Is(h) <=> h = [k \in 0..m |-> IF k = 0 THEN 1 ELSE next(k, h[k - 1])]
    OBVIOUS
  <2> HIDE DEF Is, next
  <2>4. QED
    BY <2>1, <2>2, <2>3
<1> HIDE DEF Is, next
<1>4. step \in [(1..m) \X V -> V] /\ \A k \in 1..m, x \in V : step[<<k, x>>] = next(k, x)
  BY <1>2
<1> HIDE DEF step
<1>5. PICK f \in [0..m -> V] : Follows(f, m, 1, step)
  BY <1>2, <1>4, Recursion
<1>6. f = [k \in 0..m |-> f[k]] /\ f[0] = 1 /\ \A k \in 1..m : f[k] = next(k, f[k - 1])
  <2>1. \A k \in 1..m : k - 1 \in 0..m
    OBVIOUS
  <2>2. \A k \in 1..m : f[k - 1] \in V
    BY <2>1
  <2>3. QED
    BY <1>4, <1>5, <2>2 DEF Follows
<1>7. PICK h : h = (CHOOSE g : Is(g)) /\ Is(h)
  BY <1>3, <1>6
<1>8. Recurs(h, m, 1, step, V)
  BY <1>3, <1>4, <1>7 DEF Recurs
<1>9. h \in [0..m -> V]
  BY <1>2, <1>4, <1>8, RecursIs
<1>10. Goes(h, letters, n, m)
  BY <1>3, <1>7 DEF next, Goes
<1>11. QED
  BY <1>1, <1>7, <1>9, <1>10 DEF V

\* the places are places of the key
LEMMA PlacesAre ==
    ASSUME NEW n \in Nat \ {0}, NEW letters \in Seq(BOOLEAN)
    PROVE  /\ DOMAIN Places(letters, n) = DOMAIN letters
           /\ \A k \in DOMAIN letters : Places(letters, n)[k] \in 1..n
<1>1. PICK m \in Nat : m = Len(letters) /\ DOMAIN letters = 1..m
  OBVIOUS
<1>2. PICK h \in [0..m -> 1..n] : /\ Goes(h, letters, n, m)
                                  /\ Places(letters, n) = [k \in 1..m |-> h[k - 1]]
  BY <1>1, PlacesGo
<1>3. \A k \in 1..m : k - 1 \in 0..m
  OBVIOUS
<1>4. QED
  BY <1>1, <1>2, <1>3

\* Whatever the text and the key, of letters or what is behind them, vigenere_cipher with the
\* opposite key gives back what vigenere_cipher made of it.
THEOREM VigenereUndone ==
    ASSUME NEW source \in Seq(0..255), NEW key \in Seq(65..255), key # << >>,
           NEW turned \in vigenere_cipher(source, key)
    PROVE  vigenere_cipher(turned, Inverse26(key)) = {source}
<1> DEFINE n == Len(key)
           other == Inverse26(key)
           h == Places(Letters(source), n)
<1>1. n \in Nat \ {0} /\ \A i \in 1..n : key[i] - 65 \in 0..190
  <2> DEFINE K == 65..255
  <2>1. key \in Seq(K)
    OBVIOUS
  <2> HIDE DEF K
  <2>2. n \in Nat \ {0} /\ \A i \in 1..n : key[i] \in K
    BY <2>1
  <2>3. \A c \in K : c - 65 \in 0..190
    BY DEF K
  <2>4. QED
    BY <2>2, <2>3
<1>2. /\ other # << >> /\ Len(other) = n
      /\ \A i \in 1..n : other[i] = 65 + ((26 - (key[i] - 65)) % 26)
  BY DEF Inverse26
<1>3. PICK m \in Nat : m = Len(source) /\ DOMAIN source = 1..m
  OBVIOUS
<1>4. \A k \in 1..m : source[k] \in 0..255
  <2> DEFINE B == 0..255
  <2>1. source \in Seq(B)
    OBVIOUS
  <2> HIDE DEF B
  <2>2. \A k \in 1..m : source[k] \in B
    BY <1>3, <2>1
  <2>3. QED
    BY <2>2 DEF B
<1>5. Letters(source) \in Seq(BOOLEAN) /\ DOMAIN Letters(source) = 1..m
  BY <1>3 DEF Letters, Letter, Upper, Lower
<1>6. \A k \in 1..m : h[k] \in 1..n
  BY <1>1, <1>5, PlacesAre
<1> HIDE DEF n, other, h
<1>7. turned = [k \in 1..m |-> IF Letter(source[k])
                             THEN Turned(source[k], Case(source[k]), 26, (key[h[k]] - 65) % 256)
                             ELSE source[k]]
  BY <1>3 DEF vigenere_cipher, n, h
<1>8. ASSUME NEW k \in 1..m
      PROVE  /\ Letter(turned[k]) = Letter(source[k])
             /\ Letter(source[k]) =>
                  Turned(turned[k], Case(turned[k]), 26, (other[h[k]] - 65) % 256) = source[k]
             /\ ~Letter(source[k]) => turned[k] = source[k]
  <2>1. PICK i \in 1..n, t \in 0..190 : i = h[k] /\ t = key[i] - 65
    BY <1>1, <1>6
  <2>2. (key[h[k]] - 65) % 256 = t
    <3>1. t % 256 = t
      OBVIOUS
    <3>2. QED
      BY <2>1, <3>1
  <2>3. (other[h[k]] - 65) % 256 = (26 - t) % 26
    <3>1. PICK u \in 0..25 : u = (26 - t) % 26
      OBVIOUS
    <3>2. other[i] = 65 + ((26 - (key[i] - 65)) % 26)
      BY <1>2
    <3>3. other[i] = 65 + u
      BY <2>1, <3>1, <3>2
    <3>4. ((65 + u) - 65) % 256 = u
      OBVIOUS
    <3>5. QED
      BY <2>1, <3>1, <3>3, <3>4
  <2>4. CASE ~Letter(source[k])
    BY <1>7, <2>4
  <2>5. CASE Letter(source[k])
    <3>1. PICK c \in 0..255 : c = source[k]
      BY <1>4
    <3>2. turned[k] = Turned(c, Case(c), 26, t)
      BY <1>7, <2>2, <2>5, <3>1
    <3>3. Letter(c)
      BY <2>5, <3>1
    <3>4. Letter(turned[k]) /\ Turned(turned[k], Case(turned[k]), 26, (26 - t) % 26) = c
      BY <3>2, <3>3, LetterBack
    <3>5. QED
      BY <2>3, <2>5, <3>1, <3>4
  <2>6. QED
    BY <2>4, <2>5
<1>9. DOMAIN turned = 1..m /\ Letters(turned) = Letters(source)
  BY <1>3, <1>7, <1>8 DEF Letters
<1>10. vigenere_cipher(turned, other)
         = {[k \in 1..m |-> IF Letter(turned[k])
                            THEN Turned(turned[k], Case(turned[k]), 26, (other[h[k]] - 65) % 256)
                            ELSE turned[k]]}
  BY <1>2, <1>9 DEF vigenere_cipher, h
<1>11. [k \in 1..m |-> IF Letter(turned[k])
                       THEN Turned(turned[k], Case(turned[k]), 26, (other[h[k]] - 65) % 256)
                       ELSE turned[k]] = [k \in 1..m |-> source[k]]
  BY <1>8
<1>12. source = [k \in 1..m |-> source[k]]
  BY <1>3
<1>13. QED
  BY <1>10, <1>11, <1>12 DEF other

\* the places are those that the letters before them have come to
LEMMA PlacesCount ==
    ASSUME NEW n \in Nat \ {0}, NEW letters \in Seq(BOOLEAN), NEW m \in Nat, m = Len(letters),
           NEW k \in 1..m
    PROVE  Places(letters, n)[k] = (Cardinality({i \in 1..(k - 1) : letters[i]}) % n) + 1
<1> DEFINE P == {i \in 1..m : letters[i]}
           C(j) == Cardinality(P \cap (1..j))
<1>1. PICK h \in [0..m -> 1..n] : /\ Goes(h, letters, n, m)
                                  /\ Places(letters, n) = [j \in 1..m |-> h[j - 1]]
  BY PlacesGo
<1>2. \A j \in 1..m : letters[j] \in BOOLEAN /\ (j \in P <=> letters[j])
  OBVIOUS
<1>3. P \cap (1..(k - 1)) = {i \in 1..(k - 1) : letters[i]}
  OBVIOUS
<1> HIDE DEF P
<1>4. /\ C(0) = 0 /\ \A j \in Nat : C(j) \in Nat
      /\ \A j \in Nat \ {0} : C(j) = C(j - 1) + (IF j \in P THEN 1 ELSE 0)
  BY CountUpTo
<1> HIDE DEF C
<1> DEFINE R == {j \in 0..m : h[j] = (C(j) % n) + 1}
<1>5. 0 \in R
  <2>1. 0 % n = 0
    OBVIOUS
  <2>2. h[0] = 1
    BY <1>1 DEF Goes
  <2>3. QED
    BY <1>4, <2>1, <2>2
<1>6. ASSUME NEW j \in 1..m, j - 1 \in R
      PROVE  j \in R
  <2>1. PICK c \in Nat : c = C(j - 1)
    BY <1>4
  <2>2. h[j - 1] = (c % n) + 1 /\ c % n \in 0..(n - 1)
    BY <1>6, <2>1
  <2>3. h[j] = IF ~letters[j] THEN h[j - 1] ELSE IF h[j - 1] = n THEN 1 ELSE h[j - 1] + 1
    BY <1>1 DEF Goes
  <2>4. CASE letters[j]
    <3>1. C(j) = c + 1
      <4>1. j \in Nat \ {0} /\ j \in P
        BY <1>2, <2>4
      <4>2. QED
        BY <1>4, <2>1, <4>1
    <3>2. (c + 1) % n = IF (c % n) + 1 = n THEN 0 ELSE (c % n) + 1
      BY ModNext
    <3>3. h[j] = ((c + 1) % n) + 1
      BY <2>2, <2>3, <2>4, <3>2
    <3>4. QED
      BY <3>1, <3>3
  <2>5. CASE ~letters[j]
    <3>1. C(j) = c
      BY <1>2, <1>4, <2>1, <2>5
    <3>2. QED
      BY <2>2, <2>3, <2>5, <3>1
  <2>6. QED
    BY <2>4, <2>5
<1> HIDE DEF R
<1>7. \A j \in 0..m : j \in R
  BY <1>5, <1>6, InductUpTo
<1>8. h[k - 1] = (C(k - 1) % n) + 1
  <2>1. k - 1 \in 0..m
    OBVIOUS
  <2>2. QED
    BY <1>7, <2>1 DEF R
<1>9. QED
  BY <1>1, <1>3, <1>8 DEF C

LEMMA SmallByte == \A t \in 0..255 : t % 256 = t
OBVIOUS

\* Each letter is turned by the letter of the key that the letters before it have come to.
THEOREM VigenereStandard ==
    ASSUME NEW source \in Seq(0..255), NEW key \in Seq(65..255), key # << >>,
           NEW turned \in vigenere_cipher(source, key)
    PROVE  \A k \in DOMAIN source : turned[k] = RotAlpha(source[k], KeyAt(source, key, k))
<1> DEFINE n == Len(key)
           h == Places(Letters(source), n)
<1>1. n \in Nat \ {0} /\ \A i \in 1..n : key[i] - 65 \in 0..190
  <2> DEFINE K == 65..255
  <2>1. key \in Seq(K)
    OBVIOUS
  <2> HIDE DEF K
  <2>2. n \in Nat \ {0} /\ \A i \in 1..n : key[i] \in K
    BY <2>1
  <2>3. \A c \in K : c - 65 \in 0..190
    BY DEF K
  <2>4. QED
    BY <2>2, <2>3
<1>2. PICK m \in Nat : m = Len(source) /\ DOMAIN source = 1..m
  OBVIOUS
<1>3. /\ Letters(source) \in Seq(BOOLEAN) /\ Len(Letters(source)) = m
      /\ \A k \in 1..m : Letters(source)[k] = Letter(source[k])
  BY <1>2 DEF Letters, Letter, Upper, Lower
<1> HIDE DEF n, h
<1>4. turned = [k \in 1..m |-> IF Letter(source[k])
                               THEN Turned(source[k], Case(source[k]), 26, (key[h[k]] - 65) % 256)
                               ELSE source[k]]
  BY <1>2 DEF vigenere_cipher, n, h
<1>5. ASSUME NEW k \in 1..m
      PROVE  turned[k] = RotAlpha(source[k], KeyAt(source, key, k))
  <2> DEFINE C == Cardinality({i \in 1..(k - 1) : Letter(source[i])})
  <2>1. C \in Nat /\ h[k] = (C % n) + 1
    <3>1. {i \in 1..(k - 1) : Letters(source)[i]} = {i \in 1..(k - 1) : Letter(source[i])}
      BY <1>3
    <3>2. IsFiniteSet(1..(k - 1)) /\ {i \in 1..(k - 1) : Letter(source[i])} \in SUBSET (1..(k - 1))
      BY FS_Interval
    <3>3. C \in Nat
      BY <3>2, FS_Subset, FS_CardinalityType
    <3>4. h[k] = (C % n) + 1
      BY <1>1, <1>2, <1>3, <3>1, PlacesCount DEF h
    <3>5. QED
      BY <3>3, <3>4
  <2> HIDE DEF C
  <2>2. h[k] \in 1..n
    BY <1>1, <2>1
  <2>3. PICK t \in 0..190 : t = key[h[k]] - 65
    BY <1>1, <2>2
  <2>4. (key[h[k]] - 65) % 256 = t
    <3>1. t % 256 = t
      <4>1. t \in 0..255
        OBVIOUS
      <4>2. QED
        BY <4>1, SmallByte, Zenon
    <3>2. QED
      BY <2>3, <3>1
  <2>5. KeyAt(source, key, k) = t
    BY <2>1, <2>3 DEF KeyAt, C, n
  <2>6. QED
    BY <1>4, <2>4, <2>5 DEF RotAlpha
<1>6. QED
  BY <1>2, <1>5

-----------------------------------------------------------------------------
(* utf8_encode and utf8_decode *)

\* what the code sees of the first byte of a character of one, two, three and four
LEMMA First1 == ASSUME NEW b \in 0..127 PROVE ~Has(b, 128)
BY DEF Has
LEMMA First2 ==
    ASSUME NEW x \in 0..31
    PROVE  Has(192 + x, 128) /\ ~Has(192 + x, 32) /\ (192 + x) % 32 = x
BY DEF Has
LEMMA First3 ==
    ASSUME NEW x \in 0..15
    PROVE  /\ Has(224 + x, 128) /\ Has(224 + x, 32) /\ ~Has(224 + x, 16)
           /\ (224 + x) % 16 = x
BY DEF Has
LEMMA First4 ==
    ASSUME NEW x \in 0..7
    PROVE  /\ Has(240 + x, 128) /\ Has(240 + x, 32) /\ Has(240 + x, 16)
           /\ ~Has(240 + x, 8) /\ (240 + x) % 8 = x
BY DEF Has

\* the code points that four bytes hold
CodePoints == {val \in Nat : ((val \div 64) \div 64) \div 64 < 8}

\* a code point and its parts
LEMMA Sextet ==
    ASSUME NEW val \in Nat
    PROVE  /\ val \div 64 \in Nat /\ val % 64 \in 0..63 /\ (val \div 64) * 64 + (val % 64) = val
OBVIOUS

LEMMA Highest ==
    ASSUME NEW val \in CodePoints
    PROVE  val \in Nat /\ ((val \div 64) \div 64) \div 64 \in 0..7
<1>1. val \in Nat /\ ((val \div 64) \div 64) \div 64 < 8
  BY DEF CodePoints
<1>2. \A v \in Nat : v \div 64 \in Nat
  OBVIOUS
<1>3. ((val \div 64) \div 64) \div 64 \in Nat
  BY <1>1, <1>2
<1>4. QED
  BY <1>1, <1>3

\* Where the bytes of a character are, one turn reads them, and the character.
LEMMA CharacterRead ==
    ASSUME NEW val \in CodePoints, NEW source, Len(source) \in Nat,
           NEW k \in 1..Len(source), At(source, k, Character(val))
    PROVE  /\ Following(source, k) = {Len(Character(val)) - 1}
           /\ CodePoint(source, k, Len(Character(val)) - 1) = val
<1> DEFINE c == Character(val)
<1>1. PICK v1 \in Nat, v2 \in Nat, v3 \in 0..7 :
        v1 = val \div 64 /\ v2 = v1 \div 64 /\ v3 = v2 \div 64
  BY Highest, Sextet
<1>2. PICK x0 \in 0..63, x1 \in 0..63, x2 \in 0..63 :
        /\ x0 = val % 64 /\ x1 = v1 % 64 /\ x2 = v2 % 64
        /\ val = v1 * 64 + x0 /\ v1 = v2 * 64 + x1 /\ v2 = v3 * 64 + x2
  <2>1. val \in Nat
    BY Highest
  <2>2. val % 64 \in 0..63 /\ v1 * 64 + (val % 64) = val
    BY <1>1, <2>1, Sextet
  <2>3. v1 % 64 \in 0..63 /\ v2 * 64 + (v1 % 64) = v1
    BY <1>1, Sextet
  <2>4. v2 % 64 \in 0..63 /\ v3 * 64 + (v2 % 64) = v2
    BY <1>1, Sextet
  <2>5. QED
    BY <2>2, <2>3, <2>4
<1>3. CASE val < 128
  <2>1. c = <<val>> /\ Len(c) = 1
    BY <1>3 DEF Character
  <2>2. source[k] = val
    BY <2>1 DEF At
  <2>3. val \in 0..127
    <3>1. val \in Nat
      BY Highest
    <3>2. QED
      BY <1>3, <3>1
  <2>4. ~Has(source[k], 128)
    BY <2>2, <2>3, First1
  <2>5. Following(source, k) = {0}
    BY <2>4 DEF Following
  <2>6. CodePoint(source, k, 0) = val
    BY <2>2 DEF CodePoint
  <2>7. QED
    BY <2>1, <2>5, <2>6
<1>4. CASE ~(val < 128) /\ v1 < 32
  <2>1. c = <<192 + v1, 128 + x0>> /\ Len(c) = 2
    BY <1>1, <1>2, <1>4 DEF Character
  <2>2. source[k] = 192 + v1 /\ source[k + 1] = 128 + x0 /\ Len(source) - k >= 1
    <3>1. source[k + 1 - 1] = c[1] /\ source[k + 2 - 1] = c[2] /\ k + 2 - 1 <= Len(source)
      BY <2>1 DEF At
    <3>2. QED
      BY <2>1, <3>1
  <2>3. v1 \in 0..31
    BY <1>4
  <2>4. Has(source[k], 128) /\ ~Has(source[k], 32) /\ source[k] % 32 = v1
    <3>1. Has(192 + v1, 128) /\ ~Has(192 + v1, 32) /\ (192 + v1) % 32 = v1
      BY <2>3, First2
    <3>2. QED
      BY <2>2, <3>1
  <2>5. Following(source, k) = {1}
    BY <2>2, <2>4 DEF Following
  <2>6. CodePoint(source, k, 1) = v1 * 64 + x0
    <3>1. (128 + x0) % 64 = x0
      OBVIOUS
    <3>2. source[k + 1] % 64 = x0
      BY <2>2, <3>1
    <3>3. QED
      BY <2>4, <3>2 DEF CodePoint
  <2>7. Len(c) - 1 = 1
    BY <2>1
  <2>8. QED
    BY <1>2, <2>5, <2>6, <2>7
<1>5. CASE ~(val < 128) /\ ~(v1 < 32) /\ v2 < 16
  <2>1. c = <<224 + v2, 128 + x1, 128 + x0>> /\ Len(c) = 3
    BY <1>1, <1>2, <1>5 DEF Character
  <2>2. /\ source[k] = 224 + v2 /\ source[k + 1] = 128 + x1 /\ source[k + 2] = 128 + x0
        /\ Len(source) - k >= 2
    <3>1. /\ source[k + 1 - 1] = c[1] /\ source[k + 2 - 1] = c[2] /\ source[k + 3 - 1] = c[3]
          /\ k + 3 - 1 <= Len(source)
      BY <2>1 DEF At
    <3>2. QED
      BY <2>1, <3>1
  <2>3. v2 \in 0..15
    BY <1>5
  <2>4. /\ Has(source[k], 128) /\ Has(source[k], 32) /\ ~Has(source[k], 16)
        /\ source[k] % 16 = v2
    <3>1. /\ Has(224 + v2, 128) /\ Has(224 + v2, 32) /\ ~Has(224 + v2, 16)
          /\ (224 + v2) % 16 = v2
      BY <2>3, First3
    <3>2. QED
      BY <2>2, <3>1
  <2>5. Following(source, k) = {2}
    BY <2>2, <2>4 DEF Following
  <2>6. CodePoint(source, k, 2) = (v2 * 64 + x1) * 64 + x0
    <3>1. (128 + x1) % 64 = x1 /\ (128 + x0) % 64 = x0
      OBVIOUS
    <3>2. source[k + 1] % 64 = x1 /\ source[k + 2] % 64 = x0
      BY <2>2, <3>1
    <3>3. QED
      BY <2>4, <3>2 DEF CodePoint
  <2>7. Len(c) - 1 = 2
    BY <2>1
  <2>8. QED
    BY <1>2, <2>5, <2>6, <2>7
<1>6. CASE ~(val < 128) /\ ~(v1 < 32) /\ ~(v2 < 16)
  <2>1. v3 % 16 = v3
    OBVIOUS
  <2>2. c = <<240 + v3, 128 + x2, 128 + x1, 128 + x0>> /\ Len(c) = 4
    BY <1>1, <1>2, <1>6, <2>1 DEF Character
  <2>3. /\ source[k] = 240 + v3 /\ source[k + 1] = 128 + x2 /\ source[k + 2] = 128 + x1
        /\ source[k + 3] = 128 + x0 /\ Len(source) - k >= 3
    <3>1. /\ source[k + 1 - 1] = c[1] /\ source[k + 2 - 1] = c[2] /\ source[k + 3 - 1] = c[3]
          /\ source[k + 4 - 1] = c[4] /\ k + 4 - 1 <= Len(source)
      BY <2>2 DEF At
    <3>2. QED
      BY <2>2, <3>1
  <2>4. /\ Has(source[k], 128) /\ Has(source[k], 32) /\ Has(source[k], 16)
        /\ ~Has(source[k], 8) /\ source[k] % 8 = v3
    <3>1. /\ Has(240 + v3, 128) /\ Has(240 + v3, 32) /\ Has(240 + v3, 16)
          /\ ~Has(240 + v3, 8) /\ (240 + v3) % 8 = v3
      BY First4
    <3>2. QED
      BY <2>3, <3>1
  <2>5. Following(source, k) = {3}
    BY <2>3, <2>4 DEF Following
  <2>6. CodePoint(source, k, 3) = ((v3 * 64 + x2) * 64 + x1) * 64 + x0
    <3>1. (128 + x2) % 64 = x2 /\ (128 + x1) % 64 = x1 /\ (128 + x0) % 64 = x0
      OBVIOUS
    <3>2. source[k + 1] % 64 = x2 /\ source[k + 2] % 64 = x1 /\ source[k + 3] % 64 = x0
      BY <2>3, <3>1
    <3>3. QED
      BY <2>4, <3>2 DEF CodePoint
  <2>7. Len(c) - 1 = 3
    BY <2>2
  <2>8. QED
    BY <1>2, <2>5, <2>6, <2>7
<1>7. QED
  BY <1>3, <1>4, <1>5, <1>6

LEMMA CharacterIs ==
    ASSUME NEW val \in CodePoints
    PROVE  Character(val) \in Seq(Int) /\ Len(Character(val)) \in 1..4
<1>1. PICK v \in Nat : v = val
  BY Highest
<1>2. PICK v1 \in Int, v2 \in Int, v3 \in Int :
        v1 = v \div 64 /\ v2 = v1 \div 64 /\ v3 = v2 \div 64
  BY Sextet
<1>3. PICK x0 \in Int, x1 \in Int, x2 \in Int, x3 \in Int :
        x0 = v % 64 /\ x1 = v1 % 64 /\ x2 = v2 % 64 /\ x3 = v3 % 16
  OBVIOUS
<1>4. Character(v) = IF v < 128 THEN <<v>>
                         ELSE IF v1 < 32 THEN <<192 + v1, 128 + x0>>
                         ELSE IF v2 < 16 THEN <<224 + v2, 128 + x1, 128 + x0>>
                         ELSE <<240 + x3, 128 + x2, 128 + x1, 128 + x0>>
  BY <1>2, <1>3 DEF Character
<1>5. QED
  BY <1>1, <1>4

\* Whatever the code points, of those four bytes hold, utf8_decode gives back what utf8_encode
\* made bytes of: it exits on none of them, and reads no character more or less.
THEOREM Utf8Undone ==
    ASSUME NEW source \in Seq(CodePoints)
    PROVE  utf8_decode(utf8_encode(source)) = {source}
<1>1. PICK m \in Nat : m = Len(source) /\ DOMAIN source = 1..m
  OBVIOUS
<1>2. \A k \in 1..m : source[k] \in CodePoints
  BY <1>1
<1> DEFINE chars == [k \in 1..m |-> Character(source[k])]
<1>3. \A k \in 1..m : chars[k] \in Seq(Int) /\ Len(chars[k]) \in 1..4
  BY <1>2, CharacterIs
<1>4. chars \in Seq(Seq(Int)) /\ Len(chars) = m
  BY <1>3
<1>5. PICK flat \in [0..m -> Seq(Int)] : /\ Flat(flat, chars, m, Int)
                                         /\ FlattenSeq(chars) = flat[m]
  <2> HIDE DEF chars
  <2>1. QED
    BY <1>4, Flattened
<1>6. utf8_encode(source) = flat[m]
  BY <1>1, <1>5 DEF utf8_encode
<1>7. PICK text : text = flat[m]
  OBVIOUS
<1>8. \A i \in 0..m : Len(flat[i]) \in Nat
  <2>1. \A s \in Seq(Int) : Len(s) \in Nat
    OBVIOUS
  <2>2. QED
    BY <2>1
<1>9. PICK len \in Nat : len = Len(text)
  BY <1>7, <1>8
<1>10. \A i \in 1..m : /\ At(text, Len(flat[i - 1]) + 1, chars[i])
                       /\ Len(flat[i]) = Len(flat[i - 1]) + Len(chars[i])
  <2> HIDE DEF chars
  <2>1. \A i \in 1..m : InFlat(flat, chars, m, i)
    BY <1>5, FlatAt
  <2>2. QED
    BY <1>7, <2>1 DEF InFlat
<1> DEFINE Reading(i) == [k |-> Len(flat[i]) + 1, r |-> [j \in 1..i |-> source[j]]]
<1>11. ASSUME NEW i \in 1..m
       PROVE  Turn(text, Reading(i - 1)) = {Reading(i)}
  <2>1. PICK val \in CodePoints : val = source[i]
    BY <1>2
  <2>2. PICK n \in 1..4, x \in Nat : n = Len(chars[i]) /\ x = Len(flat[i - 1])
    <3>1. i - 1 \in 0..m
      OBVIOUS
    <3>2. QED
      BY <1>3, <1>8, <3>1
  <2>3. At(text, x + 1, Character(val))
    BY <1>10, <2>1, <2>2
  <2>4. x + 1 + n - 1 <= len /\ Len(Character(val)) = n
    BY <1>9, <2>1, <2>2, <2>3 DEF At
  <2>5. x + 1 \in 1..len /\ ~(x + 1 > len)
    BY <2>4
  <2>6. Following(text, x + 1) = {n - 1} /\ CodePoint(text, x + 1, n - 1) = val
    BY <1>9, <2>3, <2>4, <2>5, CharacterRead
  <2>7. Reading(i).k = x + 1 + (n - 1) + 1
    <3> HIDE DEF chars
    <3>1. Len(flat[i]) = x + n
      BY <1>10, <2>2
    <3>2. x + n + 1 = x + 1 + (n - 1) + 1
      OBVIOUS
    <3>3. QED
      BY <3>1, <3>2
  <2>8. Append(Reading(i - 1).r, val) = Reading(i).r
    BY <1>1, <2>1, InitialPart
  <2>9. Reading(i - 1).k = x + 1
    BY <2>2
  <2>10. Reading(i) = [k |-> Reading(i).k, r |-> Reading(i).r]
    OBVIOUS
  <2> HIDE DEF Reading, chars
  <2>11. Turn(text, Reading(i - 1))
           = {[k |-> x + 1 + n1 + 1,
               r |-> Append(Reading(i - 1).r, CodePoint(text, x + 1, n1))] :
                n1 \in Following(text, x + 1)}
    BY <1>9, <2>5, <2>9 DEF Turn
  <2>12. Turn(text, Reading(i - 1))
           = {[k |-> x + 1 + (n - 1) + 1, r |-> Append(Reading(i - 1).r, val)]}
    BY <2>6, <2>11
  <2>13. QED
    BY <2>7, <2>8, <2>10, <2>12
<1>12. Turn(text, Reading(m)) = {Reading(m)}
  <2>1. Reading(m).k = len + 1 /\ len + 1 > len
    BY <1>7, <1>9
  <2> HIDE DEF Reading
  <2>2. QED
    BY <1>9, <2>1 DEF Turn
<1>13. m <= len
  <2> DEFINE R == {j \in 0..m : j <= Len(flat[j])}
  <2>1. 0 \in R
    BY <1>8
  <2>2. ASSUME NEW j \in 1..m, j - 1 \in R
        PROVE  j \in R
    <3>1. PICK x, y \in Nat, n \in 1..4 :
            x = Len(flat[j - 1]) /\ y = Len(flat[j]) /\ n = Len(chars[j])
      <4>1. j - 1 \in 0..m /\ j \in 0..m
        OBVIOUS
      <4>2. QED
        BY <1>3, <1>8, <4>1
    <3>2. y = x + n /\ j - 1 <= x
      BY <1>10, <2>2, <3>1
    <3>3. j <= y
      BY <3>2
    <3>4. QED
      BY <3>1, <3>3
  <2> HIDE DEF R
  <2>3. \A j \in 0..m : j \in R
    BY <2>1, <2>2, InductUpTo
  <2>4. m \in R
    BY <2>3
  <2>5. QED
    BY <1>7, <1>9, <2>4 DEF R
<1>14. Reading(0) = [k |-> 1, r |-> << >>] /\ Reading(m).r = source
  <2>1. flat[0] = << >> /\ Len(<< >>) = 0
    BY <1>5 DEF Flat
  <2>2. [j \in 1..0 |-> source[j]] = << >>
    OBVIOUS
  <2>3. [j \in 1..m |-> source[j]] = source
    BY <1>1
  <2>4. QED
    BY <2>1, <2>2, <2>3
<1> HIDE DEF Reading
<1> DEFINE Is(h) == h = [i \in 0..len |-> IF i = 0 THEN {[k |-> 1, r |-> << >>]}
                                         ELSE UNION {Turn(text, c) : c \in h[i - 1]}]
           now(i) == IF i <= m THEN Reading(i) ELSE Reading(m)
<1>15. utf8_decode(text) = {c.r : c \in (CHOOSE h : Is(h))[len]}
  BY <1>9 DEF utf8_decode
<1>16. now(0) = [k |-> 1, r |-> << >>] /\ now(len) = Reading(m)
  BY <1>13, <1>14
<1>17. ASSUME NEW i \in 1..len
       PROVE  Turn(text, now(i - 1)) = {now(i)}
  <2>1. CASE i <= m
    <3>1. i \in 1..m /\ i - 1 <= m
      BY <2>1
    <3>2. QED
      BY <1>11, <3>1
  <2>2. CASE i = m + 1
    <3>1. i - 1 = m /\ ~(i <= m)
      BY <2>2
    <3>2. QED
      BY <1>12, <3>1
  <2>3. CASE i > m + 1
    <3>1. ~(i - 1 <= m) /\ ~(i <= m)
      BY <2>3
    <3>2. QED
      BY <1>12, <3>1
  <2>4. QED
    BY <2>1, <2>2, <2>3
<1> HIDE DEF now
<1>18. \A i \in 1..len : i \in 0..len /\ i # 0 /\ i - 1 \in 0..len
  OBVIOUS
<1>19. \E h : Is(h)
  <2> DEFINE g == [i \in 0..len |-> {now(i)}]
  <2>1. \A i \in 1..len : g[i] = UNION {Turn(text, c) : c \in g[i - 1]}
    BY <1>17, <1>18
  <2>2. g[0] = {[k |-> 1, r |-> << >>]}
    BY <1>16
  <2>3. g = [i \in 0..len |-> g[i]]
    OBVIOUS
  <2> HIDE DEF g
  <2>4. \A i \in 0..len : i # 0 => i \in 1..len
    OBVIOUS
  <2>5. \A i \in 0..len : g[i] = IF i = 0 THEN {[k |-> 1, r |-> << >>]}
                                 ELSE UNION {Turn(text, c) : c \in g[i - 1]}
    BY <2>1, <2>2, <2>4
  <2>6. Is(g)
    BY <2>3, <2>5
  <2>7. QED
    BY <2>6
<1>20. PICK h : h = (CHOOSE f : Is(f)) /\ Is(h)
  BY <1>19
<1>21. h[len] = {now(len)}
  <2> DEFINE R == {i \in 0..len : h[i] = {now(i)}}
  <2>1. 0 \in R
    <3>1. 0 \in 0..len
      OBVIOUS
    <3>2. h[0] = {[k |-> 1, r |-> << >>]}
      BY <1>20, <3>1
    <3>3. QED
      BY <1>16, <3>1, <3>2
  <2>2. ASSUME NEW i \in 1..len, i - 1 \in R
        PROVE  i \in R
    <3>1. h[i] = UNION {Turn(text, c) : c \in h[i - 1]}
      BY <1>18, <1>20
    <3>2. h[i - 1] = {now(i - 1)}
      BY <2>2
    <3>3. h[i] = Turn(text, now(i - 1))
      BY <3>1, <3>2
    <3>4. QED
      BY <1>17, <1>18, <3>3
  <2> HIDE DEF R
  <2>3. \A i \in 0..len : i \in R
    BY <2>1, <2>2, InductUpTo
  <2>4. len \in R
    BY <2>3
  <2>5. QED
    BY <2>4 DEF R
<1> HIDE DEF Is
<1>22. utf8_decode(text) = {c.r : c \in {now(len)}}
  BY <1>15, <1>20, <1>21
<1>23. QED
  BY <1>6, <1>7, <1>14, <1>16, <1>22

-----------------------------------------------------------------------------
(* b64_encode and b64_decode *)


\* each of the characters of 6 bits stands for them, and none for padding
LEMMA SixBits ==
    ASSUME NEW n \in 0..63
    PROVE  /\ from64(to64(n)) = n /\ to64(n) # Equals
           /\ to64(n) \in Int
<1>1. CASE n < 26
  <2>1. to64(n) = n + 65
    BY <1>1 DEF to64
  <2>2. from64(n + 65) = n
    BY <1>1 DEF from64, Equals
  <2>3. QED
    BY <1>1, <2>1, <2>2 DEF Equals
<1>2. CASE 26 <= n /\ n < 52
  <2>1. to64(n) = n + 71
    BY <1>2 DEF to64
  <2>2. from64(n + 71) = n
    BY <1>2 DEF from64, Equals
  <2>3. QED
    BY <1>2, <2>1, <2>2 DEF Equals
<1>3. CASE 52 <= n /\ n < 62
  <2>1. to64(n) = n - 4
    BY <1>3 DEF to64
  <2>2. from64(n - 4) = n
    BY <1>3 DEF from64, Equals
  <2>3. QED
    BY <1>3, <2>1, <2>2 DEF Equals
<1>4. CASE n = 62
  BY <1>4 DEF to64, from64, Equals
<1>5. CASE n = 63
  BY <1>5 DEF to64, from64, Equals
<1>6. QED
  BY <1>1, <1>2, <1>3, <1>4, <1>5

\* the 4 times 6 bits of 3 bytes
Sextets(a, b, c) ==
    <<a \div 4, (a % 4) * 16 + (b \div 16), (b % 16) * 4 + (c \div 64), c % 64>>

LEMMA SextetsAre ==
    ASSUME NEW a \in Octets, NEW b \in Octets, NEW c \in Octets
    PROVE  /\ Len(Sextets(a, b, c)) = 4
           /\ \A i \in 1..4 : Sextets(a, b, c)[i] \in 0..63
           /\ c = 0 => Sextets(a, b, c)[4] = 0
           /\ c = 0 /\ b = 0 => Sextets(a, b, c)[3] = 0
<1>1. /\ a \div 4 \in 0..63 /\ (a % 4) * 16 + (b \div 16) \in 0..63
      /\ (b % 16) * 4 + (c \div 64) \in 0..63 /\ c % 64 \in 0..63
  BY DEF Octets
<1>2. c = 0 => c \div 64 = 0 /\ c % 64 = 0
  OBVIOUS
<1>3. b = 0 => b % 16 = 0
  OBVIOUS
<1>4. c = 0 /\ b = 0 => (b % 16) * 4 + (c \div 64) = 0
  BY <1>2, <1>3
<1>5. \A i \in 1..4 : i \in {1, 2, 3, 4}
  OBVIOUS
<1>6. QED
  BY <1>1, <1>2, <1>4, <1>5 DEF Sextets

\* cs are the 4 characters of 3 bytes
OctetsOf(cs, a, b, c) ==
    cs \in Seq(Int) /\ Len(cs) = 4 /\ \A i \in 1..4 : cs[i] = to64(Sextets(a, b, c)[i])

LEMMA QuadIs ==
    ASSUME NEW a \in Octets, NEW b \in Octets, NEW c \in Octets,
           NEW bytes, bytes[1] = a, bytes[2] = b, bytes[3] = c
    PROVE  OctetsOf(Quad(bytes), a, b, c)
<1>1. PICK a1 \in 0..63, a2 \in 0..3 : a1 = a \div 4 /\ a2 = a % 4 /\ a = a1 * 4 + a2
  BY DEF Octets
<1>2. PICK b1 \in 0..15, b2 \in 0..15 : b1 = b \div 16 /\ b2 = b % 16 /\ b = b1 * 16 + b2
  BY DEF Octets
<1>3. PICK c1 \in 0..3, c2 \in 0..63 : c1 = c \div 64 /\ c2 = c % 64 /\ c = c1 * 64 + c2
  BY DEF Octets
<1>4. PICK n \in Nat : n = a * 65536 + b * 256 + c
  BY SMT DEF Octets
<1>5. PICK s2 \in 0..63, s3 \in 0..63 : s2 = a2 * 16 + b1 /\ s3 = b2 * 4 + c1
  OBVIOUS
<1>6. n = ((a1 * 64 + s2) * 64 + s3) * 64 + c2
  BY <1>1, <1>2, <1>3, <1>4, <1>5, SMT
<1>7. n % 64 = c2 /\ n \div 64 = (a1 * 64 + s2) * 64 + s3
  BY <1>6, SMT
<1>8. n \div 4096 = a1 * 64 + s2 /\ n \div 262144 = a1
  BY <1>6, SMT
<1>9. (n \div 64) % 64 = s3 /\ (n \div 4096) % 64 = s2
  BY <1>7, <1>8, SMT
<1>10. Quad(bytes) = <<to64(a1), to64(s2), to64(s3), to64(c2)>>
  BY <1>4, <1>7, <1>8, <1>9, SMT DEF Quad
<1>11. Sextets(a, b, c) = <<a1, s2, s3, c2>>
  BY <1>1, <1>2, <1>3, <1>5 DEF Sextets
<1>12. \A i \in 1..4 : i \in {1, 2, 3, 4}
  OBVIOUS
<1>13. to64(a1) \in Int /\ to64(s2) \in Int /\ to64(s3) \in Int /\ to64(c2) \in Int
  BY SixBits
<1>14. QED
  BY <1>10, <1>11, <1>12, <1>13 DEF OctetsOf

\* the characters of 3 bytes, of 2 when the third is 0 and of 1 when both others are
WrittenAs(cs, n, a, b, c) ==
    /\ Len(cs) = n /\ (n < 4 => c = 0) /\ (n < 3 => b = 0)
    /\ \A i \in 1..n : from64(cs[i]) = Sextets(a, b, c)[i]

LEMMA TripleIs ==
    ASSUME NEW a \in Octets, NEW b \in Octets, NEW c \in Octets,
           NEW n \in 2..4, NEW cs, WrittenAs(cs, n, a, b, c)
    PROVE  Triple(cs) = <<a, b, c>>
<1>1. /\ Len(cs) = n /\ (n < 4 => c = 0) /\ (n < 3 => b = 0)
      /\ \A i \in 1..n : from64(cs[i]) = Sextets(a, b, c)[i]
  BY DEF WrittenAs
<1> DEFINE v(i) == IF i <= n THEN from64(cs[i]) ELSE 0
           sextet(i) == IF v(i + 1) >= 64 /\ v(i) % 2 = 0 THEN (v(i) % 64) + 1 ELSE v(i) % 64
           m == sextet(1) * 262144 + sextet(2) * 4096 + sextet(3) * 64 + sextet(4)
<1>2. Triple(cs) = <<m \div 65536, (m \div 256) % 256, m % 256>>
  BY <1>1, SMT DEF Triple
<1>3. PICK s1 \in 0..63, s2 \in 0..63, s3 \in 0..63, s4 \in 0..63 :
        /\ s1 = Sextets(a, b, c)[1] /\ s2 = Sextets(a, b, c)[2]
        /\ s3 = Sextets(a, b, c)[3] /\ s4 = Sextets(a, b, c)[4]
  <2>1. 1 \in 1..4 /\ 2 \in 1..4 /\ 3 \in 1..4 /\ 4 \in 1..4
    OBVIOUS
  <2>2. QED
    BY <2>1, SextetsAre
<1>4. (n < 4 => s4 = 0) /\ (n < 3 => s3 = 0)
  <2>1. (c = 0 => Sextets(a, b, c)[4] = 0) /\ (c = 0 /\ b = 0 => Sextets(a, b, c)[3] = 0)
    BY SextetsAre
  <2>2. n < 3 => n < 4
    OBVIOUS
  <2>3. QED
    BY <1>1, <1>3, <2>1, <2>2
<1>5. v(1) = s1 /\ v(2) = s2 /\ v(3) = s3 /\ v(4) = s4 /\ v(5) = 0
  <2>1. 1 \in 1..n /\ 2 \in 1..n /\ (3 <= n => 3 \in 1..n) /\ (4 <= n => 4 \in 1..n)
    OBVIOUS
  <2>2. v(1) = s1 /\ v(2) = s2
    BY <1>1, <1>3, <2>1
  <2>3. v(3) = s3
    BY <1>1, <1>3, <1>4, <2>1
  <2>4. v(4) = s4
    BY <1>1, <1>3, <1>4, <2>1
  <2>5. v(5) = 0
    OBVIOUS
  <2>6. QED
    BY <2>2, <2>3, <2>4, <2>5
<1> HIDE DEF v
<1>6. \A i \in 1..4 : sextet(i) = v(i)
  <2>1. \A s \in 0..63 : ~(s >= 64) /\ s % 64 = s
    OBVIOUS
  <2> DEFINE B == 0..63
  <2>2. 0 \in B /\ s2 \in B /\ s3 \in B /\ s4 \in B
    OBVIOUS
  <2> HIDE DEF B
  <2>3. v(2) \in B /\ v(3) \in B /\ v(4) \in B /\ v(5) \in B
    BY <1>5, <2>2
  <2>4. \A i \in 1..4 : i + 1 \in {2, 3, 4, 5} /\ i \in {1, 2, 3, 4}
    OBVIOUS
  <2>5. \A i \in 1..4 : v(i) \in 0..63
    BY <1>5, <2>4 DEF B
  <2>6. \A i \in 1..4 : v(i + 1) \in 0..63
    BY <2>3, <2>4 DEF B
  <2>7. QED
    BY <2>1, <2>5, <2>6
<1>7. 1 \in 1..4 /\ 2 \in 1..4 /\ 3 \in 1..4 /\ 4 \in 1..4
  OBVIOUS
<1> HIDE DEF sextet
<1>8. sextet(1) = s1 /\ sextet(2) = s2 /\ sextet(3) = s3 /\ sextet(4) = s4
  BY <1>5, <1>6, <1>7
<1>9. PICK k \in Nat : k = ((s1 * 64 + s2) * 64 + s3) * 64 + s4
  OBVIOUS
<1>10. m = k
  BY <1>8, <1>9, SMT
<1> HIDE DEF m
<1>11. PICK a1 \in 0..63, a2 \in 0..3 : a1 = a \div 4 /\ a2 = a % 4 /\ a = a1 * 4 + a2
  BY DEF Octets
<1>12. PICK b1 \in 0..15, b2 \in 0..15 : b1 = b \div 16 /\ b2 = b % 16 /\ b = b1 * 16 + b2
  BY DEF Octets
<1>13. PICK c1 \in 0..3, c2 \in 0..63 : c1 = c \div 64 /\ c2 = c % 64 /\ c = c1 * 64 + c2
  BY DEF Octets
<1>14. s1 = a1 /\ s2 = a2 * 16 + b1 /\ s3 = b2 * 4 + c1 /\ s4 = c2
  BY <1>3, <1>11, <1>12, <1>13 DEF Sextets
<1>15. k = (a * 256 + b) * 256 + c
  BY <1>9, <1>11, <1>12, <1>13, <1>14, SMT DEF Octets
<1>16. k % 256 = c /\ k \div 256 = a * 256 + b
  BY <1>15, SMT DEF Octets
<1>17. k \div 65536 = a
  BY <1>15, SMT DEF Octets
<1>18. (a * 256 + b) % 256 = b
  BY DEF Octets
<1>19. QED
  BY <1>2, <1>10, <1>16, <1>17, <1>18, SMT

\* What b64_encode makes of source: q times 4 characters, the last pad of them padding.
B64(source, L, q, pad, all, text) ==
    /\ 3 * q = L + pad
    /\ \A p \in 1..(3 * q) : all[p] \in Octets /\ all[p] = IF p <= L THEN source[p] ELSE 0
    /\ text \in Seq(Int) /\ Len(text) = 4 * q
    /\ \A k \in 1..q : \A j \in 1..4 :
          4 * (k - 1) + j <= 4 * q - pad =>
             text[4 * (k - 1) + j]
               = to64(Sextets(all[3 * (k - 1) + 1], all[3 * (k - 1) + 2],
                                  all[3 * (k - 1) + 3])[j])
    /\ \A p \in 1..(4 * q) : p > 4 * q - pad => text[p] = Equals

LEMMA Base64Is ==
    ASSUME NEW source \in Seq(Octets), NEW L \in Nat \ {0}, L = Len(source)
    PROVE  \E q \in Nat \ {0}, pad \in 0..2 : \E all :
              B64(source, L, q, pad, all, b64_encode(source))
<1> DEFINE B == Octets
<1>1. source \in Seq(B) /\ 0 \in B
  BY DEF Octets
<1>2. PICK pad \in 0..2, q \in Nat \ {0} : pad = (3 - (L % 3)) % 3 /\ 3 * q = L + pad
  <2>1. PICK x \in 0..2, y \in Nat : x = L % 3 /\ L = 3 * y + x
    <3>1. L % 3 \in 0..2 /\ L \div 3 \in Nat /\ L = 3 * (L \div 3) + (L % 3)
      OBVIOUS
    <3>2. QED
      BY <3>1
  <2>2. CASE x = 0
    BY <2>1, <2>2
  <2>3. CASE x = 1
    <3>1. PICK z \in Nat \ {0} : z = y + 1 /\ 3 * z = L + 2
      BY <2>1, <2>3
    <3>2. 2 \in 0..2 /\ 2 = (3 - (L % 3)) % 3
      BY <2>1, <2>3
    <3>3. QED
      BY <3>1, <3>2
  <2>4. CASE x = 2
    <3>1. PICK z \in Nat \ {0} : z = y + 1 /\ 3 * z = L + 1
      BY <2>1, <2>4
    <3>2. 1 \in 0..2 /\ 1 = (3 - (L % 3)) % 3
      BY <2>1, <2>4
    <3>3. QED
      BY <3>1, <3>2
  <2>5. QED
    BY <2>2, <2>3, <2>4
<1>3. PICK zeros : zeros = [i \in 1..pad |-> 0]
  OBVIOUS
<1> HIDE DEF B
<1>4. zeros \in Seq(B) /\ Len(zeros) = pad /\ \A i \in 1..pad : zeros[i] = 0
  BY <1>1, <1>3
<1>5. PICK all \in Seq(B) : all = source \o zeros
  <2>1. \A s, t \in Seq(B) : s \o t \in Seq(B)
    OBVIOUS
  <2>2. QED
    BY <1>1, <1>4, <2>1
<1>6. Len(all) = 3 * q
  <2>1. \A s, t \in Seq(B) : Len(s \o t) = Len(s) + Len(t)
    OBVIOUS
  <2>2. Len(all) = L + pad
    BY <1>1, <1>4, <1>5, <2>1
  <2>3. QED
    BY <1>2, <2>2
<1>7. ASSUME NEW p \in 1..(3 * q)
      PROVE  all[p] \in B /\ all[p] = IF p <= L THEN source[p] ELSE 0
  <2>1. all[p] \in B
    BY <1>6
  <2>2. CASE p <= L
    BY <1>1, <1>4, <1>5, <2>1, <2>2
  <2>3. CASE p > L
    <3>1. p - L \in 1..pad
      BY <1>2, <2>3
    <3>2. all[p] = zeros[p - L]
      BY <1>1, <1>4, <1>5, <1>6, <2>3
    <3>3. QED
      BY <1>4, <2>1, <2>3, <3>1, <3>2
  <2>4. QED
    BY <2>2, <2>3
<1> DEFINE item(k, j) == all[3 * (k - 1) + j]
           quad(k) == Quad(SubSeq(all, 3 * k - 2, 3 * k))
           quads == [k \in 1..q |-> quad(k)]
<1>8. ASSUME NEW k \in 1..q
      PROVE  /\ quad(k) \in Seq(Int) /\ Len(quad(k)) = 4
             /\ \A j \in 1..4 :
                  quad(k)[j] = to64(Sextets(item(k, 1), item(k, 2), item(k, 3))[j])
  <2>1. /\ 3 * k - 2 \in 1..(3 * q) /\ 3 * k \in 1..(3 * q)
        /\ 3 * (k - 1) + 1 \in 1..(3 * q) /\ 3 * (k - 1) + 2 \in 1..(3 * q)
        /\ 3 * (k - 1) + 3 \in 1..(3 * q)
    OBVIOUS
  <2>2. PICK t : t = SubSeq(all, 3 * k - 2, 3 * k)
    OBVIOUS
  <2>3. t[1] = item(k, 1) /\ t[2] = item(k, 2) /\ t[3] = item(k, 3)
    <3>1. PICK u \in Nat, w \in Nat : u = 3 * k - 2 /\ w = 3 * k
      OBVIOUS
    <3>2. t = SubSeq(all, u, w)
      BY <2>2, <3>1
    <3>3. t = [i \in 1..(w - u + 1) |-> all[i + u - 1]]
      BY <1>6, <3>1, <3>2, <2>1
    <3>4. 1 \in 1..(w - u + 1) /\ 2 \in 1..(w - u + 1) /\ 3 \in 1..(w - u + 1)
      BY <3>1
    <3>5. t[1] = all[1 + u - 1] /\ t[2] = all[2 + u - 1] /\ t[3] = all[3 + u - 1]
      BY <3>3, <3>4
    <3>6. /\ 1 + u - 1 = 3 * (k - 1) + 1 /\ 2 + u - 1 = 3 * (k - 1) + 2
          /\ 3 + u - 1 = 3 * (k - 1) + 3
      BY <3>1
    <3>7. QED
      BY <3>5, <3>6
  <2>4. PICK a \in Octets, b \in Octets, c \in Octets :
          a = item(k, 1) /\ b = item(k, 2) /\ c = item(k, 3)
    BY <1>7, <2>1 DEF B
  <2>5. OctetsOf(Quad(t), a, b, c)
    <3> HIDE DEF item
    <3>1. t[1] = a
      BY <2>3, <2>4
    <3>2. t[2] = b
      BY <2>3, <2>4
    <3>3. t[3] = c
      BY <2>3, <2>4
    <3>4. QED
      BY <3>1, <3>2, <3>3, QuadIs
  <2>6. QED
    BY <2>2, <2>4, <2>5 DEF OctetsOf
<1> HIDE DEF quad
<1>9. quads \in Seq(Seq(Int)) /\ Len(quads) = q /\ \A k \in 1..q : quads[k] = quad(k)
  BY <1>8
<1> HIDE DEF quads
<1>10. PICK flat \in [0..q -> Seq(Int)] : /\ Flat(flat, quads, q, Int)
                                         /\ FlattenSeq(quads) = flat[q]
  BY <1>9, Flattened
<1>11. \A k \in 1..q : Len(quads[k]) = 4
  BY <1>8, <1>9
<1>12. /\ flat[q] \in Seq(Int) /\ Len(flat[q]) = 4 * q
       /\ \A k \in 1..q : \A j \in 1..4 : flat[q][4 * (k - 1) + j] = quads[k][j]
  <2>1. 4 \in Nat \ {0}
    OBVIOUS
  <2>2. Even(flat[q], quads, q, 4, Int)
    BY <1>10, <1>11, <2>1, FlatEven
  <2>3. QED
    BY <2>2 DEF Even
<1>13. PICK r \in Seq(Int) : r = flat[q]
  BY <1>12
<1>14. PICK n \in Nat : n = 4 * q - pad /\ n <= 4 * q
  <2>1. 4 * q - pad \in Nat /\ 4 * q - pad <= 4 * q
    OBVIOUS
  <2>2. QED
    BY <2>1
<1>15. PICK head \in Seq(Int) : head = SubSeq(r, 1, n) /\ Len(head) = n
                                /\ \A p \in 1..n : head[p] = r[p]
  <2>1. Len(r) = 4 * q
    BY <1>12, <1>13
  <2>2. PICK z \in Nat : z = Len(r) /\ n <= z
    BY <1>14, <2>1
  <2>3. \A p \in 1..n : p \in 1..z
    BY <2>2
  <2>4. SubSeq(r, 1, n) \in Seq(Int) /\ Len(SubSeq(r, 1, n)) = n
    BY <2>2
  <2>5. \A p \in 1..n : SubSeq(r, 1, n)[p] = r[p]
    BY <2>2, <2>3
  <2>6. QED
    BY <2>4, <2>5
<1>16. PICK tail \in Seq(Int) : /\ tail = [i \in 1..pad |-> Equals] /\ Len(tail) = pad
                                /\ \A i \in 1..pad : tail[i] = Equals
  <2> DEFINE u == [i \in 1..pad |-> Equals]
  <2>1. Equals \in Int
    BY DEF Equals
  <2>2. u \in Seq(Int) /\ Len(u) = pad /\ \A i \in 1..pad : u[i] = Equals
    BY <2>1
  <2>3. QED
    BY <2>2
<1>17. PICK text \in Seq(Int) : text = head \o tail
  <2>1. head \o tail \in Seq(Int)
    OBVIOUS
  <2>2. QED
    BY <2>1
<1>18. b64_encode(source) = text
  <2>1. Len(all) \div 3 = q
    BY <1>6
  <2>2. b64_encode(source) = SubSeq(r, 1, Len(r) - pad) \o [i \in 1..pad |-> Equals]
    BY <1>2, <1>3, <1>5, <1>10, <1>13, <2>1 DEF b64_encode, quads, quad
  <2>3. Len(r) - pad = n
    BY <1>12, <1>13, <1>14
  <2>4. QED
    BY <1>15, <1>16, <1>17, <2>2, <2>3
<1>19. Len(text) = 4 * q
  BY <1>14, <1>15, <1>16, <1>17
<1>20. ASSUME NEW k \in 1..q, NEW j \in 1..4, 4 * (k - 1) + j <= 4 * q - pad
       PROVE  text[4 * (k - 1) + j] = to64(Sextets(item(k, 1), item(k, 2), item(k, 3))[j])
  <2>1. PICK p \in 1..n : p = 4 * (k - 1) + j
    BY <1>14, <1>20
  <2>2. text[p] = head[p]
    BY <1>15, <1>16, <1>17
  <2>3. r[p] = quads[k][j]
    BY <1>12, <1>13, <2>1
  <2>4. text[p] = quad(k)[j]
    BY <1>9, <1>15, <2>2, <2>3
  <2>5. QED
    BY <1>8, <2>1, <2>4
<1>21. ASSUME NEW p \in 1..(4 * q), p > 4 * q - pad
       PROVE  text[p] = Equals
  <2>1. p - n \in 1..pad
    BY <1>14, <1>21
  <2>2. text[p] = tail[p - n]
    BY <1>14, <1>15, <1>16, <1>17, <1>19, <1>21
  <2>3. QED
    BY <1>16, <2>1, <2>2
<1>22. B64(source, L, q, pad, all, text)
  BY <1>2, <1>7, <1>19, <1>20, <1>21 DEF B64, B
<1>23. QED
  BY <1>18, <1>22

\* What b64_decode reads of such characters: its checks pass, it finds as many characters of
\* padding, and each group has its bytes.
WellPadded(text, q, pad) ==
    /\ \A p \in 1..(4 * q) : from64(text[p]) # 66
    /\ \A p \in 1..(4 * q) : text[p] = Equals <=> p > 4 * q - pad

LEMMA Base64Checks ==
    ASSUME NEW source, NEW L \in Nat \ {0}, NEW q \in Nat \ {0}, NEW pad \in 0..2, NEW all,
           NEW text, B64(source, L, q, pad, all, text)
    PROVE  WellPadded(text, q, pad)
<1>1. ASSUME NEW p \in 1..(4 * q), ~(p > 4 * q - pad)
      PROVE  from64(text[p]) \in 0..63 /\ text[p] # Equals
  <2>1. PICK k \in 1..q, j \in 1..4 : p = 4 * (k - 1) + j
    <3>1. 4 \in Nat \ {0}
      OBVIOUS
    <3>2. QED
      BY <3>1, Grouped
  <2>2. PICK a \in Octets, b \in Octets, c \in Octets :
          a = all[3 * (k - 1) + 1] /\ b = all[3 * (k - 1) + 2] /\ c = all[3 * (k - 1) + 3]
    <3>1. /\ 3 * (k - 1) + 1 \in 1..(3 * q) /\ 3 * (k - 1) + 2 \in 1..(3 * q)
          /\ 3 * (k - 1) + 3 \in 1..(3 * q)
      OBVIOUS
    <3>2. QED
      BY <3>1 DEF B64
  <2>3. PICK n \in 0..63 : n = Sextets(a, b, c)[j]
    BY SextetsAre
  <2>4. text[p] = to64(n)
    <3>1. 4 * (k - 1) + j <= 4 * q - pad
      BY <1>1, <2>1
    <3>2. QED
      BY <2>1, <2>2, <2>3, <3>1 DEF B64
  <2>5. QED
    BY <2>4, SixBits
<1>2. from64(Equals) = 65
  BY DEF from64, Equals
<1>3. ASSUME NEW p \in 1..(4 * q), p > 4 * q - pad
      PROVE  text[p] = Equals /\ from64(text[p]) = 65
  BY <1>2, <1>3 DEF B64
<1>4. \A n \in 0..65 : n # 66
  OBVIOUS
<1>5. QED
  BY <1>1, <1>3, <1>4 DEF WellPadded

\* cs are the first n characters of group k, and Bytes the bytes it is of
InGroup(cs, text, k, n) == Len(cs) = n /\ \A j \in 1..n : cs[j] = text[4 * (k - 1) + j]
Bytes(all, k) == <<all[3 * (k - 1) + 1], all[3 * (k - 1) + 2], all[3 * (k - 1) + 3]>>

\* the first n characters of group k are no padding, and are all that are not
Takes(n, k, q, pad) == n <= 4 * q - pad - 4 * (k - 1) /\ (n < 4 => k = q /\ n = 4 - pad)

GroupsRead(text, q, pad, all) ==
    \A k \in 1..q, n \in 2..4 : \A cs :
        Takes(n, k, q, pad) /\ InGroup(cs, text, k, n) => Triple(cs) = Bytes(all, k)

LEMMA Base64Groups ==
    ASSUME NEW source, NEW L \in Nat \ {0}, NEW q \in Nat \ {0}, NEW pad \in 0..2, NEW all,
           NEW text, B64(source, L, q, pad, all, text)
    PROVE  GroupsRead(text, q, pad, all)
<1> SUFFICES ASSUME NEW k \in 1..q, NEW n \in 2..4, Takes(n, k, q, pad),
                    NEW cs, InGroup(cs, text, k, n)
             PROVE  Triple(cs) = Bytes(all, k)
  BY DEF GroupsRead
<1>1. /\ 3 * (k - 1) + 1 \in 1..(3 * q) /\ 3 * (k - 1) + 2 \in 1..(3 * q)
      /\ 3 * (k - 1) + 3 \in 1..(3 * q)
  OBVIOUS
<1>2. PICK a \in Octets, b \in Octets, c \in Octets :
        a = all[3 * (k - 1) + 1] /\ b = all[3 * (k - 1) + 2] /\ c = all[3 * (k - 1) + 3]
  BY <1>1 DEF B64
<1>3. 3 * q = L + pad
  BY DEF B64
<1>4. n < 4 => c = 0
  <2>1. n < 4 => ~(3 * (k - 1) + 3 <= L)
    BY <1>3 DEF Takes
  <2>2. QED
    BY <1>1, <1>2, <2>1 DEF B64
<1>5. n < 3 => b = 0
  <2>1. n < 3 => ~(3 * (k - 1) + 2 <= L)
    BY <1>3 DEF Takes
  <2>2. QED
    BY <1>1, <1>2, <2>1 DEF B64
<1>6. ASSUME NEW j \in 1..n
      PROVE  from64(cs[j]) = Sextets(a, b, c)[j]
  <2>1. j \in 1..4 /\ 4 * (k - 1) + j <= 4 * q - pad
    BY DEF Takes
  <2>2. PICK s \in 0..63 : s = Sextets(a, b, c)[j]
    BY <2>1, SextetsAre
  <2>3. text[4 * (k - 1) + j] = to64(s)
    BY <1>2, <2>1, <2>2 DEF B64
  <2>4. QED
    BY <2>2, <2>3, SixBits DEF InGroup
<1>7. Triple(cs) = <<a, b, c>>
  <2>1. WrittenAs(cs, n, a, b, c)
    BY <1>4, <1>5, <1>6 DEF WrittenAs, InGroup
  <2>2. QED
    BY <2>1, TripleIs
<1>8. QED
  BY <1>2, <1>7 DEF Bytes

\* Whatever the bytes, b64_decode gives back what b64_encode made characters of: it refuses none
\* of them, and the padding tells how many bytes there were.  Of none it is refused, and so is
\* what b64_encode makes of no bytes.
THEOREM Base64Undone ==
    ASSUME NEW source \in Seq(Octets), source # << >>
    PROVE  b64_decode(b64_encode(source)) = {source}
<1>1. PICK L \in Nat \ {0} : L = Len(source)
  OBVIOUS
<1>2. PICK q \in Nat \ {0}, pad \in 0..2 :
        \E all : B64(source, L, q, pad, all, b64_encode(source))
  BY <1>1, Base64Is
<1>3. PICK all : B64(source, L, q, pad, all, b64_encode(source))
  BY <1>2
<1>4. PICK text : text = b64_encode(source)
  OBVIOUS
<1>5. B64(source, L, q, pad, all, text)
  BY <1>3, <1>4
<1>6. /\ text \in Seq(Int) /\ Len(text) = 4 * q /\ 3 * q = L + pad
      /\ \A p \in 1..(3 * q) : all[p] = IF p <= L THEN source[p] ELSE 0
  BY <1>5 DEF B64
<1>7. /\ \A p \in 1..(4 * q) : from64(text[p]) # 66
      /\ \A p \in 1..(4 * q) : text[p] = Equals <=> p > 4 * q - pad
  <2>1. WellPadded(text, q, pad)
    BY <1>5, Base64Checks
  <2>2. QED
    BY <2>1 DEF WellPadded
<1> DEFINE group(k) == SubSeq(text, 4 * k - 3, 4 * k)
           M == ((Len(text) \div 4) * 3 - pad) \div 3
           triples == [k \in 1..M |-> Triple(group(k))]
           whole == FlattenSeq(triples)
           last == SubSeq(Triple(SubSeq(group(Len(text) \div 4), 1, 4 - pad)), 1, 3 - pad)
<1>8. b64_decode(text) = {IF pad = 0 THEN whole ELSE whole \o last}
  <2>1. PICK len \in Nat : len = Len(text) /\ len = 4 * q
    BY <1>6
  <2>2. len # 0 /\ len % 4 = 0
    BY <2>1
  <2>3. \A k \in 1..len : from64(text[k]) # 66
    BY <1>7, <2>1
  <2>4. text[len - 2] # Equals
    <3>1. len - 2 \in 1..(4 * q) /\ ~(len - 2 > 4 * q - pad)
      BY <2>1
    <3>2. QED
      BY <1>7, <3>1
  <2>5. text[len - 1] = Equals <=> pad = 2
    <3>1. len - 1 \in 1..(4 * q) /\ (len - 1 > 4 * q - pad <=> pad = 2)
      BY <2>1
    <3>2. QED
      BY <1>7, <3>1
  <2>6. text[len] = Equals <=> pad \in {1, 2}
    <3>1. len \in 1..(4 * q) /\ (len > 4 * q - pad <=> pad \in {1, 2})
      BY <2>1
    <3>2. QED
      BY <1>7, <3>1
  <2>7. pad = IF text[len - 1] = Equals THEN 2 ELSE IF text[len] = Equals THEN 1 ELSE 0
    BY <2>5, <2>6
  <2>8. QED
    BY <2>1, <2>2, <2>3, <2>4, <2>7 DEF b64_decode, Returns
<1>9. Len(text) \div 4 = q
  BY <1>6
<1>10. M = IF pad = 0 THEN q ELSE q - 1
  BY <1>9
<1>11. \A k \in 1..q : group(k) \in Seq(Int) /\ InGroup(group(k), text, k, 4)
  <2>1. ASSUME NEW k \in 1..q
        PROVE  group(k) \in Seq(Int) /\ InGroup(group(k), text, k, 4)
    <3>1. PICK u \in Nat, w \in Nat : u = 4 * k - 3 /\ w = 4 * k
      OBVIOUS
    <3>2. PICK n \in Nat : n = Len(text) /\ u \in 1..n /\ w \in 1..n /\ u <= w
      BY <1>6, <3>1
    <3>3. SubSeq(text, u, w) = [i \in 1..(w - u + 1) |-> text[i + u - 1]]
      BY <1>6, <3>2
    <3>4. w - u + 1 = 4 /\ \A j \in 1..4 : j + u - 1 = 4 * (k - 1) + j
      BY <3>1
    <3>5. group(k) = [i \in 1..4 |-> text[i + u - 1]]
      BY <3>1, <3>3, <3>4
    <3>6. \A j \in 1..4 : text[j + u - 1] \in Int
      BY <1>6, <3>1, <3>2
    <3> HIDE DEF group
    <3>7. group(k) \in Seq(Int) /\ Len(group(k)) = 4
      BY <3>5, <3>6
    <3>8. QED
      BY <3>4, <3>5, <3>7 DEF InGroup
  <2>2. QED
    BY <2>1
<1>12. ASSUME NEW k \in 1..M
       PROVE  Triple(group(k)) = Bytes(all, k)
  <2>1. PICK n \in 2..4 : n = 4 /\ k \in 1..q /\ Takes(n, k, q, pad)
    BY <1>10 DEF Takes
  <2> HIDE DEF group
  <2>2. PICK cs : cs = group(k) /\ InGroup(cs, text, k, n)
    BY <1>11, <2>1
  <2>3. QED
    <3>1. GroupsRead(text, q, pad, all)
      BY <1>5, Base64Groups
    <3>2. QED
      BY <2>1, <2>2, <3>1 DEF GroupsRead
<1>13. pad # 0 => last = SubSeq(Bytes(all, q), 1, 3 - pad)
  <2>1. SUFFICES ASSUME pad # 0
                 PROVE  Triple(SubSeq(group(q), 1, 4 - pad)) = Bytes(all, q)
    BY <1>9
  <2>2. PICK n \in 2..4 : n = 4 - pad /\ Takes(n, q, q, pad)
    BY <2>1 DEF Takes
  <2>3. q \in 1..q
    OBVIOUS
  <2> HIDE DEF group
  <2>4. PICK g \in Seq(Int) : g = group(q) /\ InGroup(g, text, q, 4)
    BY <1>11, <2>3
  <2>5. PICK cs : cs = SubSeq(g, 1, n)
    OBVIOUS
  <2>6. Len(g) = 4 /\ \A j \in 1..4 : g[j] = text[4 * (q - 1) + j]
    BY <2>4 DEF InGroup
  <2>7. Len(cs) = n /\ \A j \in 1..n : cs[j] = g[j]
    BY <2>5, <2>6
  <2>8. \A j \in 1..n : j \in 1..4
    OBVIOUS
  <2>9. InGroup(cs, text, q, n)
    BY <2>6, <2>7, <2>8 DEF InGroup
  <2>10. Triple(cs) = Bytes(all, q)
    <3>1. GroupsRead(text, q, pad, all)
      BY <1>5, Base64Groups
    <3>2. QED
      BY <2>2, <2>3, <2>9, <3>1 DEF GroupsRead
  <2>11. QED
    BY <2>2, <2>4, <2>5, <2>10
<1> HIDE DEF last, group
<1>14. PICK m \in Nat : m = M /\ m = IF pad = 0 THEN q ELSE q - 1
  BY <1>10
<1> DEFINE B == Octets
<1>15. /\ source \in Seq(B)
       /\ \A p \in 1..(3 * q) : all[p] \in B
  BY <1>5 DEF B64
<1> HIDE DEF M, B
<1>16. ASSUME NEW k \in 1..q
       PROVE  /\ all[3 * (k - 1) + 1] \in B /\ all[3 * (k - 1) + 2] \in B
              /\ all[3 * (k - 1) + 3] \in B
  <2>1. /\ 3 * (k - 1) + 1 \in 1..(3 * q) /\ 3 * (k - 1) + 2 \in 1..(3 * q)
        /\ 3 * (k - 1) + 3 \in 1..(3 * q)
    OBVIOUS
  <2>2. QED
    BY <1>15, <2>1
<1>17. ASSUME NEW k \in 1..m
       PROVE  /\ triples[k] \in Seq(B) /\ Len(triples[k]) = 3
              /\ \A j \in 1..3 : triples[k][j] = all[3 * (k - 1) + j]
  <2>1. k \in 1..q /\ k \in 1..M
    BY <1>14
  <2>2. PICK x \in B, y \in B, z \in B : /\ x = all[3 * (k - 1) + 1] /\ y = all[3 * (k - 1) + 2]
                                         /\ z = all[3 * (k - 1) + 3]
    BY <1>16, <2>1
  <2>3. triples[k] = <<x, y, z>>
    BY <1>12, <2>1, <2>2 DEF Bytes
  <2>4. \A j \in 1..3 : j \in {1, 2, 3}
    OBVIOUS
  <2>5. <<x, y, z>> \in Seq(B) /\ Len(<<x, y, z>>) = 3
    OBVIOUS
  <2>6. \A j \in 1..3 : <<x, y, z>>[j] = all[3 * (k - 1) + j]
    <3> TAKE j \in 1..3
    <3>1. CASE j = 1
      BY <2>2, <3>1
    <3>2. CASE j = 2
      BY <2>2, <3>2
    <3>3. CASE j = 3
      BY <2>2, <3>3
    <3>4. QED
      BY <2>4, <3>1, <3>2, <3>3
  <2> HIDE DEF triples
  <2>7. QED
    BY <2>3, <2>5, <2>6
<1>18. triples \in Seq(Seq(B)) /\ Len(triples) = m
  <2>1. triples = [k \in 1..m |-> triples[k]]
    BY <1>14
  <2> HIDE DEF triples
  <2>2. \A k \in 1..m : triples[k] \in Seq(B)
    BY <1>17
  <2>3. [k \in 1..m |-> triples[k]] \in Seq(Seq(B)) /\ Len([k \in 1..m |-> triples[k]]) = m
    BY <2>2
  <2>4. QED
    BY <2>1, <2>3
<1> HIDE DEF triples
<1>19. PICK flat \in [0..m -> Seq(B)] : Flat(flat, triples, m, B) /\ whole = flat[m]
  BY <1>18, Flattened
<1>20. Even(whole, triples, m, 3, B)
  <2>1. 3 \in Nat \ {0}
    OBVIOUS
  <2>2. \A k \in 1..m : Len(triples[k]) = 3
    BY <1>17
  <2>3. Even(flat[m], triples, m, 3, B)
    BY <1>19, <2>1, <2>2, FlatEven
  <2>4. QED
    BY <1>19, <2>3
<1> HIDE DEF whole
<1>21. PICK w \in Seq(B) : w = whole /\ Len(w) = 3 * m
  BY <1>20 DEF Even
<1>22. ASSUME NEW p \in 1..(3 * m)
       PROVE  w[p] = source[p] /\ p <= L
  <2>1. PICK k \in 1..m, j \in 1..3 : p = 3 * (k - 1) + j
    <3>1. 3 \in Nat \ {0}
      OBVIOUS
    <3>2. QED
      BY <3>1, Grouped
  <2>2. w[p] = all[p]
    BY <1>17, <1>20, <1>21, <2>1 DEF Even
  <2>3. p \in 1..(3 * q) /\ p <= L
    BY <1>6, <1>14
  <2>4. QED
    BY <1>6, <2>2, <2>3
<1>23. \A s, t \in Seq(B) : /\ Len(s) = L /\ Len(t) = L
                            /\ \A p \in 1..L : s[p] = t[p]
                            => s = t
  OBVIOUS
<1>24. CASE pad = 0
  <2>1. 3 * m = L
    BY <1>6, <1>14, <1>24
  <2>2. w = source
    BY <1>1, <1>15, <1>21, <1>22, <1>23, <2>1
  <2>3. QED
    BY <1>4, <1>8, <1>21, <1>24, <2>2
<1>25. CASE pad # 0
  <2>1. PICK n \in 1..2 : n = 3 - pad /\ L = 3 * m + n /\ m = q - 1
    BY <1>6, <1>14, <1>25
  <2>2. PICK x \in B, y \in B, z \in B : /\ x = all[3 * m + 1] /\ y = all[3 * m + 2]
                                         /\ z = all[3 * m + 3]
    <3>1. q \in 1..q
      OBVIOUS
    <3>2. QED
      BY <1>16, <2>1, <3>1
  <2>3. PICK l : l = last
    OBVIOUS
  <2>4. PICK t \in Seq(B) : t = <<x, y, z>> /\ Len(t) = 3
    <3>1. <<x, y, z>> \in Seq(B) /\ Len(<<x, y, z>>) = 3
      OBVIOUS
    <3>2. QED
      BY <3>1
  <2>5. Bytes(all, q) = t
    BY <2>1, <2>2, <2>4 DEF Bytes
  <2>6. l = SubSeq(t, 1, n)
    BY <1>13, <1>25, <2>1, <2>3, <2>5
  <2>7. l \in Seq(B) /\ Len(l) = n /\ \A j \in 1..n : l[j] = t[j]
    <3>1. n \in Nat /\ n <= 3 /\ \A j \in 1..n : j \in 1..3
      OBVIOUS
    <3>2. SubSeq(t, 1, n) \in Seq(B) /\ Len(SubSeq(t, 1, n)) = n
      BY <2>4, <3>1
    <3>3. \A j \in 1..n : SubSeq(t, 1, n)[j] = t[j]
      BY <2>4, <3>1
    <3>4. QED
      BY <2>6, <3>2, <3>3
  <2>8. \A j \in 1..n : l[j] = all[3 * m + j]
    <3>1. \A j \in 1..n : j \in {1, 2}
      OBVIOUS
    <3>2. t[1] = all[3 * m + 1] /\ t[2] = all[3 * m + 2]
      BY <2>2, <2>4
    <3>3. \A j \in 1..n : t[j] = all[3 * m + j]
      BY <3>1, <3>2
    <3>4. QED
      BY <2>7, <3>3
  <2>9. \A j \in 1..n : l[j] = source[3 * m + j]
    <3>1. \A j \in 1..n : 3 * m + j \in 1..(3 * q) /\ 3 * m + j <= L
      BY <1>6, <2>1
    <3>2. QED
      BY <1>6, <2>8, <3>1
  <2>10. PICK r \in Seq(B) : r = w \o l
    <3>1. \A u, v \in Seq(B) : u \o v \in Seq(B)
      OBVIOUS
    <3>2. QED
      BY <2>7, <3>1
  <2>11. Len(r) = L
    <3>1. \A u, v \in Seq(B) : Len(u \o v) = Len(u) + Len(v)
      OBVIOUS
    <3>2. Len(r) = Len(w) + Len(l)
      BY ONLY <1>21, <2>7, <2>10, <3>1
    <3>3. QED
      BY ONLY <1>21, <2>1, <2>7, <3>2
  <2>12. ASSUME NEW p \in 1..L
         PROVE  r[p] = source[p]
    <3>1. CASE p <= 3 * m
      <4>1. p \in 1..(3 * m)
        BY <3>1
      <4>2. r[p] = w[p]
        BY <1>21, <2>7, <2>10, <4>1
      <4>3. QED
        BY <1>22, <4>1, <4>2
    <3>2. CASE p > 3 * m
      <4>1. PICK j \in 1..n : j = p - 3 * m /\ p = 3 * m + j
        BY <2>1, <3>2
      <4>2. r[3 * m + j] = l[j]
        BY <1>21, <2>7, <2>10
      <4>3. QED
        BY <2>9, <4>1, <4>2
    <3>3. QED
      BY <3>1, <3>2
  <2>13. r = source
    BY <1>1, <1>15, <1>23, <2>11, <2>12
  <2>14. QED
    BY <1>4, <1>8, <1>21, <1>25, <2>3, <2>10, <2>13
<1>26. QED
  BY <1>24, <1>25

-----------------------------------------------------------------------------
(* adler32 *)

\* what is added up in the two halves, modulo 65521
Reduced(x) == x % 65521
Halves(a, sum, k, total) == a = <<Reduced(1 + sum), Reduced(k + total)>>

LEMMA ReducedIn == \A x \in Int : Reduced(x) \in Nat
BY DEF Reduced
LEMMA ReducedIs ==
    ASSUME NEW x \in Int, NEW y \in Int
    PROVE  Reduced(x) \in Nat /\ Reduced(Reduced(x) + y) = Reduced(x + y)
           /\ Reduced(y + Reduced(x)) = Reduced(y + x)
BY DEF Reduced

LEMMA AdlerStep ==
    ASSUME NEW sum \in Nat, NEW k \in Nat, NEW total \in Nat, NEW b \in Nat,
           NEW x \in Nat, NEW y \in Nat, Halves(<<x, y>>, sum, k, total),
           NEW s1, s1 = Reduced(x + b), NEW s2, s2 = Reduced(y + s1)
    PROVE  Halves(<<s1, s2>>, sum + b, k + 1, total + sum + b)
<1>1. x = Reduced(1 + sum) /\ y = Reduced(k + total)
  BY DEF Halves
<1>2. s1 = Reduced((1 + sum) + b)
  BY <1>1, ReducedIs
<1>3. (1 + sum) + b = 1 + (sum + b)
  OBVIOUS
<1>4. s2 = Reduced((k + total) + s1)
  <2>1. s1 \in Int
    BY ReducedIn
  <2>2. QED
    BY <1>1, <2>1, ReducedIs
<1>5. s2 = Reduced((k + total) + (1 + (sum + b)))
  BY <1>2, <1>3, <1>4, ReducedIs
<1>6. (k + total) + (1 + (sum + b)) = (k + 1) + (total + sum + b)
  OBVIOUS
<1>7. QED
  BY <1>2, <1>3, <1>5, <1>6 DEF Halves

\* adler32 of a text whose sums are S, and the sums of those, T
LEMMA AdlerIs ==
    ASSUME NEW s \in Seq(Octets), NEW n \in Nat, n = Len(s),
           NEW S \in [0..n -> Nat], Sums(S, s, n),
           NEW T \in [0..n -> Nat], Sums(T, S, n)
    PROVE  Halves(adler32(s), S[n], n, T[n])
<1> DEFINE V == Nat \X Nat
           next(k, a) == <<Reduced(a[1] + s[k]), Reduced(a[2] + Reduced(a[1] + s[k]))>>
           step == [p \in (1..n) \X V |-> next(p[1], p[2])]
           Is(h) == h = [k \in 0..n |->
                            IF k = 0 THEN <<1, 0>>
                            ELSE LET a == h[k - 1]
                                     s1 == Reduced(a[1] + s[k])
                                 IN <<s1, Reduced(a[2] + s1)>>]
<1>1. adler32(s) = (CHOOSE g : Is(g))[n]
  BY DEF adler32, Reduced
<1>2. /\ n \in Nat /\ <<1, 0>> \in V /\ \A k \in 1..n : s[k] \in Nat
      /\ \A k \in 1..n, x \in V : next(k, x) \in V
  <2>1. \A k \in 1..n : s[k] \in Nat
    BY OctetsAre
  <2>2. \A x \in Nat : Reduced(x) \in Nat
    BY ReducedIn
  <2>3. ASSUME NEW k \in 1..n, NEW x \in V PROVE next(k, x) \in V
    <3>1. x[1] + s[k] \in Nat /\ x[2] \in Nat
      BY <2>1
    <3>2. Reduced(x[1] + s[k]) \in Nat
      BY <2>2, <3>1
    <3>3. x[2] + Reduced(x[1] + s[k]) \in Nat
      BY <3>1, <3>2
    <3>4. QED
      BY <2>2, <3>2, <3>3
  <2>4. QED
    BY <2>1, <2>3
<1>3. ASSUME NEW h
      PROVE  Is(h) <=> (h = [k \in 0..n |-> h[k]] /\ h[0] = <<1, 0>>
                        /\ \A k \in 1..n : h[k] = next(k, h[k - 1]))
  <2>1. 0 \in 0..n /\ \A k \in 0..n : k = 0 \/ k \in 1..n
    BY <1>2
  <2>2. \A k \in 1..n : k \in 0..n /\ k # 0
    BY <1>2
  <2> HIDE DEF next, V
  <2>3. Is(h) <=> h = [k \in 0..n |-> IF k = 0 THEN <<1, 0>> ELSE next(k, h[k - 1])]
    BY DEF next
  <2> HIDE DEF Is
  <2>4. QED
    BY <2>1, <2>2, <2>3
<1> HIDE DEF Is, V, next
<1>4. step \in [(1..n) \X V -> V] /\ \A k \in 1..n, x \in V : step[<<k, x>>] = next(k, x)
  BY <1>2
<1> HIDE DEF step
<1>5. PICK f \in [0..n -> V] : Follows(f, n, <<1, 0>>, step)
  BY <1>2, <1>4, Recursion
<1>6. f = [k \in 0..n |-> f[k]] /\ f[0] = <<1, 0>> /\ \A k \in 1..n : f[k] = next(k, f[k - 1])
  <2>1. \A k \in 1..n : k - 1 \in 0..n
    BY <1>2
  <2>2. \A k \in 1..n : f[k - 1] \in V
    BY <2>1
  <2>3. QED
    BY <1>4, <1>5, <2>2 DEF Follows
<1>7. PICK h : h = (CHOOSE g : Is(g)) /\ Is(h)
  BY <1>3, <1>6
<1>8. h[0] = <<1, 0>> /\ \A k \in 1..n : h[k] = next(k, h[k - 1])
  BY <1>3, <1>7
<1> DEFINE R == {k \in 0..n : Halves(h[k], S[k], k, T[k])}
<1>9. 0 \in R
  <2>1. S[0] = 0 /\ T[0] = 0 /\ h[0] = <<1, 0>>
    BY <1>8 DEF Sums
  <2>2. Halves(<<1, 0>>, 0, 0, 0)
    <3>1. Reduced(1 + 0) = 1 /\ Reduced(0 + 0) = 0
      BY DEF Reduced
    <3>2. QED
      BY <3>1 DEF Halves
  <2>3. 0 \in 0..n /\ Halves(h[0], S[0], 0, T[0])
    BY <2>1, <2>2
  <2>4. QED
    BY <2>3
<1>10. ASSUME NEW k \in 1..n, k - 1 \in R
       PROVE  k \in R
  <2>1. S[k - 1] \in Nat /\ T[k - 1] \in Nat /\ S[k] = S[k - 1] + s[k] /\ s[k] \in Nat
        /\ T[k] = T[k - 1] + S[k]
    <3>1. k - 1 \in 0..n /\ s[k] \in Nat
      BY <1>2
    <3>2. S[k - 1] \in Nat /\ T[k - 1] \in Nat
      BY <3>1
    <3>3. QED
      BY <3>1, <3>2 DEF Sums
  <2>2. Halves(h[k - 1], S[k - 1], k - 1, T[k - 1])
    BY <1>10
  <2>3. Halves(next(k, h[k - 1]), S[k - 1] + s[k], (k - 1) + 1, T[k - 1] + S[k - 1] + s[k])
    <3>1. PICK x, y \in Nat : h[k - 1] = <<x, y>>
      <4>1. \A d \in Int : Reduced(d) \in Nat
        BY ReducedIn
      <4>2. 1 + S[k - 1] \in Int /\ (k - 1) + T[k - 1] \in Int
        BY <2>1
      <4>3. QED
        BY <2>2, <4>1, <4>2 DEF Halves
    <3>2. PICK s1, s2 : s1 = Reduced(x + s[k]) /\ s2 = Reduced(y + s1)
      OBVIOUS
    <3>3. next(k, h[k - 1]) = <<s1, s2>>
      BY <3>1, <3>2 DEF next
    <3>4. PICK i, p, q, b \in Nat : i = k - 1 /\ p = S[k - 1] /\ q = T[k - 1] /\ b = s[k]
      <4>1. k - 1 \in Nat
        OBVIOUS
      <4>2. QED
        BY <2>1, <4>1, Zenon
    <3>5. Halves(<<x, y>>, p, i, q) /\ s1 = Reduced(x + b) /\ s2 = Reduced(y + s1)
      BY <2>2, <3>1, <3>2, <3>4
    <3>6. Halves(<<s1, s2>>, p + b, i + 1, q + p + b)
      BY <3>5, AdlerStep
    <3>7. QED
      BY <3>3, <3>4, <3>6
  <2>4. (k - 1) + 1 = k /\ T[k - 1] + S[k - 1] + s[k] = T[k]
    BY <2>1
  <2>5. QED
    BY <1>8, <2>1, <2>3, <2>4
<1> HIDE DEF R
<1>11. \A k \in 0..n : k \in R
  BY <1>9, <1>10, InductUpTo
<1>12. QED
  BY <1>1, <1>7, <1>11 DEF R

\* adler32 of a text is what RFC 1950 says of its sums.
THEOREM AdlerStandard ==
    ASSUME NEW s \in Seq(Octets)
    PROVE  IsAdler32(adler32(s), s)
<1> DEFINE n == Len(s)
           w == [i \in DOMAIN s |-> (Len(s) - i + 1) * s[i]]
<1>1. n \in Nat /\ DOMAIN s = 1..n /\ s \in Seq(Int) /\ \A k \in 1..n : s[k] \in Nat
  <2>1. n \in Nat /\ DOMAIN s = 1..n /\ \A k \in 1..n : s[k] \in Nat /\ s[k] \in Int
    BY OctetsAre
  <2>2. s \in [1..n -> Int]
    BY <2>1
  <2>3. QED
    BY <2>1, <2>2
<1>2. w = [i \in 1..n |-> (n - i + 1) * s[i]]
  BY <1>1
<1> HIDE DEF w
<1>3. w \in Seq(Int) /\ Len(w) = n
  <2>1. \A i \in 1..n : (n - i + 1) * s[i] \in Int
    BY <1>1
  <2>2. QED
    BY <1>1, <1>2, <2>1
<1>4. PICK S \in [0..n -> Int] : Sums(S, s, n) /\ SumOf(s) = S[n]
  BY <1>1, SumIs
<1>5. PICK W \in [0..n -> Int] : Sums(W, w, n) /\ SumOf(w) = W[n]
  BY <1>3, SumIs
<1> HIDE DEF n
<1>6. S \in [0..n -> Nat]
  <2> DEFINE R == {k \in 0..n : S[k] \in Nat}
  <2>1. 0 \in R
    BY <1>1, <1>4 DEF Sums
  <2>2. \A k \in 1..n : k - 1 \in R => k \in R
    BY <1>1, <1>4 DEF Sums, n
  <2> HIDE DEF R
  <2>3. \A k \in 0..n : k \in R
    BY <1>1, <2>1, <2>2, InductUpTo
  <2>4. QED
    BY <2>3 DEF R
<1>7. PICK T \in [0..n -> Nat] : Sums(T, S, n)
  <2> DEFINE step == [p \in (1..n) \X Nat |-> p[2] + S[p[1]]]
  <2>1. step \in [(1..n) \X Nat -> Nat] /\ \A k \in 1..n, x \in Nat : step[<<k, x>>] = x + S[k]
    <3>1. \A k \in 1..n, x \in Nat : x + S[k] \in Nat
      BY <1>6
    <3>2. QED
      BY <3>1
  <2> HIDE DEF step
  <2>2. PICK f \in [0..n -> Nat] : Follows(f, n, 0, step)
    BY <1>1, <2>1, Recursion
  <2>3. \A k \in 1..n : k - 1 \in 0..n
    BY <1>1
  <2>4. \A k \in 1..n : f[k - 1] \in Nat
    BY <2>3
  <2>5. f[0] = 0 /\ \A k \in 1..n : f[k] = f[k - 1] + S[k]
    BY <2>1, <2>2, <2>4 DEF Follows
  <2>6. QED
    BY <2>5 DEF Sums
<1> DEFINE R == {k \in 0..n : W[k] = T[k] + (n - k) * S[k]}
<1>8. 0 \in R
  <2>1. W[0] = 0 /\ T[0] = 0 /\ S[0] = 0
    BY <1>4, <1>5, <1>7 DEF Sums
  <2>2. QED
    BY <1>1, <2>1
<1>9. ASSUME NEW k \in 1..n, k - 1 \in R
      PROVE  k \in R
  <2>1. PICK d \in Int, x, y, z \in Int :
           d = n - k /\ x = S[k - 1] /\ y = s[k] /\ z = T[k - 1]
    <3>1. k - 1 \in 0..n
      BY <1>1
    <3>2. n - k \in Int /\ S[k - 1] \in Int /\ T[k - 1] \in Int
      <4>1. n - k \in Int
        BY <1>1
      <4>2. S[k - 1] \in Nat
        BY <1>6, <3>1
      <4>3. T[k - 1] \in Nat
        BY <1>7, <3>1
      <4>4. QED
        BY <4>1, <4>2, <4>3
    <3>3. s[k] \in Int
      BY <1>1
    <3>4. QED
      BY <3>2, <3>3
  <2>2. S[k] = x + y /\ T[k] = z + (x + y)
    BY <1>4, <1>7, <2>1 DEF Sums, n
  <2>3. W[k - 1] = z + (d + 1) * x
    BY <1>1, <1>9, <2>1
  <2>4. W[k] = W[k - 1] + (d + 1) * y
    <3>1. W[k] = W[k - 1] + w[k]
      BY <1>3, <1>5 DEF Sums, n
    <3>2. w[k] = (n - k + 1) * s[k]
      BY <1>2
    <3>3. QED
      BY <2>1, <3>1, <3>2
  <2>5. (d + 1) * x = d * x + x /\ (d + 1) * y = d * y + y /\ d * (x + y) = d * x + d * y
    OBVIOUS
  <2>6. d * x \in Int /\ d * y \in Int
    OBVIOUS
  <2>7. W[k] = (z + (x + y)) + d * (x + y)
    BY <2>3, <2>4, <2>5, <2>6
  <2>8. QED
    BY <2>1, <2>2, <2>7
<1> HIDE DEF R
<1>10. \A k \in 0..n : k \in R
  BY <1>1, <1>8, <1>9, InductUpTo
<1>11. W[n] = T[n]
  <2>1. n - n = 0 /\ 0 * S[n] = 0 /\ T[n] \in Int
    BY <1>1, <1>6, <1>7
  <2>2. QED
    BY <1>1, <1>10, <2>1 DEF R
<1>12. Halves(adler32(s), S[n], n, T[n])
  BY <1>1, <1>4, <1>6, <1>7, AdlerIs DEF n
<1>13. QED
  BY <1>4, <1>5, <1>11, <1>12 DEF Halves, Reduced, IsAdler32, w, n

-----------------------------------------------------------------------------
(* Bits *)

Bits == {0, 1}
Add(x, y) == (x + y) % 2

LEMMA Adding ==
    /\ \A x, y \in Bits : Add(x, y) \in Bits /\ Add(x, y) = Add(y, x)
    /\ \A x \in Bits : Add(x, 0) = x /\ Add(0, x) = x /\ Add(x, 1) = 1 - x
    /\ \A x, y, z \in Bits : Add(Add(x, y), z) = Add(x, Add(y, z))
BY DEF Bits, Add

Powers ==
    /\ 2 ^ 0 = 1 /\ 2 ^ 1 = 2 /\ 2 ^ 2 = 4 /\ 2 ^ 3 = 8 /\ 2 ^ 4 = 16 /\ 2 ^ 5 = 32
    /\ 2 ^ 6 = 64 /\ 2 ^ 7 = 128 /\ 2 ^ 8 = 256
LEMMA PowersAre == Powers
BY DEF Powers

LEMMA ByteBitsAre ==
    ASSUME NEW b \in Nat
    PROVE  ByteBits(b) \in Seq(Bits) /\ Len(ByteBits(b)) = 8
<1>1. ASSUME NEW i \in 1..8 PROVE (b \div 2 ^ (i - 1)) % 2 \in Bits
  <2>1. PICK d \in Nat \ {0} : d = 2 ^ (i - 1)
    <3>1. CASE i = 1
      BY <3>1, PowersAre DEF Powers
    <3>2. CASE i = 2
      BY <3>2, PowersAre DEF Powers
    <3>3. CASE i = 3
      BY <3>3, PowersAre DEF Powers
    <3>4. CASE i = 4
      BY <3>4, PowersAre DEF Powers
    <3>5. CASE i = 5
      BY <3>5, PowersAre DEF Powers
    <3>6. CASE i = 6
      BY <3>6, PowersAre DEF Powers
    <3>7. CASE i = 7
      BY <3>7, PowersAre DEF Powers
    <3>8. CASE i = 8
      BY <3>8, PowersAre DEF Powers
    <3>9. QED
      BY <3>1, <3>2, <3>3, <3>4, <3>5, <3>6, <3>7, <3>8
  <2>2. PICK q \in Nat : q = b \div d
    OBVIOUS
  <2>3. q % 2 \in Bits
    BY DEF Bits
  <2>4. QED
    BY <2>1, <2>2, <2>3
<1>2. QED
  BY <1>1 DEF ByteBits

\* bit x of a byte, each power of two by name
BitAt(b, x) ==
    (CASE x = 1 -> b \div 1 [] x = 2 -> b \div 2 [] x = 3 -> b \div 4 [] x = 4 -> b \div 8
       [] x = 5 -> b \div 16 [] x = 6 -> b \div 32 [] x = 7 -> b \div 64 [] x = 8 -> b \div 128) % 2

LEMMA ReversedIs ==
    /\ Reversed \in Seq(Bits) /\ Len(Reversed) = 32
    /\ \A i \in 1..32 : Reversed[i] = Generator[i + 1]
<1> DEFINE bs == <<32, 131, 184, 237>>
           seqs == [i \in 1..4 |-> ByteBits(bs[i])]
<1>1. \A i \in 1..4 : bs[i] \in Nat
  OBVIOUS
<1>2. seqs \in Seq(Seq(Bits)) /\ 4 = Len(seqs) /\ \A i \in 1..4 : Len(seqs[i]) = 8
  BY <1>1, ByteBitsAre
<1>3. Even(Reversed, seqs, 4, 8, Bits)
  <2>1. Even(FlattenSeq(seqs), seqs, 4, 8, Bits)
    <3>1. 4 \in Nat /\ 8 \in Nat \ {0}
      OBVIOUS
    <3> HIDE DEF seqs
    <3>2. QED
      BY <1>2, <3>1, FlattenedEven, Zenon
  <2>2. QED
    BY <2>1 DEF Reversed
<1>4. Reversed \in Seq(Bits) /\ Len(Reversed) = 32
  BY <1>3 DEF Even
<1>5. ASSUME NEW i \in 1..32 PROVE Reversed[i] = Generator[i + 1]
  <2>1. PICK k \in 1..4, j \in 1..8 : i = 8 * (k - 1) + j
    OBVIOUS
  <2>2. Reversed[i] = seqs[k][j]
    BY <1>3, <2>1 DEF Even
  <2>3. seqs[k][j] = (bs[k] \div 2 ^ (j - 1)) % 2
    BY DEF ByteBits
  <2>4. ASSUME NEW b \in Nat, NEW x \in 1..8
        PROVE  (b \div 2 ^ (x - 1)) % 2 = BitAt(b, x)
    <3>1. CASE x = 1
      BY <3>1, PowersAre DEF Powers, BitAt
    <3>2. CASE x = 2
      BY <3>2, PowersAre DEF Powers, BitAt
    <3>3. CASE x = 3
      BY <3>3, PowersAre DEF Powers, BitAt
    <3>4. CASE x = 4
      BY <3>4, PowersAre DEF Powers, BitAt
    <3>5. CASE x = 5
      BY <3>5, PowersAre DEF Powers, BitAt
    <3>6. CASE x = 6
      BY <3>6, PowersAre DEF Powers, BitAt
    <3>7. CASE x = 7
      BY <3>7, PowersAre DEF Powers, BitAt
    <3>8. CASE x = 8
      BY <3>8, PowersAre DEF Powers, BitAt
    <3>9. QED
      BY <3>1, <3>2, <3>3, <3>4, <3>5, <3>6, <3>7, <3>8
  <2>5. BitAt(bs[k], j) = Generator[i + 1]
    <3>1. CASE k = 1
      BY <2>1, <3>1 DEF Generator, BitAt
    <3>2. CASE k = 2
      BY <2>1, <3>2 DEF Generator, BitAt
    <3>3. CASE k = 3
      BY <2>1, <3>3 DEF Generator, BitAt
    <3>4. CASE k = 4
      BY <2>1, <3>4 DEF Generator, BitAt
    <3>5. QED
      BY <3>1, <3>2, <3>3, <3>4
  <2>6. seqs[k][j] = BitAt(bs[k], j)
    <3>1. bs[k] \in Nat
      BY <1>1
    <3> HIDE DEF bs, seqs
    <3>2. QED
      BY <2>3, <2>4, <3>1
  <2> HIDE DEF bs, seqs
  <2>7. QED
    BY <2>2, <2>5, <2>6
<1>6. QED
  BY <1>4, <1>5

-----------------------------------------------------------------------------
(* crc32: both divide, bit by bit; the standard has the next bit of the message come in at each
   round, the code has had the bits of a byte xored in before its eight rounds *)

Word(w) == w \in [1..32 -> Bits]
Same(w, v) == \A i \in 1..32 : w[i] = v[i]

LEMMA SameWord ==
    ASSUME NEW w, NEW v, Word(w), Word(v), Same(w, v)
    PROVE  w = v
BY DEF Word, Same

LEMMA SeqOfLen ==
    ASSUME NEW S, NEW n \in Nat
    PROVE  \A w : w \in [1..n -> S] <=> w \in Seq(S) /\ Len(w) = n
OBVIOUS

LEMMA AddIn == \A x, y \in Bits : Add(x, y) \in Bits
BY DEF Bits, Add
LEMMA AddNothing == \A x \in Bits : Add(x, 0) = x
BY DEF Bits, Add
LEMMA AddInto == \A x \in Bits : Add(0, x) = x
BY DEF Bits, Add
LEMMA AddOthers == \A x, y, z \in Bits : Add(Add(x, y), z) = Add(Add(x, z), y)
BY DEF Bits, Add

Succ(n, m) == n \in Nat /\ m \in Nat /\ m = n + 1

Items(w, n, S) == w \in [1..n -> S]
Behind(v, w, n, m, bit, S) == v \in [1..m -> S] /\ v[m] = bit /\ \A i \in 1..n : v[i] = w[i]
Before(v, w, n, S) == v \in [1..n -> S] /\ \A i \in 1..n : v[i] = w[i + 1]

\* one item more behind
LEMMA Longer ==
    ASSUME NEW S, NEW n, NEW m, Succ(n, m), NEW w, Items(w, n, S), NEW bit \in S
    PROVE  Behind(Append(w, bit), w, n, m, bit, S)
<1>0. n \in Nat /\ m \in Nat /\ m = n + 1
  BY DEF Succ
<1>1. w \in Seq(S) /\ Len(w) = n
  BY <1>0, SeqOfLen DEF Items
<1>2. Append(w, bit) \in Seq(S) /\ Len(Append(w, bit)) = m
  BY <1>0, <1>1
<1>3. \A i \in 1..n : Append(w, bit)[i] = w[i]
  BY <1>0, <1>1
<1>4. Append(w, bit)[m] = bit
  BY <1>0, <1>1
<1>5. QED
  BY <1>0, <1>2, <1>3, <1>4, SeqOfLen DEF Behind

\* one item less in front
LEMMA Shorter ==
    ASSUME NEW S, NEW n, NEW m, Succ(n, m), NEW w, Items(w, m, S)
    PROVE  Before(Tail(w), w, n, S)
<1>0. n \in Nat /\ m \in Nat /\ m = n + 1
  BY DEF Succ
<1>1. w \in Seq(S) /\ Len(w) = m
  BY <1>0, SeqOfLen DEF Items
<1>2. Tail(w) \in Seq(S) /\ Len(Tail(w)) = n
  BY <1>0, <1>1
<1>3. \A i \in 1..n : Tail(w)[i] = w[i + 1]
  BY <1>0, <1>1
<1>4. QED
  BY <1>0, <1>2, <1>3, SeqOfLen DEF Before

LEMMA Lengths == Succ(31, 32) /\ Succ(32, 33) /\ 32 \in Nat /\ 33 \in Nat
BY DEF Succ

\* what a round xors in at place i
Out(w, i) == IF w[1] = 1 THEN Generator[i + 1] ELSE 0
\* a round: bit comes in behind
Round(r, w, bit) ==
    /\ \A i \in 1..31 : r[i] = Add(w[i + 1], Out(w, i))
    /\ r[32] = Add(bit, Out(w, 32))

LEMMA GeneratorIs == Generator \in [1..33 -> Bits] /\ Generator[1] = 1
BY DEF Generator, Bits

LEMMA OutIs == \A w : \A i \in 1..32 : Out(w, i) \in Bits
<1>1. 0 \in Bits
  BY DEF Bits
<1>2. \A i \in 1..32 : i + 1 \in 1..33
  OBVIOUS
<1>3. QED
  BY <1>1, <1>2, GeneratorIs DEF Out

LEMMA Xored ==
    ASSUME NEW n \in Nat, NEW v \in [1..n -> Bits], NEW g \in [1..n -> Bits]
    PROVE  Xor(v, g) \in [1..n -> Bits] /\ \A i \in 1..n : Xor(v, g)[i] = Add(v[i], g[i])
<1>1. Xor(v, g) = [i \in 1..n |-> Add(v[i], g[i])]
  BY DEF Xor, Add
<1>2. \A i \in 1..n : Add(v[i], g[i]) \in Bits
  BY AddIn
<1>3. QED
  BY <1>1, <1>2

LEMMA DividedIs ==
    ASSUME NEW w, Word(w), NEW bit \in Bits
    PROVE  Word(Divided(w, bit)) /\ Round(Divided(w, bit), w, bit)
<1> DEFINE v == Append(w, bit)
           x == Xor(v, Generator)
<1>1. /\ v \in [1..33 -> Bits] /\ \A i \in 1..32 : v[i] = w[i]
      /\ v[33] = bit
  <2>1. Items(w, 32, Bits)
    BY DEF Word, Items
  <2>2. Behind(v, w, 32, 33, bit, Bits)
    BY <2>1, Lengths, Longer, Zenon
  <2>3. QED
    BY <2>2 DEF Behind
<1> HIDE DEF v
<1>2. x \in [1..33 -> Bits] /\ \A i \in 1..33 : x[i] = Add(v[i], Generator[i])
  BY <1>1, GeneratorIs, Lengths, Xored, Zenon
<1> HIDE DEF x
<1>3. Divided(w, bit) = IF v[1] = 1 THEN Tail(x) ELSE Tail(v)
  BY DEF Divided, v, x
<1>4. /\ Word(Tail(x)) /\ Word(Tail(v))
      /\ \A i \in 1..32 : Tail(x)[i] = x[i + 1] /\ Tail(v)[i] = v[i + 1]
  <2>1. Before(Tail(x), x, 32, Bits)
    <3>1. Items(x, 33, Bits)
      BY <1>2 DEF Items
    <3>2. QED
      BY <3>1, Lengths, Shorter, Zenon
  <2>2. Before(Tail(v), v, 32, Bits)
    <3>1. Items(v, 33, Bits)
      BY <1>1 DEF Items
    <3>2. QED
      BY <3>1, Lengths, Shorter, Zenon
  <2>3. QED
    BY <2>1, <2>2 DEF Word, Before
<1>5. w[1] = v[1] /\ \A i \in 1..31 : v[i + 1] = w[i + 1]
  <2>1. 1 \in 1..32 /\ \A i \in 1..31 : i + 1 \in 1..32
    OBVIOUS
  <2>2. QED
    BY <1>1, <2>1
<1>6. \A i \in 1..32 : Divided(w, bit)[i] = Add(v[i + 1], Out(w, i))
  <2>1. \A i \in 1..32 : i + 1 \in 1..33
    OBVIOUS
  <2>2. CASE w[1] = 1
    BY <1>2, <1>3, <1>4, <1>5, <2>1, <2>2 DEF Out
  <2>3. CASE w[1] # 1
    <3>1. \A i \in 1..32 : v[i + 1] = Add(v[i + 1], 0)
      BY <1>1, <2>1, AddNothing
    <3>2. QED
      BY <1>3, <1>4, <1>5, <2>3, <3>1 DEF Out
  <2>4. QED
    BY <2>2, <2>3
<1>7. 32 \in 1..32 /\ 32 + 1 = 33 /\ \A i \in 1..31 : i \in 1..32
  OBVIOUS
<1>8. Round(Divided(w, bit), w, bit)
  <2>1. Divided(w, bit)[32] = Add(bit, Out(w, 32))
    BY <1>1, <1>6, <1>7
  <2>2. QED
    BY <1>5, <1>6, <1>7, <2>1 DEF Round
<1>9. QED
  BY <1>3, <1>4, <1>8

LEMMA CrcRoundIs ==
    ASSUME NEW c, Word(c)
    PROVE  Word(CrcRound(c)) /\ Round(CrcRound(c), c, 0)
<1> DEFINE t == Tail(c)
           v == Append(t, 0)
           x == Xor(v, Reversed)
<1>0. 0 \in Bits
  BY DEF Bits
<1>1. t \in [1..31 -> Bits] /\ \A i \in 1..31 : t[i] = c[i + 1]
  <2>1. Items(c, 32, Bits)
    BY DEF Word, Items
  <2>2. Before(t, c, 31, Bits)
    BY <2>1, Lengths, Shorter, Zenon
  <2>3. QED
    BY <2>2 DEF Before
<1> HIDE DEF t
<1>2. v \in [1..32 -> Bits] /\ v[32] = 0 /\ \A i \in 1..31 : v[i] = t[i]
  <2>1. Items(t, 31, Bits)
    BY <1>1 DEF Items
  <2>2. Behind(v, t, 31, 32, 0, Bits)
    BY <1>0, <2>1, Lengths, Longer, Zenon
  <2>3. QED
    BY <2>2 DEF Behind
<1> HIDE DEF v
<1>3. Reversed \in [1..32 -> Bits] /\ \A i \in 1..32 : Reversed[i] = Generator[i + 1]
  <2>1. 32 \in Nat /\ Reversed \in Seq(Bits) /\ Len(Reversed) = 32
    BY ReversedIs
  <2>2. Reversed \in [1..32 -> Bits]
    BY <2>1, SeqOfLen, Zenon
  <2>3. QED
    BY <2>2, ReversedIs
<1>4. x \in [1..32 -> Bits] /\ \A i \in 1..32 : x[i] = Add(v[i], Reversed[i])
  BY <1>2, <1>3, Lengths, Xored, Zenon
<1> HIDE DEF x
<1>5. CrcRound(c) = IF c[1] = 1 THEN x ELSE v
  BY DEF CrcRound, v, x, t
<1>6. Word(x) /\ Word(v)
  BY <1>2, <1>4 DEF Word
<1>7. \A i \in 1..32 : CrcRound(c)[i] = Add(v[i], Out(c, i))
  <2>1. CASE c[1] = 1
    BY <1>3, <1>4, <1>5, <2>1 DEF Out
  <2>2. CASE c[1] # 1
    <3>1. \A i \in 1..32 : v[i] = Add(v[i], 0)
      BY <1>2, AddNothing
    <3>2. QED
      BY <1>5, <2>2, <3>1 DEF Out
  <2>3. QED
    BY <2>1, <2>2
<1>8. 32 \in 1..32 /\ \A i \in 1..31 : i \in 1..32
  OBVIOUS
<1>9. Round(CrcRound(c), c, 0)
  BY <1>1, <1>2, <1>7, <1>8 DEF Round
<1>10. QED
  BY <1>5, <1>6, <1>9

\* Word w is word c with the pending bits e xored in.
Pending(w, c, e) == \A i \in 1..32 : e[i] \in Bits /\ w[i] = Add(c[i], e[i])

LEMMA RoundTogether ==
    ASSUME NEW w, Word(w), NEW c, Word(c), NEW e, Pending(w, c, e), e[1] = 0,
           NEW bit \in Bits, NEW v, Round(v, w, bit), NEW d, Round(d, c, 0),
           NEW f, f[32] = bit, \A i \in 1..31 : f[i] = e[i + 1]
    PROVE  Pending(v, d, f)
<1>1. \A i \in 1..32 : w[i] \in Bits /\ c[i] \in Bits /\ e[i] \in Bits /\ w[i] = Add(c[i], e[i])
  BY DEF Pending, Word
<1>2. w[1] = c[1]
  <2>1. 1 \in 1..32
    OBVIOUS
  <2>2. w[1] = Add(c[1], 0) /\ c[1] \in Bits
    BY <1>1, <2>1
  <2>3. QED
    BY <2>2, AddNothing
<1>3. \A i \in 1..32 : Out(w, i) = Out(c, i)
  BY <1>2 DEF Out
<1>4. ASSUME NEW i \in 1..31 PROVE f[i] \in Bits /\ v[i] = Add(d[i], f[i])
  <2>1. i + 1 \in 1..32 /\ i \in 1..32
    OBVIOUS
  <2>2. v[i] = Add(Add(c[i + 1], e[i + 1]), Out(c, i)) /\ d[i] = Add(c[i + 1], Out(c, i))
    BY <1>1, <1>3, <2>1 DEF Round
  <2>3. c[i + 1] \in Bits /\ e[i + 1] \in Bits /\ Out(c, i) \in Bits
    BY <1>1, <2>1, OutIs
  <2>4. Add(Add(c[i + 1], e[i + 1]), Out(c, i)) = Add(Add(c[i + 1], Out(c, i)), e[i + 1])
    BY <2>3, AddOthers
  <2>5. QED
    BY <2>2, <2>3, <2>4
<1>5. f[32] \in Bits /\ v[32] = Add(d[32], f[32])
  <2>1. 32 \in 1..32
    OBVIOUS
  <2>2. v[32] = Add(bit, Out(c, 32)) /\ d[32] = Add(0, Out(c, 32)) /\ Out(c, 32) \in Bits
    BY <1>3, <2>1, OutIs DEF Round
  <2>3. Add(bit, Out(c, 32)) = Add(Out(c, 32), bit) /\ Add(0, Out(c, 32)) = Out(c, 32)
    BY <2>2, Adding
  <2>4. QED
    BY <2>2, <2>3
<1>6. \A i \in 1..32 : i = 32 \/ i \in 1..31
  OBVIOUS
<1>7. QED
  BY <1>4, <1>5, <1>6 DEF Pending

Words == [1..32 -> Bits]
Rounds(d, n, bits) == \A j \in 1..n : Round(d[j], d[j - 1], bits[j])

\* the word c with the bits of a byte xored in
Loaded(d, c, b) ==
    \A i \in 1..32 : d[i] = Add(c[i], IF i <= 8 THEN ByteBits(b)[i] ELSE 0)

\* y is x, of k items, and then z, of l
Joins(y, x, k, z, l, S) ==
    /\ y \in Seq(S) /\ Len(y) = k + l
    /\ \A i \in 1..k : y[i] = x[i]
    /\ \A i \in 1..l : y[k + i] = z[i]
LEMMA Joined ==
    ASSUME NEW S, NEW x \in Seq(S), NEW z \in Seq(S),
           NEW k \in Nat, Len(x) = k, NEW l \in Nat, Len(z) = l
    PROVE  Joins(x \o z, x, k, z, l, S)
BY DEF Joins

LEMMA CrcByteIs ==
    ASSUME NEW c, Word(c), NEW b \in Octets
    PROVE  \E d : /\ \A j \in 0..8 : Word(d[j])
                  /\ \A j \in 1..8 : Round(d[j], d[j - 1], 0)
                  /\ Loaded(d[0], c, b) /\ CrcByte(c, b) = d[8]
<1> DEFINE n == 8
           bits == ByteBits(b) \o [i \in 1..24 |-> 0]
           load == Xor(c, bits)
           next(k, x) == CrcRound(x)
           step == [p \in (1..n) \X Words |-> next(p[1], p[2])]
           Is(h) == h = [j \in 0..n |-> IF j = 0 THEN load ELSE CrcRound(h[j - 1])]
<1>1. CrcByte(c, b) = (CHOOSE g : Is(g))[n]
  BY DEF CrcByte
<1>2. load \in Words /\ Loaded(load, c, b)
  <2>1. b \in Nat
    BY DEF Octets
  <2>2. ByteBits(b) \in Seq(Bits) /\ Len(ByteBits(b)) = 8
    BY <2>1, ByteBitsAre
  <2>3. [i \in 1..24 |-> 0] \in Seq(Bits) /\ Len([i \in 1..24 |-> 0]) = 24
        /\ \A i \in 1..24 : [k \in 1..24 |-> 0][i] = 0
    BY DEF Bits
  <2>4. bits \in Seq(Bits) /\ Len(bits) = 32
        /\ \A i \in 1..32 : bits[i] = IF i <= 8 THEN ByteBits(b)[i] ELSE 0
    <3> DEFINE x == ByteBits(b)
               z == [i \in 1..24 |-> 0]
    <3>1. x \in Seq(Bits) /\ Len(x) = 8 /\ z \in Seq(Bits) /\ Len(z) = 24 /\ \A i \in 1..24 : z[i] = 0
      BY <2>2, <2>3
    <3> HIDE DEF x, z
    <3>2. 8 \in Nat /\ 24 \in Nat
      OBVIOUS
    <3>3. Joins(x \o z, x, 8, z, 24, Bits)
      BY <3>1, <3>2, Joined, Zenon
    <3>4. ASSUME NEW i \in 1..32, ~(i <= 8) PROVE (x \o z)[i] = 0
      <4>1. PICK k \in 1..24 : i = 8 + k
        <5>1. i - 8 \in 1..24 /\ i = 8 + (i - 8)
          BY <3>4
        <5>2. QED
          BY <5>1
      <4>2. QED
        BY <3>1, <3>3, <4>1 DEF Joins
    <3>5. \A i \in 1..32 : i <= 8 => (x \o z)[i] = x[i]
      <4>1. \A i \in 1..32 : i <= 8 => i \in 1..8
        OBVIOUS
      <4>2. QED
        BY <3>3, <4>1 DEF Joins
    <3>6. x \o z \in Seq(Bits) /\ Len(x \o z) = 32
      BY <3>3 DEF Joins
    <3>7. QED
      BY <3>4, <3>5, <3>6 DEF x, z
  <2> HIDE DEF bits
  <2>5. bits \in [1..32 -> Bits]
    <3>1. 32 \in Nat
      OBVIOUS
    <3>2. QED
      BY <2>4, <3>1, SeqOfLen, Zenon
  <2>6. load \in [1..32 -> Bits] /\ \A i \in 1..32 : load[i] = Add(c[i], bits[i])
    <3>1. c \in [1..32 -> Bits] /\ 32 \in Nat
      BY DEF Word
    <3>2. QED
      BY <2>5, <3>1, Xored, Zenon
  <2>7. QED
    BY <2>4, <2>6 DEF Loaded, Words
<1> HIDE DEF load
<1>3. n \in Nat /\ \A k \in 1..n, x \in Words : next(k, x) \in Words /\ Round(next(k, x), x, 0)
  BY CrcRoundIs DEF Word, Words
<1> HIDE DEF n
<1>4. ASSUME NEW h
      PROVE  Is(h) <=> (h = [k \in 0..n |-> h[k]] /\ h[0] = load /\ \A k \in 1..n : h[k] = next(k, h[k - 1]))
  <2>1. 0 \in 0..n /\ \A k \in 0..n : k = 0 \/ k \in 1..n
    BY <1>3
  <2>2. \A k \in 1..n : k \in 0..n /\ k # 0
    BY <1>3
  <2>3. QED
    BY <2>1, <2>2
<1> HIDE DEF Is
<1>5. step \in [(1..n) \X Words -> Words] /\ \A k \in 1..n, x \in Words : step[<<k, x>>] = next(k, x)
  BY <1>3
<1> HIDE DEF step
<1>6. PICK f \in [0..n -> Words] : Follows(f, n, load, step)
  BY <1>2, <1>3, <1>5, Recursion
<1> HIDE DEF next
<1>7. f = [k \in 0..n |-> f[k]] /\ f[0] = load /\ \A k \in 1..n : f[k] = next(k, f[k - 1])
  <2>1. \A k \in 1..n : k - 1 \in 0..n
    BY <1>3
  <2>2. \A k \in 1..n : f[k - 1] \in Words
    BY <2>1
  <2>3. QED
    BY <1>5, <1>6, <2>2 DEF Follows
<1>8. PICK h : h = (CHOOSE g : Is(g)) /\ Is(h)
  BY <1>4, <1>7
<1>9. Recurs(h, n, load, step, Words)
  BY <1>4, <1>5, <1>8 DEF Recurs
<1>10. h \in [0..n -> Words]
  BY <1>2, <1>3, <1>5, <1>9, RecursIs
<1>11. \A k \in 1..n : Round(h[k], h[k - 1], 0)
  <2>1. \A k \in 1..n : k - 1 \in 0..n
    BY <1>3
  <2>2. \A k \in 1..n : h[k - 1] \in Words /\ h[k] = next(k, h[k - 1])
    BY <1>4, <1>8, <1>10, <2>1
  <2>3. QED
    BY <1>3, <2>2
<1>12. \A j \in 0..n : Word(h[j])
  BY <1>10 DEF Words, Word
<1>13. Loaded(h[0], c, b) /\ CrcByte(c, b) = h[n]
  BY <1>1, <1>2, <1>4, <1>8
<1>14. QED
  BY <1>11, <1>12, <1>13 DEF n

\* Eight rounds of the standard and a byte of the code: what was pending was the bits m, and
\* eight on is what comes next.
LEMMA ByteTogether ==
    ASSUME NEW c, Word(c), NEW b \in Octets,
           NEW v, \A j \in 0..8 : Word(v[j]),
           NEW m, \A p \in 1..40 : m[p] \in Bits,
           \A j \in 1..8 : Round(v[j], v[j - 1], m[j + 32]),
           \A i \in 1..8 : m[i] = ByteBits(b)[i],
           Pending(v[0], c, m)
    PROVE  Word(CrcByte(c, b)) /\ Pending(v[8], CrcByte(c, b), [i \in 1..32 |-> m[i + 8]])
<1> DEFINE e(j) == [i \in 1..32 |-> IF j + i > 8 THEN m[j + i] ELSE 0]
<1>1. PICK d : /\ \A j \in 0..8 : Word(d[j])
               /\ \A j \in 1..8 : Round(d[j], d[j - 1], 0)
               /\ Loaded(d[0], c, b) /\ CrcByte(c, b) = d[8]
  BY CrcByteIs
<1>2. \A i \in 1..32 : c[i] \in Bits
  BY DEF Word
<1>3. 0 \in Bits
  BY DEF Bits
<1> DEFINE R == {j \in 0..8 : Pending(v[j], d[j], e(j))}
<1>4. 0 \in R
  <2>1. ASSUME NEW i \in 1..32
        PROVE  e(0)[i] \in Bits /\ v[0][i] = Add(d[0][i], e(0)[i])
    <3>1. e(0)[i] = IF i > 8 THEN m[i] ELSE 0
      OBVIOUS
    <3>2. m[i] \in Bits /\ v[0][i] = Add(c[i], m[i]) /\ c[i] \in Bits
      <4>1. i \in 1..40
        OBVIOUS
      <4>2. QED
        BY <1>2, <4>1 DEF Pending
    <3>3. d[0][i] = Add(c[i], IF i <= 8 THEN ByteBits(b)[i] ELSE 0)
      BY <1>1 DEF Loaded
    <3>4. CASE i <= 8
      <4>1. d[0][i] = Add(c[i], m[i]) /\ e(0)[i] = 0
        BY <3>1, <3>3, <3>4
      <4>2. Add(c[i], m[i]) \in Bits
        BY <3>2, AddIn
      <4>3. Add(d[0][i], 0) = d[0][i]
        BY <4>1, <4>2, AddNothing
      <4>4. QED
        BY <1>3, <3>2, <4>1, <4>3
    <3>5. CASE ~(i <= 8)
      <4>1. d[0][i] = c[i] /\ e(0)[i] = m[i]
        BY <3>1, <3>2, <3>3, <3>5, AddNothing
      <4>2. QED
        BY <3>2, <4>1
    <3>6. QED
      BY <3>4, <3>5
  <2> HIDE DEF e
  <2>2. QED
    BY <2>1 DEF Pending
<1>5. ASSUME NEW j \in 1..8, j - 1 \in R
      PROVE  j \in R
  <2>1. j - 1 \in 0..8 /\ j \in 0..8
    OBVIOUS
  <2>2. e(j - 1)[1] = 0
    OBVIOUS
  <2>3. e(j)[32] = m[j + 32]
    OBVIOUS
  <2>4. \A i \in 1..31 : e(j)[i] = e(j - 1)[i + 1]
    <3>1. ASSUME NEW i \in 1..31 PROVE e(j)[i] = e(j - 1)[i + 1]
      <4>1. (j - 1) + (i + 1) = j + i /\ i \in 1..32 /\ i + 1 \in 1..32
        OBVIOUS
      <4>2. QED
        BY <4>1
    <3>2. QED
      BY <3>1
  <2>5. m[j + 32] \in Bits
    OBVIOUS
  <2>6. Pending(v[j - 1], d[j - 1], e(j - 1))
    BY <1>5
  <2>7. Word(v[j - 1]) /\ Word(d[j - 1]) /\ Round(v[j], v[j - 1], m[j + 32]) /\ Round(d[j], d[j - 1], 0)
    BY <1>1, <2>1
  <2> HIDE DEF e
  <2>8. Pending(v[j], d[j], e(j))
    BY <2>2, <2>3, <2>4, <2>5, <2>6, <2>7, RoundTogether
  <2>9. QED
    BY <2>1, <2>8
<1>6. \A j \in 0..8 : j \in R
  <2>1. 8 \in Nat
    OBVIOUS
  <2> HIDE DEF R
  <2>2. QED
    BY <1>4, <1>5, <2>1, InductUpTo
<1>7. Pending(v[8], d[8], e(8))
  BY <1>6
<1>8. e(8) = [i \in 1..32 |-> m[i + 8]]
  <2>1. \A i \in 1..32 : 8 + i > 8 /\ 8 + i = i + 8
    OBVIOUS
  <2>2. QED
    BY <2>1
<1>9. QED
  BY <1>1, <1>7, <1>8

LEMMA RemainderIs ==
    ASSUME NEW n \in Nat, NEW bits \in Seq(Bits), Len(bits) = 32 + n
    PROVE  \E w \in [0..n -> Words] :
              /\ \A i \in 1..32 : w[0][i] = bits[i]
              /\ \A t \in 1..n : Round(w[t], w[t - 1], bits[32 + t])
              /\ Remainder(bits) = w[n]
<1> DEFINE first == SubSeq(bits, 1, 32)
           next(t, x) == Divided(x, bits[32 + t])
           step == [p \in (1..n) \X Words |-> next(p[1], p[2])]
           Is(h) == h = [t \in 0..n |-> IF t = 0 THEN first ELSE Divided(h[t - 1], bits[32 + t])]
<1>1. Remainder(bits) = (CHOOSE g : Is(g))[n]
  <2>1. Len(bits) - 32 = n
    OBVIOUS
  <2>2. Remainder(bits) = (LET after[t \in 0..(Len(bits) - 32)] ==
                                  IF t = 0 THEN SubSeq(bits, 1, 32)
                                  ELSE Divided(after[t - 1], bits[32 + t])
                           IN after[Len(bits) - 32])
    BY DEF Remainder
  <2>3. QED
    BY <2>1, <2>2
<1>2. first \in Words /\ \A i \in 1..32 : first[i] = bits[i]
  <2>1. 32 \in Nat
    OBVIOUS
  <2>2. FirstOf(first, bits, 32, Bits)
    BY <2>1, FirstItems, Zenon
  <2>3. QED
    BY <2>2 DEF Words, FirstOf
<1> HIDE DEF first
<1>3. \A t \in 1..n : bits[32 + t] \in Bits
  OBVIOUS
<1>4. \A t \in 1..n, x \in Words : next(t, x) \in Words /\ Round(next(t, x), x, bits[32 + t])
  BY <1>3, DividedIs DEF Word, Words
<1>5. ASSUME NEW h
      PROVE  Is(h) <=> (h = [t \in 0..n |-> h[t]] /\ h[0] = first /\ \A t \in 1..n : h[t] = next(t, h[t - 1]))
  <2>1. 0 \in 0..n /\ \A t \in 0..n : t = 0 \/ t \in 1..n
    OBVIOUS
  <2>2. \A t \in 1..n : t \in 0..n /\ t # 0
    OBVIOUS
  <2>3. QED
    BY <2>1, <2>2
<1> HIDE DEF Is
<1>6. step \in [(1..n) \X Words -> Words] /\ \A t \in 1..n, x \in Words : step[<<t, x>>] = next(t, x)
  BY <1>4
<1> HIDE DEF step
<1>7. PICK f \in [0..n -> Words] : Follows(f, n, first, step)
  BY <1>2, <1>6, Recursion
<1> HIDE DEF next
<1>8. \A t \in 1..n : t - 1 \in 0..n
  OBVIOUS
<1>9. f = [t \in 0..n |-> f[t]] /\ f[0] = first /\ \A t \in 1..n : f[t] = next(t, f[t - 1])
  <2>1. \A t \in 1..n : f[t - 1] \in Words
    BY <1>8
  <2>2. QED
    BY <1>6, <1>7, <2>1 DEF Follows
<1>10. PICK h : h = (CHOOSE g : Is(g)) /\ Is(h)
  BY <1>5, <1>9
<1>11. Recurs(h, n, first, step, Words)
  BY <1>5, <1>6, <1>10 DEF Recurs
<1>12. h \in [0..n -> Words]
  BY <1>2, <1>6, <1>11, RecursIs
<1>13. \A t \in 1..n : Round(h[t], h[t - 1], bits[32 + t])
  <2>1. \A t \in 1..n : h[t - 1] \in Words /\ h[t] = next(t, h[t - 1])
    BY <1>5, <1>8, <1>10, <1>12
  <2>2. QED
    BY <1>4, <2>1
<1>14. \A i \in 1..32 : h[0][i] = bits[i]
  BY <1>2, <1>5, <1>10
<1>15. QED
  BY <1>1, <1>10, <1>12, <1>13, <1>14

LEMMA CrcBytesIs ==
    ASSUME NEW s \in Seq(Octets), NEW n \in Nat, n = Len(s)
    PROVE  \E h \in [0..n -> Words] :
              h[0] = Ones /\ (\A k \in 1..n : h[k] = CrcByte(h[k - 1], s[k])) /\ CrcBytes(s) = h[n]
<1> DEFINE next(k, x) == CrcByte(x, s[k])
           step == [p \in (1..n) \X Words |-> next(p[1], p[2])]
           Is(h) == h = [k \in 0..n |-> IF k = 0 THEN Ones ELSE CrcByte(h[k - 1], s[k])]
<1>1. CrcBytes(s) = (CHOOSE g : Is(g))[n]
  BY DEF CrcBytes
<1>2. Ones \in Words
  BY DEF Ones, Words, Bits
<1>3. \A k \in 1..n, x \in Words : next(k, x) \in Words
  <2>1. \A k \in 1..n : s[k] \in Octets
    OBVIOUS
  <2>2. ASSUME NEW x \in Words, NEW b \in Octets PROVE CrcByte(x, b) \in Words
    <3>1. Word(x)
      BY DEF Word, Words
    <3>2. PICK d : (\A j \in 0..8 : Word(d[j])) /\ CrcByte(x, b) = d[8]
      BY <3>1, CrcByteIs
    <3>3. 8 \in 0..8
      OBVIOUS
    <3>4. QED
      BY <3>2, <3>3 DEF Word, Words
  <2>3. QED
    BY <2>1, <2>2
<1>5. ASSUME NEW h
      PROVE  Is(h) <=> (h = [t \in 0..n |-> h[t]] /\ h[0] = Ones /\ \A t \in 1..n : h[t] = next(t, h[t - 1]))
  <2>1. 0 \in 0..n /\ \A t \in 0..n : t = 0 \/ t \in 1..n
    OBVIOUS
  <2>2. \A t \in 1..n : t \in 0..n /\ t # 0
    OBVIOUS
  <2>3. QED
    BY <2>1, <2>2
<1> HIDE DEF Is
<1>6. step \in [(1..n) \X Words -> Words] /\ \A t \in 1..n, x \in Words : step[<<t, x>>] = next(t, x)
  BY <1>3
<1> HIDE DEF step
<1>7. PICK f \in [0..n -> Words] : Follows(f, n, Ones, step)
  BY <1>2, <1>6, Recursion
<1> HIDE DEF next
<1>8. \A t \in 1..n : t - 1 \in 0..n
  OBVIOUS
<1>9. f = [t \in 0..n |-> f[t]] /\ f[0] = Ones /\ \A t \in 1..n : f[t] = next(t, f[t - 1])
  <2>1. \A t \in 1..n : f[t - 1] \in Words
    BY <1>8
  <2>2. QED
    BY <1>6, <1>7, <2>1 DEF Follows
<1>10. PICK h : h = (CHOOSE g : Is(g)) /\ Is(h)
  BY <1>5, <1>9
<1>11. Recurs(h, n, Ones, step, Words)
  BY <1>5, <1>6, <1>10 DEF Recurs
<1>12. h \in [0..n -> Words]
  BY <1>2, <1>6, <1>11, RecursIs
<1>13. h[0] = Ones /\ \A k \in 1..n : h[k] = CrcByte(h[k - 1], s[k])
  BY <1>5, <1>10 DEF next
<1>14. QED
  BY <1>1, <1>10, <1>12, <1>13

-----------------------------------------------------------------------------
\* the polynomial of a text: the bits of its bytes, and 32 zeros
Polynomial(M, s, n) ==
    /\ M \in Seq(Bits) /\ Len(M) = 8 * n + 32
    /\ \A k \in 1..n : \A j \in 1..8 : M[8 * (k - 1) + j] = ByteBits(s[k])[j]
    /\ \A i \in 1..32 : M[8 * n + i] = 0

LEMMA PolynomialIs ==
    ASSUME NEW s \in Seq(Octets), NEW n \in Nat, n = Len(s)
    PROVE  Polynomial(FlattenSeq([k \in DOMAIN s |-> ByteBits(s[k])]) \o [i \in 1..32 |-> 0], s, n)
<1> DEFINE seqs == [k \in 1..n |-> ByteBits(s[k])]
           z == [i \in 1..32 |-> 0]
<1>1. \A k \in 1..n : ByteBits(s[k]) \in Seq(Bits) /\ Len(ByteBits(s[k])) = 8
  <2>1. \A k \in 1..n : s[k] \in Nat
    BY OctetsAre
  <2>2. QED
    BY <2>1, ByteBitsAre
<1>2. seqs \in Seq(Seq(Bits)) /\ Len(seqs) = n /\ \A k \in 1..n : seqs[k] = ByteBits(s[k])
  BY <1>1
<1>3. seqs = [k \in DOMAIN s |-> ByteBits(s[k])]
  BY OctetsAre
<1> HIDE DEF seqs
<1>4. \A k \in 1..n : Len(seqs[k]) = 8
  BY <1>1, <1>2
<1>5. PICK x : x = FlattenSeq(seqs) /\ Even(x, seqs, n, 8, Bits)
  <2>1. 8 \in Nat \ {0}
    OBVIOUS
  <2>2. Even(FlattenSeq(seqs), seqs, n, 8, Bits)
    BY <1>2, <1>4, <2>1, FlattenedEven, Zenon
  <2>3. QED
    BY <2>2
<1>6. z \in Seq(Bits) /\ Len(z) = 32 /\ \A i \in 1..32 : z[i] = 0
  BY DEF Bits
<1> HIDE DEF z
<1>7. PICK l \in Nat : l = 8 * n
  OBVIOUS
<1>8. x \in Seq(Bits) /\ Len(x) = l
  BY <1>5, <1>7 DEF Even
<1>9. Joins(x \o z, x, l, z, 32, Bits)
  <2>1. 32 \in Nat
    OBVIOUS
  <2>2. QED
    BY <1>6, <1>7, <1>8, <2>1, Joined, Zenon
<1>10. PICK M : M = x \o z
  OBVIOUS
<1>11. Joins(M, x, l, z, 32, Bits)
  BY <1>9, <1>10
<1>12. ASSUME NEW k \in 1..n, NEW j \in 1..8
       PROVE  M[8 * (k - 1) + j] = ByteBits(s[k])[j]
  <2>1. x[8 * (k - 1) + j] = seqs[k][j]
    BY <1>5 DEF Even
  <2>2. 8 * (k - 1) + j \in 1..l
    BY <1>7
  <2>3. M[8 * (k - 1) + j] = x[8 * (k - 1) + j]
    BY <1>11, <2>2 DEF Joins
  <2>4. QED
    BY <1>2, <2>1, <2>3
<1>13. M \in Seq(Bits) /\ Len(M) = 8 * n + 32
  BY <1>7, <1>11 DEF Joins
<1>14. \A i \in 1..32 : M[8 * n + i] = 0
  <2>1. \A i \in 1..32 : M[l + i] = z[i]
    BY <1>11 DEF Joins
  <2>2. QED
    BY <1>6, <1>7, <2>1
<1>15. Polynomial(M, s, n)
  BY <1>12, <1>13, <1>14 DEF Polynomial
<1>16. QED
  BY <1>3, <1>5, <1>10, <1>15 DEF z

\* The remainder of a text's polynomial, its first 32 bits inverted, is what crc32 has
\* before it inverts its bits.
LEMMA DividedTogether ==
    ASSUME NEW s \in Seq(Octets), NEW n \in Nat, n = Len(s), NEW M, Polynomial(M, s, n),
           NEW first, first = [i \in DOMAIN M |-> IF i <= 32 THEN 1 - M[i] ELSE M[i]]
    PROVE  Remainder(first) = CrcBytes(s) /\ Word(CrcBytes(s))
<1>1. PICK l \in Nat : l = 8 * n
  OBVIOUS
<1>2. M \in Seq(Bits) /\ Len(M) = 32 + l /\ DOMAIN M = 1..(32 + l) /\ \A i \in 1..(32 + l) : M[i] \in Bits
  BY <1>1 DEF Polynomial
<1>3. /\ first \in Seq(Bits) /\ Len(first) = 32 + l
      /\ \A i \in 1..32 : first[i] = Add(1, M[i])
      /\ \A t \in 1..l : first[32 + t] = M[32 + t]
  <2>1. \A b \in Bits : 1 - b \in Bits /\ 1 - b = Add(1, b)
    BY DEF Bits, Add
  <2>2. \A i \in 1..(32 + l) : first[i] = IF i <= 32 THEN 1 - M[i] ELSE M[i]
    BY <1>2
  <2>3. first \in [1..(32 + l) -> Bits]
    BY <1>2, <2>1
  <2>4. 32 + l \in Nat
    OBVIOUS
  <2>5. first \in Seq(Bits) /\ Len(first) = 32 + l
    BY <2>3, <2>4, SeqOfLen
  <2>6. \A i \in 1..32 : i \in 1..(32 + l) /\ i <= 32
    OBVIOUS
  <2>7. \A t \in 1..l : 32 + t \in 1..(32 + l) /\ ~(32 + t <= 32)
    OBVIOUS
  <2>8. \A i \in 1..32 : first[i] = Add(1, M[i])
    BY <1>2, <2>1, <2>2, <2>6
  <2>9. \A t \in 1..l : first[32 + t] = M[32 + t]
    BY <2>2, <2>7
  <2>10. QED
    BY <2>5, <2>8, <2>9
<1>4. PICK w \in [0..l -> Words] :
         /\ \A i \in 1..32 : w[0][i] = first[i]
         /\ \A t \in 1..l : Round(w[t], w[t - 1], first[32 + t])
         /\ Remainder(first) = w[l]
  BY <1>3, RemainderIs
<1>5. PICK h \in [0..n -> Words] :
         h[0] = Ones /\ (\A k \in 1..n : h[k] = CrcByte(h[k - 1], s[k])) /\ CrcBytes(s) = h[n]
  BY CrcBytesIs
<1> DEFINE E(k) == [i \in 1..32 |-> M[8 * k + i]]
           R == {k \in 0..n : Pending(w[8 * k], h[k], E(k))}
<1>6. 0 \in R
  <2>1. ASSUME NEW i \in 1..32 PROVE E(0)[i] \in Bits /\ w[0][i] = Add(h[0][i], E(0)[i])
    <3>1. E(0)[i] = M[i] /\ h[0][i] = 1 /\ w[0][i] = Add(1, M[i])
      <4>1. 8 * 0 + i = i
        OBVIOUS
      <4>2. E(0)[i] = M[i]
        BY <4>1
      <4>3. h[0][i] = 1
        BY <1>5 DEF Ones
      <4>4. QED
        BY <1>3, <1>4, <4>2, <4>3
    <3>2. i \in 1..(32 + l)
      OBVIOUS
    <3>3. QED
      BY <1>2, <3>1, <3>2
  <2>2. 8 * 0 = 0 /\ 0 \in 0..n
    OBVIOUS
  <2> HIDE DEF E
  <2>3. QED
    BY <2>1, <2>2 DEF Pending
<1>7. ASSUME NEW k \in 1..n, k - 1 \in R
      PROVE  k \in R
  <2>1. PICK x \in Nat : x = 8 * (k - 1)
    OBVIOUS
  <2>2. x + 8 <= l /\ x + 8 = 8 * k
    BY <1>1, <2>1
  <2> DEFINE v == [j \in 0..8 |-> w[x + j]]
             m == [p \in 1..40 |-> M[x + p]]
  <2>3. \A j \in 0..8 : v[j] = w[x + j] /\ Word(v[j])
    <3>1. \A j \in 0..8 : x + j \in 0..l
      BY <2>2
    <3>2. QED
      BY <1>4, <3>1 DEF Word, Words
  <2>4. \A p \in 1..40 : m[p] = M[x + p] /\ m[p] \in Bits
    <3>1. \A p \in 1..40 : x + p \in 1..(32 + l)
      BY <2>2
    <3>2. QED
      BY <1>2, <3>1
  <2> HIDE DEF v, m
  <2>5. \A j \in 1..8 : Round(v[j], v[j - 1], m[j + 32])
    <3>1. ASSUME NEW j \in 1..8 PROVE Round(v[j], v[j - 1], m[j + 32])
      <4>1. x + j \in 1..l /\ (x + j) - 1 = x + (j - 1) /\ 32 + (x + j) = x + (j + 32)
            /\ j \in 0..8 /\ j - 1 \in 0..8 /\ j + 32 \in 1..40
        BY <2>2
      <4>2. Round(w[x + j], w[(x + j) - 1], first[32 + (x + j)])
        BY <1>4, <4>1
      <4>3. first[32 + (x + j)] = M[x + (j + 32)]
        BY <1>3, <4>1
      <4>4. QED
        BY <2>3, <2>4, <4>1, <4>2, <4>3
    <3>2. QED
      BY <3>1
  <2>6. \A i \in 1..8 : m[i] = ByteBits(s[k])[i]
    <3>1. \A i \in 1..8 : i \in 1..40
      OBVIOUS
    <3>2. QED
      BY <2>1, <2>4, <3>1 DEF Polynomial
  <2>7. k - 1 \in 0..n /\ k \in 0..n /\ s[k] \in Octets
    OBVIOUS
  <2>8. Pending(v[0], h[k - 1], m)
    <3>1. Pending(w[x], h[k - 1], E(k - 1))
      BY <1>7, <2>1
    <3>2. v[0] = w[x]
      <4>1. 0 \in 0..8 /\ x + 0 = x
        OBVIOUS
      <4>2. QED
        BY <2>3, <4>1
    <3>3. \A i \in 1..32 : E(k - 1)[i] = m[i]
      <4>1. \A i \in 1..32 : i \in 1..40
        OBVIOUS
      <4>2. QED
        BY <2>1, <2>4, <4>1
    <3> HIDE DEF E
    <3>4. QED
      BY <3>1, <3>2, <3>3 DEF Pending
  <2>9. Word(h[k - 1])
    BY <2>7 DEF Words, Word
  <2>10. Pending(v[8], CrcByte(h[k - 1], s[k]), [i \in 1..32 |-> m[i + 8]])
    BY <2>3, <2>4, <2>5, <2>6, <2>7, <2>8, <2>9, ByteTogether
  <2>11. [i \in 1..32 |-> m[i + 8]] = E(k)
    <3>1. ASSUME NEW i \in 1..32 PROVE m[i + 8] = M[8 * k + i]
      <4>1. i + 8 \in 1..40 /\ x + (i + 8) = 8 * k + i
        BY <2>2
      <4>2. QED
        BY <2>4, <4>1
    <3>2. QED
      BY <3>1
  <2>12. v[8] = w[8 * k] /\ CrcByte(h[k - 1], s[k]) = h[k]
    <3>1. 8 \in 0..8
      OBVIOUS
    <3>2. v[8] = w[x + 8]
      BY <2>3, <3>1
    <3>3. QED
      BY <1>5, <2>2, <3>2
  <2> HIDE DEF E
  <2>13. QED
    BY <2>7, <2>10, <2>11, <2>12
<1> HIDE DEF R
<1>8. \A k \in 0..n : k \in R
  BY <1>6, <1>7, InductUpTo
<1>9. Pending(w[l], h[n], E(n))
  <2>1. n \in 0..n
    OBVIOUS
  <2>2. QED
    BY <1>1, <1>8, <2>1 DEF R
<1>10. Word(h[n]) /\ Word(w[l])
  <2>1. n \in 0..n /\ l \in 0..l
    OBVIOUS
  <2>2. QED
    BY <2>1 DEF Word, Words
<1>11. \A i \in 1..32 : E(n)[i] = 0
  BY DEF Polynomial
<1> HIDE DEF E
<1>12. \A i \in 1..32 : w[l][i] = h[n][i]
  <2>1. \A i \in 1..32 : h[n][i] \in Bits /\ w[l][i] = Add(h[n][i], 0)
    BY <1>9, <1>10, <1>11 DEF Pending, Word
  <2>2. QED
    BY <2>1, AddNothing
<1>13. w[l] = h[n]
  BY <1>10, <1>12, SameWord DEF Same
<1>14. QED
  BY <1>4, <1>5, <1>10, <1>13

\* crc32 of a text is what ISO 3309 says of its polynomial.
THEOREM CrcStandard ==
    ASSUME NEW s \in Seq(Octets)
    PROVE  IsCrc32(crc32(s), s)
<1>1. PICK n \in Nat : n = Len(s)
  OBVIOUS
<1> DEFINE message == FlattenSeq([k \in DOMAIN s |-> ByteBits(s[k])]) \o [i \in 1..32 |-> 0]
           first == [i \in DOMAIN message |-> IF i <= 32 THEN 1 - message[i] ELSE message[i]]
<1>2. Polynomial(message, s, n)
  BY <1>1, PolynomialIs
<1>3. Remainder(first) = CrcBytes(s)
  <2> HIDE DEF message
  <2>1. QED
    BY <1>1, <1>2, DividedTogether
<1>4. IsCrc32(crc32(s), s) <=> crc32(s) = Xor(Remainder(first), Ones)
  BY DEF IsCrc32
<1> HIDE DEF first
<1>5. QED
  BY <1>3, <1>4 DEF crc32
-----------------------------------------------------------------------------
(* base64 as RFC 4648 says it *)

LEMMA AlphabetIs ==
    Len(Alphabet) = 64 /\ \A v \in 0..63 : v + 1 \in DOMAIN Alphabet /\ Alphabet[v + 1] = to64(v)
<1> DEFINE a == [i \in 1..26 |-> 64 + i]
           b == [i \in 1..26 |-> 96 + i]
           c == [i \in 1..10 |-> 47 + i]
           d == <<43, 47>>
<1>1. /\ a \in Seq(Int) /\ Len(a) = 26 /\ \A i \in 1..26 : a[i] = 64 + i
      /\ b \in Seq(Int) /\ Len(b) = 26 /\ \A i \in 1..26 : b[i] = 96 + i
      /\ c \in Seq(Int) /\ Len(c) = 10 /\ \A i \in 1..10 : c[i] = 47 + i
      /\ d \in Seq(Int) /\ Len(d) = 2 /\ d[1] = 43 /\ d[2] = 47
  OBVIOUS
<1>2. Alphabet = ((a \o b) \o c) \o d
  BY DEF Alphabet
<1> HIDE DEF a, b, c, d
<1>3. 26 \in Nat /\ 52 \in Nat /\ 62 \in Nat /\ 10 \in Nat /\ 2 \in Nat
  OBVIOUS
<1>4. PICK x : x = a \o b
  OBVIOUS
<1>5. Joins(x, a, 26, b, 26, Int)
  BY <1>1, <1>3, <1>4, Joined, Zenon
<1>6. x \in Seq(Int) /\ Len(x) = 52
  BY <1>5 DEF Joins
<1>7. PICK y : y = x \o c
  OBVIOUS
<1>8. Joins(y, x, 52, c, 10, Int)
  BY <1>1, <1>3, <1>6, <1>7, Joined, Zenon
<1>9. y \in Seq(Int) /\ Len(y) = 62
  BY <1>8 DEF Joins
<1>10. Joins(Alphabet, y, 62, d, 2, Int)
  <2>1. Alphabet = y \o d
    BY <1>2, <1>4, <1>7
  <2>2. Joins(y \o d, y, 62, d, 2, Int)
    <3>1. d \in Seq(Int) /\ Len(d) = 2
      BY <1>1
    <3>2. QED
      BY <1>3, <1>9, <3>1, Joined, Zenon
  <2>3. QED
    BY <2>1, <2>2
<1>11. Len(Alphabet) = 64 /\ DOMAIN Alphabet = 1..64
  BY <1>10 DEF Joins
<1>12. ASSUME NEW v \in 0..63
       PROVE  Alphabet[v + 1] = to64(v)
  <2>1. CASE v < 26
    <3>1. v + 1 \in 1..26 /\ v + 1 \in 1..52 /\ v + 1 \in 1..62
      BY <2>1
    <3>2. Alphabet[v + 1] = 64 + (v + 1)
      <4>1. Alphabet[v + 1] = y[v + 1]
        BY <1>10, <3>1 DEF Joins
      <4>2. y[v + 1] = x[v + 1]
        BY <1>8, <3>1 DEF Joins
      <4>3. x[v + 1] = a[v + 1]
        BY <1>5, <3>1 DEF Joins
      <4>4. QED
        BY <1>1, <3>1, <4>1, <4>2, <4>3
    <3>3. QED
      BY <2>1, <3>2 DEF to64
  <2>2. CASE 26 <= v /\ v < 52
    <3>1. PICK i \in 1..26 : v + 1 = 26 + i
      <4>1. v - 25 \in 1..26 /\ v + 1 = 26 + (v - 25)
        BY <2>2
      <4>2. QED
        BY <4>1
    <3>2. 26 + i \in 1..52 /\ 26 + i \in 1..62
      OBVIOUS
    <3>3. Alphabet[26 + i] = 96 + i
      <4>1. Alphabet[26 + i] = y[26 + i]
        BY <1>10, <3>2 DEF Joins
      <4>2. y[26 + i] = x[26 + i]
        BY <1>8, <3>2 DEF Joins
      <4>3. x[26 + i] = b[i]
        BY <1>5 DEF Joins
      <4>4. QED
        BY <1>1, <4>1, <4>2, <4>3
    <3>4. QED
      BY <2>2, <3>1, <3>3 DEF to64
  <2>3. CASE 52 <= v /\ v < 62
    <3>1. PICK i \in 1..10 : v + 1 = 52 + i
      <4>1. v - 51 \in 1..10 /\ v + 1 = 52 + (v - 51)
        BY <2>3
      <4>2. QED
        BY <4>1
    <3>2. 52 + i \in 1..62
      OBVIOUS
    <3>3. Alphabet[52 + i] = 47 + i
      <4>1. Alphabet[52 + i] = y[52 + i]
        BY <1>10, <3>2 DEF Joins
      <4>2. y[52 + i] = c[i]
        BY <1>8 DEF Joins
      <4>3. QED
        BY <1>1, <4>1, <4>2
    <3>4. QED
      BY <2>3, <3>1, <3>3 DEF to64
  <2>4. CASE v = 62
    <3>1. Alphabet[62 + 1] = d[1]
      BY <1>10 DEF Joins
    <3>2. QED
      BY <1>1, <2>4, <3>1 DEF to64
  <2>5. CASE v = 63
    <3>1. Alphabet[62 + 2] = d[2]
      BY <1>10 DEF Joins
    <3>2. QED
      BY <1>1, <2>5, <3>1 DEF to64
  <2>6. QED
    BY <2>1, <2>2, <2>3, <2>4, <2>5
<1>13. \A v \in 0..63 : v + 1 \in 1..64
  OBVIOUS
<1>14. QED
  BY <1>11, <1>12, <1>13

LEMMA PlaceIs == \A v \in 0..63 : PlaceOf(to64(v)) = v
<1> SUFFICES ASSUME NEW v \in 0..63 PROVE PlaceOf(to64(v)) = v
  OBVIOUS
<1>1. \A u \in 0..63 : Alphabet[u + 1] = to64(v) <=> u = v
  <2>1. \A u \in 0..63 : to64(u) = to64(v) => u = v
    BY SixBits
  <2>2. QED
    BY <2>1, AlphabetIs
<1>2. PlaceOf(to64(v)) = CHOOSE u \in 0..63 : Alphabet[u + 1] = to64(v)
  BY DEF PlaceOf
<1>3. QED
  BY <1>1, <1>2

-----------------------------------------------------------------------------
\* bit n of v, each power of two by name
BitOf(v, n) ==
    (CASE n = 0 -> v [] n = 1 -> v \div 2 [] n = 2 -> v \div 4 [] n = 3 -> v \div 8
       [] n = 4 -> v \div 16 [] n = 5 -> v \div 32 [] n = 6 -> v \div 64 [] n = 7 -> v \div 128) % 2

LEMMA BitIs == \A v \in Nat : \A n \in 0..7 : Bit(v, n) = BitOf(v, n) /\ Bit(v, n) \in Bits
<1> SUFFICES ASSUME NEW v \in Nat, NEW n \in 0..7
             PROVE  Bit(v, n) = BitOf(v, n) /\ Bit(v, n) \in Bits
  OBVIOUS
<1>1. BitOf(v, n) \in Bits
  BY DEF BitOf, Bits
<1>2. CASE n = 0
  BY <1>1, <1>2, PowersAre DEF Powers, Bit, BitOf
<1>3. CASE n = 1
  BY <1>1, <1>3, PowersAre DEF Powers, Bit, BitOf
<1>4. CASE n = 2
  BY <1>1, <1>4, PowersAre DEF Powers, Bit, BitOf
<1>5. CASE n = 3
  BY <1>1, <1>5, PowersAre DEF Powers, Bit, BitOf
<1>6. CASE n = 4
  BY <1>1, <1>6, PowersAre DEF Powers, Bit, BitOf
<1>7. CASE n = 5
  BY <1>1, <1>7, PowersAre DEF Powers, Bit, BitOf
<1>8. CASE n = 6
  BY <1>1, <1>8, PowersAre DEF Powers, Bit, BitOf
<1>9. CASE n = 7
  BY <1>1, <1>9, PowersAre DEF Powers, Bit, BitOf
<1>10. QED
  BY <1>2, <1>3, <1>4, <1>5, <1>6, <1>7, <1>8, <1>9

\* the bits of 3 bytes, in the 4 sextets made of them
LEMMA Sextet1 ==
    ASSUME NEW a \in Octets, NEW b \in Octets, NEW c \in Octets
    PROVE  /\ BitOf(a \div 4, 5) = BitOf(a, 7)
           /\ BitOf(a \div 4, 4) = BitOf(a, 6)
           /\ BitOf(a \div 4, 3) = BitOf(a, 5)
           /\ BitOf(a \div 4, 2) = BitOf(a, 4)
           /\ BitOf(a \div 4, 1) = BitOf(a, 3)
           /\ BitOf(a \div 4, 0) = BitOf(a, 2)
<1>1. BitOf(a \div 4, 5) = BitOf(a, 7)
  BY SMT DEF BitOf, Octets
<1>2. BitOf(a \div 4, 4) = BitOf(a, 6)
  BY SMT DEF BitOf, Octets
<1>3. BitOf(a \div 4, 3) = BitOf(a, 5)
  BY SMT DEF BitOf, Octets
<1>4. BitOf(a \div 4, 2) = BitOf(a, 4)
  BY SMT DEF BitOf, Octets
<1>5. BitOf(a \div 4, 1) = BitOf(a, 3)
  BY SMT DEF BitOf, Octets
<1>6. BitOf(a \div 4, 0) = BitOf(a, 2)
  BY SMT DEF BitOf, Octets
<1>7. QED
  BY <1>1, <1>2, <1>3, <1>4, <1>5, <1>6

LEMMA Sextet2 ==
    ASSUME NEW a \in Octets, NEW b \in Octets, NEW c \in Octets
    PROVE  /\ BitOf((a % 4) * 16 + (b \div 16), 5) = BitOf(a, 1)
           /\ BitOf((a % 4) * 16 + (b \div 16), 4) = BitOf(a, 0)
           /\ BitOf((a % 4) * 16 + (b \div 16), 3) = BitOf(b, 7)
           /\ BitOf((a % 4) * 16 + (b \div 16), 2) = BitOf(b, 6)
           /\ BitOf((a % 4) * 16 + (b \div 16), 1) = BitOf(b, 5)
           /\ BitOf((a % 4) * 16 + (b \div 16), 0) = BitOf(b, 4)
<1>1. BitOf((a % 4) * 16 + (b \div 16), 5) = BitOf(a, 1)
  BY SMT DEF BitOf, Octets
<1>2. BitOf((a % 4) * 16 + (b \div 16), 4) = BitOf(a, 0)
  BY SMT DEF BitOf, Octets
<1>3. BitOf((a % 4) * 16 + (b \div 16), 3) = BitOf(b, 7)
  BY SMT DEF BitOf, Octets
<1>4. BitOf((a % 4) * 16 + (b \div 16), 2) = BitOf(b, 6)
  BY SMT DEF BitOf, Octets
<1>5. BitOf((a % 4) * 16 + (b \div 16), 1) = BitOf(b, 5)
  BY SMT DEF BitOf, Octets
<1>6. BitOf((a % 4) * 16 + (b \div 16), 0) = BitOf(b, 4)
  BY SMT DEF BitOf, Octets
<1>7. QED
  BY <1>1, <1>2, <1>3, <1>4, <1>5, <1>6

LEMMA Sextet3 ==
    ASSUME NEW a \in Octets, NEW b \in Octets, NEW c \in Octets
    PROVE  /\ BitOf((b % 16) * 4 + (c \div 64), 5) = BitOf(b, 3)
           /\ BitOf((b % 16) * 4 + (c \div 64), 4) = BitOf(b, 2)
           /\ BitOf((b % 16) * 4 + (c \div 64), 3) = BitOf(b, 1)
           /\ BitOf((b % 16) * 4 + (c \div 64), 2) = BitOf(b, 0)
           /\ BitOf((b % 16) * 4 + (c \div 64), 1) = BitOf(c, 7)
           /\ BitOf((b % 16) * 4 + (c \div 64), 0) = BitOf(c, 6)
<1>1. BitOf((b % 16) * 4 + (c \div 64), 5) = BitOf(b, 3)
  BY SMT DEF BitOf, Octets
<1>2. BitOf((b % 16) * 4 + (c \div 64), 4) = BitOf(b, 2)
  BY SMT DEF BitOf, Octets
<1>3. BitOf((b % 16) * 4 + (c \div 64), 3) = BitOf(b, 1)
  BY SMT DEF BitOf, Octets
<1>4. BitOf((b % 16) * 4 + (c \div 64), 2) = BitOf(b, 0)
  BY SMT DEF BitOf, Octets
<1>5. BitOf((b % 16) * 4 + (c \div 64), 1) = BitOf(c, 7)
  BY SMT DEF BitOf, Octets
<1>6. BitOf((b % 16) * 4 + (c \div 64), 0) = BitOf(c, 6)
  BY SMT DEF BitOf, Octets
<1>7. QED
  BY <1>1, <1>2, <1>3, <1>4, <1>5, <1>6

LEMMA Sextet4 ==
    ASSUME NEW a \in Octets, NEW b \in Octets, NEW c \in Octets
    PROVE  /\ BitOf(c % 64, 5) = BitOf(c, 5)
           /\ BitOf(c % 64, 4) = BitOf(c, 4)
           /\ BitOf(c % 64, 3) = BitOf(c, 3)
           /\ BitOf(c % 64, 2) = BitOf(c, 2)
           /\ BitOf(c % 64, 1) = BitOf(c, 1)
           /\ BitOf(c % 64, 0) = BitOf(c, 0)
<1>1. BitOf(c % 64, 5) = BitOf(c, 5)
  BY SMT DEF BitOf, Octets
<1>2. BitOf(c % 64, 4) = BitOf(c, 4)
  BY SMT DEF BitOf, Octets
<1>3. BitOf(c % 64, 3) = BitOf(c, 3)
  BY SMT DEF BitOf, Octets
<1>4. BitOf(c % 64, 2) = BitOf(c, 2)
  BY SMT DEF BitOf, Octets
<1>5. BitOf(c % 64, 1) = BitOf(c, 1)
  BY SMT DEF BitOf, Octets
<1>6. BitOf(c % 64, 0) = BitOf(c, 0)
  BY SMT DEF BitOf, Octets
<1>7. QED
  BY <1>1, <1>2, <1>3, <1>4, <1>5, <1>6

\* bit j of sextet t is bit y of byte z
Aligned(t, j, z, y) == 6 * (t - 1) + j = 8 * (z - 1) + y

SameBits(x, t, j, o, z, y) == BitOf(x[t], 6 - j) = BitOf(o[z], 8 - y)

\* bit e of 3 bytes is bit e of the 4 sextets made of them
LEMMA SextetBits ==
    ASSUME NEW a \in Octets, NEW b \in Octets, NEW c \in Octets,
           NEW t \in 1..4, NEW j \in 1..6, NEW z \in 1..3, NEW y \in 1..8,
           Aligned(t, j, z, y)
    PROVE  SameBits(Sextets(a, b, c), t, j, <<a, b, c>>, z, y)
<1> DEFINE x == Sextets(a, b, c)
           o == <<a, b, c>>
<1>2. /\ x[1] = a \div 4 /\ x[2] = (a % 4) * 16 + (b \div 16)
      /\ x[3] = (b % 16) * 4 + (c \div 64) /\ x[4] = c % 64
      /\ o[1] = a /\ o[2] = b /\ o[3] = c
  BY DEF Sextets
<1> HIDE DEF x, o
<1>3. CASE t = 1
  <2>1. CASE j = 1
    <3>1. z = 1 /\ y = 1
      BY <1>3, <2>1 DEF Aligned
    <3>2. BitOf(x[1], 5) = BitOf(o[1], 7)
      BY <1>2, Sextet1
    <3>3. QED
      BY <1>3, <2>1, <3>1, <3>2 DEF SameBits, x, o
  <2>2. CASE j = 2
    <3>1. z = 1 /\ y = 2
      BY <1>3, <2>2 DEF Aligned
    <3>2. BitOf(x[1], 4) = BitOf(o[1], 6)
      BY <1>2, Sextet1
    <3>3. QED
      BY <1>3, <2>2, <3>1, <3>2 DEF SameBits, x, o
  <2>3. CASE j = 3
    <3>1. z = 1 /\ y = 3
      BY <1>3, <2>3 DEF Aligned
    <3>2. BitOf(x[1], 3) = BitOf(o[1], 5)
      BY <1>2, Sextet1
    <3>3. QED
      BY <1>3, <2>3, <3>1, <3>2 DEF SameBits, x, o
  <2>4. CASE j = 4
    <3>1. z = 1 /\ y = 4
      BY <1>3, <2>4 DEF Aligned
    <3>2. BitOf(x[1], 2) = BitOf(o[1], 4)
      BY <1>2, Sextet1
    <3>3. QED
      BY <1>3, <2>4, <3>1, <3>2 DEF SameBits, x, o
  <2>5. CASE j = 5
    <3>1. z = 1 /\ y = 5
      BY <1>3, <2>5 DEF Aligned
    <3>2. BitOf(x[1], 1) = BitOf(o[1], 3)
      BY <1>2, Sextet1
    <3>3. QED
      BY <1>3, <2>5, <3>1, <3>2 DEF SameBits, x, o
  <2>6. CASE j = 6
    <3>1. z = 1 /\ y = 6
      BY <1>3, <2>6 DEF Aligned
    <3>2. BitOf(x[1], 0) = BitOf(o[1], 2)
      BY <1>2, Sextet1
    <3>3. QED
      BY <1>3, <2>6, <3>1, <3>2 DEF SameBits, x, o
  <2>7. QED
    BY <2>1, <2>2, <2>3, <2>4, <2>5, <2>6
<1>4. CASE t = 2
  <2>1. CASE j = 1
    <3>1. z = 1 /\ y = 7
      BY <1>4, <2>1 DEF Aligned
    <3>2. BitOf(x[2], 5) = BitOf(o[1], 1)
      BY <1>2, Sextet2
    <3>3. QED
      BY <1>4, <2>1, <3>1, <3>2 DEF SameBits, x, o
  <2>2. CASE j = 2
    <3>1. z = 1 /\ y = 8
      BY <1>4, <2>2 DEF Aligned
    <3>2. BitOf(x[2], 4) = BitOf(o[1], 0)
      BY <1>2, Sextet2
    <3>3. QED
      BY <1>4, <2>2, <3>1, <3>2 DEF SameBits, x, o
  <2>3. CASE j = 3
    <3>1. z = 2 /\ y = 1
      BY <1>4, <2>3 DEF Aligned
    <3>2. BitOf(x[2], 3) = BitOf(o[2], 7)
      BY <1>2, Sextet2
    <3>3. QED
      BY <1>4, <2>3, <3>1, <3>2 DEF SameBits, x, o
  <2>4. CASE j = 4
    <3>1. z = 2 /\ y = 2
      BY <1>4, <2>4 DEF Aligned
    <3>2. BitOf(x[2], 2) = BitOf(o[2], 6)
      BY <1>2, Sextet2
    <3>3. QED
      BY <1>4, <2>4, <3>1, <3>2 DEF SameBits, x, o
  <2>5. CASE j = 5
    <3>1. z = 2 /\ y = 3
      BY <1>4, <2>5 DEF Aligned
    <3>2. BitOf(x[2], 1) = BitOf(o[2], 5)
      BY <1>2, Sextet2
    <3>3. QED
      BY <1>4, <2>5, <3>1, <3>2 DEF SameBits, x, o
  <2>6. CASE j = 6
    <3>1. z = 2 /\ y = 4
      BY <1>4, <2>6 DEF Aligned
    <3>2. BitOf(x[2], 0) = BitOf(o[2], 4)
      BY <1>2, Sextet2
    <3>3. QED
      BY <1>4, <2>6, <3>1, <3>2 DEF SameBits, x, o
  <2>7. QED
    BY <2>1, <2>2, <2>3, <2>4, <2>5, <2>6
<1>5. CASE t = 3
  <2>1. CASE j = 1
    <3>1. z = 2 /\ y = 5
      BY <1>5, <2>1 DEF Aligned
    <3>2. BitOf(x[3], 5) = BitOf(o[2], 3)
      BY <1>2, Sextet3
    <3>3. QED
      BY <1>5, <2>1, <3>1, <3>2 DEF SameBits, x, o
  <2>2. CASE j = 2
    <3>1. z = 2 /\ y = 6
      BY <1>5, <2>2 DEF Aligned
    <3>2. BitOf(x[3], 4) = BitOf(o[2], 2)
      BY <1>2, Sextet3
    <3>3. QED
      BY <1>5, <2>2, <3>1, <3>2 DEF SameBits, x, o
  <2>3. CASE j = 3
    <3>1. z = 2 /\ y = 7
      BY <1>5, <2>3 DEF Aligned
    <3>2. BitOf(x[3], 3) = BitOf(o[2], 1)
      BY <1>2, Sextet3
    <3>3. QED
      BY <1>5, <2>3, <3>1, <3>2 DEF SameBits, x, o
  <2>4. CASE j = 4
    <3>1. z = 2 /\ y = 8
      BY <1>5, <2>4 DEF Aligned
    <3>2. BitOf(x[3], 2) = BitOf(o[2], 0)
      BY <1>2, Sextet3
    <3>3. QED
      BY <1>5, <2>4, <3>1, <3>2 DEF SameBits, x, o
  <2>5. CASE j = 5
    <3>1. z = 3 /\ y = 1
      BY <1>5, <2>5 DEF Aligned
    <3>2. BitOf(x[3], 1) = BitOf(o[3], 7)
      BY <1>2, Sextet3
    <3>3. QED
      BY <1>5, <2>5, <3>1, <3>2 DEF SameBits, x, o
  <2>6. CASE j = 6
    <3>1. z = 3 /\ y = 2
      BY <1>5, <2>6 DEF Aligned
    <3>2. BitOf(x[3], 0) = BitOf(o[3], 6)
      BY <1>2, Sextet3
    <3>3. QED
      BY <1>5, <2>6, <3>1, <3>2 DEF SameBits, x, o
  <2>7. QED
    BY <2>1, <2>2, <2>3, <2>4, <2>5, <2>6
<1>6. CASE t = 4
  <2>1. CASE j = 1
    <3>1. z = 3 /\ y = 3
      BY <1>6, <2>1 DEF Aligned
    <3>2. BitOf(x[4], 5) = BitOf(o[3], 5)
      BY <1>2, Sextet4
    <3>3. QED
      BY <1>6, <2>1, <3>1, <3>2 DEF SameBits, x, o
  <2>2. CASE j = 2
    <3>1. z = 3 /\ y = 4
      BY <1>6, <2>2 DEF Aligned
    <3>2. BitOf(x[4], 4) = BitOf(o[3], 4)
      BY <1>2, Sextet4
    <3>3. QED
      BY <1>6, <2>2, <3>1, <3>2 DEF SameBits, x, o
  <2>3. CASE j = 3
    <3>1. z = 3 /\ y = 5
      BY <1>6, <2>3 DEF Aligned
    <3>2. BitOf(x[4], 3) = BitOf(o[3], 3)
      BY <1>2, Sextet4
    <3>3. QED
      BY <1>6, <2>3, <3>1, <3>2 DEF SameBits, x, o
  <2>4. CASE j = 4
    <3>1. z = 3 /\ y = 6
      BY <1>6, <2>4 DEF Aligned
    <3>2. BitOf(x[4], 2) = BitOf(o[3], 2)
      BY <1>2, Sextet4
    <3>3. QED
      BY <1>6, <2>4, <3>1, <3>2 DEF SameBits, x, o
  <2>5. CASE j = 5
    <3>1. z = 3 /\ y = 7
      BY <1>6, <2>5 DEF Aligned
    <3>2. BitOf(x[4], 1) = BitOf(o[3], 1)
      BY <1>2, Sextet4
    <3>3. QED
      BY <1>6, <2>5, <3>1, <3>2 DEF SameBits, x, o
  <2>6. CASE j = 6
    <3>1. z = 3 /\ y = 8
      BY <1>6, <2>6 DEF Aligned
    <3>2. BitOf(x[4], 0) = BitOf(o[3], 0)
      BY <1>2, Sextet4
    <3>3. QED
      BY <1>6, <2>6, <3>1, <3>2 DEF SameBits, x, o
  <2>7. QED
    BY <2>1, <2>2, <2>3, <2>4, <2>5, <2>6
<1>7. QED
  BY <1>3, <1>4, <1>5, <1>6

LEMMA BitsOfByte ==
    ASSUME NEW w \in {6, 8}, NEW v \in Nat
    PROVE  /\ BitsOf(v, w) \in Seq(Bits) /\ Len(BitsOf(v, w)) = w
           /\ \A i \in 1..w : BitsOf(v, w)[i] = BitOf(v, w - i)
<1>1. \A i \in 1..w : w - i \in 0..7
  OBVIOUS
<1>2. \A i \in 1..w : Bit(v, w - i) \in Bits /\ Bit(v, w - i) = BitOf(v, w - i)
  BY <1>1, BitIs
<1>3. BitsOf(v, w) = [i \in 1..w |-> Bit(v, w - i)]
  BY DEF BitsOf
<1>4. w \in Nat
  OBVIOUS
<1>5. BitsOf(v, w) \in [1..w -> Bits]
  BY <1>2, <1>3
<1>6. BitsOf(v, w) \in Seq(Bits) /\ Len(BitsOf(v, w)) = w
  BY <1>4, <1>5, SeqOfLen
<1>7. QED
  BY <1>2, <1>3, <1>6

\* all is the bits of m numbers, w of each
Packed(all, ns, m, w) ==
    /\ all \in Seq(Bits) /\ Len(all) = w * m
    /\ \A k \in 1..m : \A j \in 1..w : all[w * (k - 1) + j] = BitOf(ns[k], w - j)

LEMMA AllBitsAre ==
    ASSUME NEW w \in {6, 8}, NEW m \in Nat, NEW ns, DOMAIN ns = 1..m, \A k \in 1..m : ns[k] \in Nat
    PROVE  Packed(AllBits(ns, w), ns, m, w)
<1> DEFINE seqs == [k \in 1..m |-> BitsOf(ns[k], w)]
<1>1. \A k \in 1..m : /\ BitsOf(ns[k], w) \in Seq(Bits) /\ Len(BitsOf(ns[k], w)) = w
                      /\ \A i \in 1..w : BitsOf(ns[k], w)[i] = BitOf(ns[k], w - i)
  BY BitsOfByte
<1>2. seqs \in Seq(Seq(Bits)) /\ m = Len(seqs) /\ \A k \in 1..m : seqs[k] = BitsOf(ns[k], w)
  BY <1>1
<1>3. AllBits(ns, w) = FlattenSeq(seqs)
  BY DEF AllBits
<1> HIDE DEF seqs
<1>4. \A k \in 1..m : Len(seqs[k]) = w
  BY <1>1, <1>2
<1>5. w \in Nat \ {0}
  OBVIOUS
<1>6. Even(FlattenSeq(seqs), seqs, m, w, Bits)
  BY <1>2, <1>4, <1>5, FlattenedEven, Zenon
<1>7. ASSUME NEW k \in 1..m, NEW j \in 1..w
      PROVE  FlattenSeq(seqs)[w * (k - 1) + j] = BitOf(ns[k], w - j)
  <2>1. FlattenSeq(seqs)[w * (k - 1) + j] = seqs[k][j]
    BY <1>6 DEF Even
  <2>2. QED
    BY <1>1, <1>2, <2>1
<1>8. FlattenSeq(seqs) \in Seq(Bits) /\ Len(FlattenSeq(seqs)) = w * m
  BY <1>6 DEF Even
<1>9. QED
  BY <1>3, <1>7, <1>8 DEF Packed

\* bit e of a group of 24 is the bit of a byte, and of a sextet
LEMMA Places24 ==
    ASSUME NEW q \in Nat, NEW p \in 1..(24 * q)
    PROVE  \E k \in 1..q, t \in 1..4, j \in 1..6, z \in 1..3, y \in 1..8 :
              /\ Aligned(t, j, z, y)
              /\ p = 6 * ((4 * (k - 1) + t) - 1) + j
              /\ p = 8 * ((3 * (k - 1) + z) - 1) + y
<1>1. 24 \in Nat \ {0} /\ 4 \in Nat /\ 3 \in Nat /\ 6 \in Nat \ {0} /\ 8 \in Nat \ {0}
  OBVIOUS
<1>2. PICK k \in 1..q, e \in 1..24 : p = 24 * (k - 1) + e
  BY <1>1, Grouped, Zenon
<1>3. PICK t \in 1..4, j \in 1..6 : e = 6 * (t - 1) + j
  <2>1. e \in 1..(6 * 4)
    OBVIOUS
  <2>2. QED
    BY <1>1, <2>1, Grouped, Zenon
<1>4. PICK z \in 1..3, y \in 1..8 : e = 8 * (z - 1) + y
  <2>1. e \in 1..(8 * 3)
    OBVIOUS
  <2>2. QED
    BY <1>1, <2>1, Grouped, Zenon
<1>5. /\ Aligned(t, j, z, y)
      /\ p = 6 * ((4 * (k - 1) + t) - 1) + j
      /\ p = 8 * ((3 * (k - 1) + z) - 1) + y
  BY <1>2, <1>3, <1>4 DEF Aligned
<1>6. QED
  BY <1>5

\* The characters that are not padding, as sextets, have the bits of the bytes.
SameBit(text, all, N, i, j, x, y) ==
    i <= N => BitOf(PlaceOf(text[i]), 6 - j) = BitOf(all[x], 8 - y)
Spelled(text, all, N, q) ==
    /\ \A i \in 1..N : PlaceOf(text[i]) \in 0..63 /\ \E v \in DOMAIN Alphabet : text[i] = Alphabet[v]
    /\ \A k \in 1..q : \A t \in 1..4 : \A j \in 1..6 : \A z \in 1..3 : \A y \in 1..8 :
          Aligned(t, j, z, y) => SameBit(text, all, N, 4 * (k - 1) + t, j, 3 * (k - 1) + z, y)

LEMMA Base64Bits ==
    ASSUME NEW source, NEW L \in Nat \ {0}, NEW q \in Nat \ {0}, NEW pad \in 0..2, NEW all,
           NEW text, B64(source, L, q, pad, all, text), NEW N \in Nat, N = 4 * q - pad
    PROVE  Spelled(text, all, N, q)
<1>1. ASSUME NEW k \in 1..q
      PROVE  all[3 * (k - 1) + 1] \in Octets /\ all[3 * (k - 1) + 2] \in Octets /\ all[3 * (k - 1) + 3] \in Octets
  <2>1. 3 * (k - 1) + 1 \in 1..(3 * q) /\ 3 * (k - 1) + 2 \in 1..(3 * q) /\ 3 * (k - 1) + 3 \in 1..(3 * q)
    OBVIOUS
  <2>2. QED
    BY <2>1 DEF B64
<1>2. ASSUME NEW k \in 1..q, NEW t \in 1..4, 4 * (k - 1) + t <= N
      PROVE  /\ PlaceOf(text[4 * (k - 1) + t])
                  = Sextets(all[3 * (k - 1) + 1], all[3 * (k - 1) + 2], all[3 * (k - 1) + 3])[t]
             /\ PlaceOf(text[4 * (k - 1) + t]) \in 0..63
             /\ \E v \in DOMAIN Alphabet : text[4 * (k - 1) + t] = Alphabet[v]
  <2>1. PICK v : v = Sextets(all[3 * (k - 1) + 1], all[3 * (k - 1) + 2], all[3 * (k - 1) + 3])[t]
    OBVIOUS
  <2>2. v \in 0..63
    BY <1>1, <2>1, SextetsAre
  <2>3. text[4 * (k - 1) + t] = to64(v)
    BY <1>2, <2>1 DEF B64
  <2>4. PlaceOf(text[4 * (k - 1) + t]) = v
    BY <2>2, <2>3, PlaceIs
  <2>5. text[4 * (k - 1) + t] = Alphabet[v + 1] /\ v + 1 \in DOMAIN Alphabet
    BY <2>2, <2>3, AlphabetIs
  <2>6. QED
    BY <2>1, <2>2, <2>4, <2>5
<1>3. ASSUME NEW i \in 1..N
      PROVE  PlaceOf(text[i]) \in 0..63 /\ \E v \in DOMAIN Alphabet : text[i] = Alphabet[v]
  <2>1. 4 \in Nat \ {0} /\ q \in Nat /\ i \in 1..(4 * q)
    OBVIOUS
  <2>2. PICK k \in 1..q, t \in 1..4 : i = 4 * (k - 1) + t
    BY <2>1, Grouped, Zenon
  <2>3. 4 * (k - 1) + t <= N
    BY <2>2
  <2>4. QED
    BY <1>2, <2>2, <2>3
<1>4. ASSUME NEW k \in 1..q, NEW t \in 1..4, NEW j \in 1..6, NEW z \in 1..3, NEW y \in 1..8,
             Aligned(t, j, z, y), 4 * (k - 1) + t <= N
      PROVE  BitOf(PlaceOf(text[4 * (k - 1) + t]), 6 - j) = BitOf(all[3 * (k - 1) + z], 8 - y)
  <2>1. PICK a \in Octets, b \in Octets, c \in Octets :
           a = all[3 * (k - 1) + 1] /\ b = all[3 * (k - 1) + 2] /\ c = all[3 * (k - 1) + 3]
    BY <1>1
  <2>2. BitOf(Sextets(a, b, c)[t], 6 - j) = BitOf(<<a, b, c>>[z], 8 - y)
    <3>1. a \in Octets /\ b \in Octets /\ c \in Octets
      BY <2>1
    <3>2. Aligned(t, j, z, y)
      BY <1>4
    <3>3. SameBits(Sextets(a, b, c), t, j, <<a, b, c>>, z, y)
      BY <3>1, <3>2, SextetBits, Zenon
    <3>4. QED
      BY <3>3 DEF SameBits
  <2>3. <<a, b, c>>[z] = all[3 * (k - 1) + z]
    <3>1. z = 1 \/ z = 2 \/ z = 3
      OBVIOUS
    <3>2. QED
      BY <2>1, <3>1
  <2>4. PlaceOf(text[4 * (k - 1) + t]) = Sextets(a, b, c)[t]
    BY <1>2, <1>4, <2>1
  <2>5. QED
    BY <2>2, <2>3, <2>4
<1>5. \A i \in 1..N : PlaceOf(text[i]) \in 0..63 /\ \E v \in DOMAIN Alphabet : text[i] = Alphabet[v]
  BY <1>3, Zenon
<1>6. ASSUME NEW k \in 1..q, NEW t \in 1..4, NEW j \in 1..6, NEW z \in 1..3, NEW y \in 1..8,
             Aligned(t, j, z, y)
      PROVE  SameBit(text, all, N, 4 * (k - 1) + t, j, 3 * (k - 1) + z, y)
  BY <1>4, <1>6, Zenon DEF SameBit
<1>7. QED
  BY <1>5, <1>6, Zenon DEF Spelled

\* The characters of base64 spell the bytes as RFC 4648 says.
THEOREM Base64Standard ==
    ASSUME NEW source \in Seq(Octets), source # << >>
    PROVE  IsBase64(b64_encode(source), source)
<1>1. PICK L \in Nat \ {0} : L = Len(source) /\ DOMAIN source = 1..L
  OBVIOUS
<1>2. PICK q \in Nat \ {0}, pad \in 0..2 : \E all : B64(source, L, q, pad, all, b64_encode(source))
  BY <1>1, Base64Is
<1>2a. PICK all : B64(source, L, q, pad, all, b64_encode(source))
  BY <1>2
<1>3. PICK text : text = b64_encode(source)
  OBVIOUS
<1>4. B64(source, L, q, pad, all, text)
  BY <1>2a, <1>3
<1>5. PICK N \in Nat : N = 4 * q - pad
  <2>1. 4 * q - pad \in Nat
    OBVIOUS
  <2>2. QED
    BY <2>1
<1>6. text \in Seq(Int) /\ Len(text) = N + pad /\ Len(text) = 4 * q /\ 3 * q = L + pad
  BY <1>4, <1>5 DEF B64
<1> DEFINE chars == SubSeq(text, 1, Len(text) - pad)
           vals == [i \in DOMAIN chars |-> PlaceOf(chars[i])]
           bits == AllBits(vals, 6)
           n == 8 * Len(source)
           eqs == [i \in 1..pad |-> Equals]
<1>7. chars \in Seq(Int) /\ Len(chars) = N /\ DOMAIN chars = 1..N /\ \A i \in 1..N : chars[i] = text[i]
  <2>1. FirstOf(SubSeq(text, 1, N), text, N, Int)
    <3>1. pad \in Nat
      OBVIOUS
    <3>2. QED
      BY <1>6, <3>1, FirstItems, Zenon
  <2>2. Len(text) - pad = N
    BY <1>6
  <2>3. FirstOf(chars, text, N, Int)
    BY <2>1, <2>2
  <2> HIDE DEF chars
  <2>4. chars \in [1..N -> Int] /\ \A i \in 1..N : chars[i] = text[i]
    BY <2>3 DEF FirstOf
  <2>5. chars \in Seq(Int) /\ Len(chars) = N
    BY <2>4, SeqOfLen
  <2>6. QED
    BY <2>4, <2>5
<1> HIDE DEF chars
<1>8. DOMAIN vals = 1..N /\ \A i \in 1..N : vals[i] = PlaceOf(text[i])
  BY <1>7
<1> HIDE DEF vals
<1>9. Spelled(text, all, N, q)
  BY <1>4, <1>5, Base64Bits
<1>10. Packed(bits, vals, N, 6)
  <2>1. \A i \in 1..N : vals[i] \in Nat
    <3>1. \A v \in 0..63 : v \in Nat
      OBVIOUS
    <3>2. QED
      BY <1>8, <1>9, <3>1 DEF Spelled
  <2>2. 6 \in {6, 8}
    OBVIOUS
  <2>3. QED
    BY <1>8, <2>1, <2>2, AllBitsAre, Zenon
<1> HIDE DEF bits
<1>11. Packed(AllBits(source, 8), source, L, 8)
  <2>1. \A i \in 1..L : source[i] \in Nat
    BY <1>1, OctetsAre
  <2>2. 8 \in {6, 8}
    OBVIOUS
  <2>3. QED
    BY <1>1, <2>1, <2>2, AllBitsAre, Zenon
\* the bits of the sextets are those of the bytes, and zeros
<1>12. ASSUME NEW p \in 1..(6 * N)
       PROVE  bits[p] = IF p <= 8 * L THEN AllBits(source, 8)[p] ELSE 0
  <2>1. p \in 1..(24 * q)
    BY <1>5
  <2>2. PICK k \in 1..q, t \in 1..4, j \in 1..6, z \in 1..3, y \in 1..8 :
              /\ Aligned(t, j, z, y)
              /\ p = 6 * ((4 * (k - 1) + t) - 1) + j
              /\ p = 8 * ((3 * (k - 1) + z) - 1) + y
    <3>1. q \in Nat
      OBVIOUS
    <3>2. QED
      BY <2>1, <3>1, Places24, Zenon
  <2>3. PICK i \in Nat, x \in Nat : i = 4 * (k - 1) + t /\ x = 3 * (k - 1) + z
    OBVIOUS
  <2>4. p = 6 * (i - 1) + j /\ p = 8 * (x - 1) + y
    BY <2>2, <2>3
  <2>5. i \in 1..N /\ x \in 1..(3 * q)
    BY <2>3, <2>4
  <2>6. bits[p] = BitOf(vals[i], 6 - j)
    BY <1>10, <2>4, <2>5 DEF Packed
  <2>7. BitOf(PlaceOf(text[i]), 6 - j) = BitOf(all[x], 8 - y)
    <3>1. Aligned(t, j, z, y) /\ 4 * (k - 1) + t <= N
      BY <2>2, <2>3, <2>5
    <3>2. SameBit(text, all, N, 4 * (k - 1) + t, j, 3 * (k - 1) + z, y)
      BY <1>9, <2>2, <3>1, Zenon DEF Spelled
    <3>3. QED
      BY <2>3, <3>1, <3>2 DEF SameBit
  <2>8. bits[p] = BitOf(all[x], 8 - y)
    BY <1>8, <2>5, <2>6, <2>7
  <2>9. all[x] = IF x <= L THEN source[x] ELSE 0
    BY <1>4, <2>5 DEF B64
  <2>10. CASE p <= 8 * L
    <3>1. x \in 1..L
      BY <2>4, <2>5, <2>10
    <3>2. AllBits(source, 8)[p] = BitOf(source[x], 8 - y)
      BY <1>11, <2>4, <3>1 DEF Packed
    <3>3. QED
      BY <2>8, <2>9, <2>10, <3>1, <3>2
  <2>11. CASE ~(p <= 8 * L)
    <3>1. ~(x <= L)
      BY <2>4, <2>5, <2>11
    <3>2. 8 - y \in 0..7
      OBVIOUS
    <3>3. \A c \in 0..7 : BitOf(0, c) = 0
      BY DEF BitOf
    <3>4. QED
      BY <2>8, <2>9, <2>11, <3>1, <3>2, <3>3
  <2>12. QED
    BY <2>10, <2>11
<1>13. 8 * L <= 6 * N /\ 6 * N - 8 * L < 6 /\ n = 8 * L
  BY <1>1, <1>5, <1>6
<1>14. bits \in Seq(Bits) /\ Len(bits) = 6 * N
  BY <1>10 DEF Packed
<1>15. SubSeq(bits, 1, n) = AllBits(source, 8)
  <2>1. PICK l \in Nat, d \in Nat : l = 8 * L /\ 6 * N = l + d
    <3>1. 8 * L \in Nat /\ 6 * N - 8 * L \in Nat /\ 6 * N = 8 * L + (6 * N - 8 * L)
      BY <1>13
    <3>2. QED
      BY <3>1
  <2>2. FirstOf(SubSeq(bits, 1, l), bits, l, Bits)
    BY <1>14, <2>1, FirstItems
  <2>3. AllBits(source, 8) \in [1..l -> Bits]
    <3>1. AllBits(source, 8) \in Seq(Bits) /\ Len(AllBits(source, 8)) = l
      BY <1>11, <2>1 DEF Packed
    <3>2. QED
      BY <3>1, SeqOfLen
  <2>4. \A p \in 1..l : bits[p] = AllBits(source, 8)[p]
    <3>1. \A p \in 1..l : p \in 1..(6 * N) /\ p <= 8 * L
      BY <2>1
    <3>2. QED
      BY <1>12, <3>1
  <2>5. PICK f, g : f = SubSeq(bits, 1, l) /\ g = AllBits(source, 8)
    OBVIOUS
  <2>6. f \in [1..l -> Bits] /\ g \in [1..l -> Bits] /\ \A p \in 1..l : f[p] = g[p]
    BY <2>2, <2>3, <2>4, <2>5 DEF FirstOf
  <2>7. f = g
    BY <2>6
  <2>8. QED
    BY <1>13, <2>1, <2>5, <2>7
<1>16. \A i \in (n + 1)..Len(bits) : bits[i] = 0
  <2>1. \A i \in (n + 1)..Len(bits) : i \in 1..(6 * N) /\ ~(i <= 8 * L)
    BY <1>13, <1>14
  <2>2. QED
    BY <1>12, <2>1
<1>17. text = chars \o eqs
  <2>1. eqs \in Seq(Int) /\ Len(eqs) = pad /\ \A i \in 1..pad : eqs[i] = Equals
    <3>1. Equals \in Int
      BY DEF Equals
    <3>2. QED
      BY <3>1
  <2> HIDE DEF eqs
  <2>2. PICK y : y = chars \o eqs
    OBVIOUS
  <2>3. pad \in Nat
    OBVIOUS
  <2>4. Joins(y, chars, N, eqs, pad, Int)
    BY <1>7, <2>1, <2>2, <2>3, Joined, Zenon
  <2>5. y \in Seq(Int) /\ Len(y) = N + pad
    BY <2>4 DEF Joins
  <2>6. N + pad \in Nat
    OBVIOUS
  <2>7. y \in [1..(N + pad) -> Int] /\ text \in [1..(N + pad) -> Int]
    BY <1>6, <2>5, <2>6, SeqOfLen
  <2>8. ASSUME NEW p \in 1..(N + pad) PROVE y[p] = text[p]
    <3>1. CASE p <= N
      BY <1>7, <2>4, <3>1 DEF Joins
    <3>2. CASE ~(p <= N)
      <4>1. PICK i \in 1..pad : p = N + i
        <5>1. p - N \in 1..pad /\ p = N + (p - N)
          BY <3>2
        <5>2. QED
          BY <5>1
      <4>2. y[N + i] = Equals
        BY <2>1, <2>4 DEF Joins
      <4>3. text[p] = Equals
        <5>1. p \in 1..(4 * q) /\ p > 4 * q - pad
          BY <1>5, <3>2
        <5>2. QED
          BY <1>4, <5>1 DEF B64
      <4>4. QED
        BY <4>1, <4>2, <4>3
    <3>3. QED
      BY <3>1, <3>2
  <2>9. y = text
    BY <2>7, <2>8
  <2>10. QED
    BY <2>2, <2>9
<1>18. \A i \in DOMAIN chars : \E v \in DOMAIN Alphabet : chars[i] = Alphabet[v]
  BY <1>7, <1>9 DEF Spelled
<1>19. Len(text) % 4 = 0 /\ pad \in 0..3 /\ Len(bits) - n < 6
  <2>1. (4 * q) % 4 = 0 /\ pad \in 0..3
    OBVIOUS
  <2>2. Len(text) % 4 = 0
    BY <1>6, <2>1
  <2>3. Len(bits) - n < 6
    BY <1>13, <1>14
  <2>4. QED
    BY <2>1, <2>2, <2>3
<1>20. IsBase64(text, source)
  BY <1>15, <1>16, <1>17, <1>18, <1>19 DEF IsBase64, chars, vals, bits, eqs
<1>21. QED
  BY <1>3, <1>20
-----------------------------------------------------------------------------
(* UTF-8 as RFC 3629 says it *)

MorePowers ==
    /\ 2 ^ 9 = 512 /\ 2 ^ 10 = 1024 /\ 2 ^ 11 = 2048 /\ 2 ^ 12 = 4096 /\ 2 ^ 13 = 8192
    /\ 2 ^ 14 = 16384 /\ 2 ^ 15 = 32768 /\ 2 ^ 16 = 65536 /\ 2 ^ 17 = 131072
    /\ 2 ^ 18 = 262144 /\ 2 ^ 19 = 524288 /\ 2 ^ 20 = 1048576
LEMMA MorePowersAre == MorePowers
BY DEF MorePowers

\* the bits above the lowest six
LEMMA ShiftedBits ==
    ASSUME NEW w \in Nat
    PROVE  \A x \in 0..14 : Bit(w \div 64, x) = Bit(w, x + 6)
<1> SUFFICES ASSUME NEW x \in 0..14 PROVE Bit(w \div 64, x) = Bit(w, x + 6)
  OBVIOUS
<1>1. (w \div 64) \div 2 ^ x = w \div 2 ^ (x + 6)
  <2>1. CASE x = 0
    <3>1. 2 ^ x = 1 /\ 2 ^ (x + 6) = 64
      BY <2>1, PowersAre, MorePowersAre DEF Powers, MorePowers
    <3>2. (w \div 64) \div 1 = w \div 64
      OBVIOUS
    <3>3. QED
      BY <3>1, <3>2
  <2>2. CASE x = 1
    <3>1. 2 ^ x = 2 /\ 2 ^ (x + 6) = 128
      BY <2>2, PowersAre, MorePowersAre DEF Powers, MorePowers
    <3>2. (w \div 64) \div 2 = w \div 128
      OBVIOUS
    <3>3. QED
      BY <3>1, <3>2
  <2>3. CASE x = 2
    <3>1. 2 ^ x = 4 /\ 2 ^ (x + 6) = 256
      BY <2>3, PowersAre, MorePowersAre DEF Powers, MorePowers
    <3>2. (w \div 64) \div 4 = w \div 256
      OBVIOUS
    <3>3. QED
      BY <3>1, <3>2
  <2>4. CASE x = 3
    <3>1. 2 ^ x = 8 /\ 2 ^ (x + 6) = 512
      BY <2>4, PowersAre, MorePowersAre DEF Powers, MorePowers
    <3>2. (w \div 64) \div 8 = w \div 512
      OBVIOUS
    <3>3. QED
      BY <3>1, <3>2
  <2>5. CASE x = 4
    <3>1. 2 ^ x = 16 /\ 2 ^ (x + 6) = 1024
      BY <2>5, PowersAre, MorePowersAre DEF Powers, MorePowers
    <3>2. (w \div 64) \div 16 = w \div 1024
      OBVIOUS
    <3>3. QED
      BY <3>1, <3>2
  <2>6. CASE x = 5
    <3>1. 2 ^ x = 32 /\ 2 ^ (x + 6) = 2048
      BY <2>6, PowersAre, MorePowersAre DEF Powers, MorePowers
    <3>2. (w \div 64) \div 32 = w \div 2048
      OBVIOUS
    <3>3. QED
      BY <3>1, <3>2
  <2>7. CASE x = 6
    <3>1. 2 ^ x = 64 /\ 2 ^ (x + 6) = 4096
      BY <2>7, PowersAre, MorePowersAre DEF Powers, MorePowers
    <3>2. (w \div 64) \div 64 = w \div 4096
      OBVIOUS
    <3>3. QED
      BY <3>1, <3>2
  <2>8. CASE x = 7
    <3>1. 2 ^ x = 128 /\ 2 ^ (x + 6) = 8192
      BY <2>8, PowersAre, MorePowersAre DEF Powers, MorePowers
    <3>2. (w \div 64) \div 128 = w \div 8192
      OBVIOUS
    <3>3. QED
      BY <3>1, <3>2
  <2>9. CASE x = 8
    <3>1. 2 ^ x = 256 /\ 2 ^ (x + 6) = 16384
      BY <2>9, PowersAre, MorePowersAre DEF Powers, MorePowers
    <3>2. (w \div 64) \div 256 = w \div 16384
      OBVIOUS
    <3>3. QED
      BY <3>1, <3>2
  <2>10. CASE x = 9
    <3>1. 2 ^ x = 512 /\ 2 ^ (x + 6) = 32768
      BY <2>10, PowersAre, MorePowersAre DEF Powers, MorePowers
    <3>2. (w \div 64) \div 512 = w \div 32768
      OBVIOUS
    <3>3. QED
      BY <3>1, <3>2
  <2>11. CASE x = 10
    <3>1. 2 ^ x = 1024 /\ 2 ^ (x + 6) = 65536
      BY <2>11, PowersAre, MorePowersAre DEF Powers, MorePowers
    <3>2. (w \div 64) \div 1024 = w \div 65536
      OBVIOUS
    <3>3. QED
      BY <3>1, <3>2
  <2>12. CASE x = 11
    <3>1. 2 ^ x = 2048 /\ 2 ^ (x + 6) = 131072
      BY <2>12, PowersAre, MorePowersAre DEF Powers, MorePowers
    <3>2. (w \div 64) \div 2048 = w \div 131072
      OBVIOUS
    <3>3. QED
      BY <3>1, <3>2
  <2>13. CASE x = 12
    <3>1. 2 ^ x = 4096 /\ 2 ^ (x + 6) = 262144
      BY <2>13, PowersAre, MorePowersAre DEF Powers, MorePowers
    <3>2. (w \div 64) \div 4096 = w \div 262144
      OBVIOUS
    <3>3. QED
      BY <3>1, <3>2
  <2>14. CASE x = 13
    <3>1. 2 ^ x = 8192 /\ 2 ^ (x + 6) = 524288
      BY <2>14, PowersAre, MorePowersAre DEF Powers, MorePowers
    <3>2. (w \div 64) \div 8192 = w \div 524288
      OBVIOUS
    <3>3. QED
      BY <3>1, <3>2
  <2>15. CASE x = 14
    <3>1. 2 ^ x = 16384 /\ 2 ^ (x + 6) = 1048576
      BY <2>15, PowersAre, MorePowersAre DEF Powers, MorePowers
    <3>2. (w \div 64) \div 16384 = w \div 1048576
      OBVIOUS
    <3>3. QED
      BY <3>1, <3>2
  <2>16. QED
    BY <2>1, <2>2, <2>3, <2>4, <2>5, <2>6, <2>7, <2>8, <2>9, <2>10, <2>11, <2>12, <2>13, <2>14, <2>15
<1>2. QED
  BY <1>1 DEF Bit

\* the lowest six, in the bytes behind the first
LEMMA LowestBits ==
    ASSUME NEW w \in Nat
    PROVE  /\ \A x \in 0..5 : Bit(128 + (w % 64), x) = Bit(w, x)
           /\ Bit(128 + (w % 64), 7) = 1 /\ Bit(128 + (w % 64), 6) = 0
<1>1. PICK r \in 0..63, q \in Nat : r = w % 64 /\ w = q * 64 + r
  BY Sextet
<1>2. Bit(128 + r, 0) = Bit(w, 0)
  <2>1. w \div 1 = 64 * q + (r \div 1) /\ (128 + r) \div 1 = 128 + (r \div 1)
    BY <1>1
  <2>2. ((128 + r) \div 1) % 2 = (w \div 1) % 2
    BY <2>1
  <2>3. QED
    BY <2>2, PowersAre DEF Powers, Bit
<1>3. Bit(128 + r, 1) = Bit(w, 1)
  <2>1. w \div 2 = 32 * q + (r \div 2) /\ (128 + r) \div 2 = 64 + (r \div 2)
    BY <1>1
  <2>2. ((128 + r) \div 2) % 2 = (w \div 2) % 2
    BY <2>1
  <2>3. QED
    BY <2>2, PowersAre DEF Powers, Bit
<1>4. Bit(128 + r, 2) = Bit(w, 2)
  <2>1. w \div 4 = 16 * q + (r \div 4) /\ (128 + r) \div 4 = 32 + (r \div 4)
    BY <1>1
  <2>2. ((128 + r) \div 4) % 2 = (w \div 4) % 2
    BY <2>1
  <2>3. QED
    BY <2>2, PowersAre DEF Powers, Bit
<1>5. Bit(128 + r, 3) = Bit(w, 3)
  <2>1. w \div 8 = 8 * q + (r \div 8) /\ (128 + r) \div 8 = 16 + (r \div 8)
    BY <1>1
  <2>2. ((128 + r) \div 8) % 2 = (w \div 8) % 2
    BY <2>1
  <2>3. QED
    BY <2>2, PowersAre DEF Powers, Bit
<1>6. Bit(128 + r, 4) = Bit(w, 4)
  <2>1. w \div 16 = 4 * q + (r \div 16) /\ (128 + r) \div 16 = 8 + (r \div 16)
    BY <1>1
  <2>2. ((128 + r) \div 16) % 2 = (w \div 16) % 2
    BY <2>1
  <2>3. QED
    BY <2>2, PowersAre DEF Powers, Bit
<1>7. Bit(128 + r, 5) = Bit(w, 5)
  <2>1. w \div 32 = 2 * q + (r \div 32) /\ (128 + r) \div 32 = 4 + (r \div 32)
    BY <1>1
  <2>2. ((128 + r) \div 32) % 2 = (w \div 32) % 2
    BY <2>1
  <2>3. QED
    BY <2>2, PowersAre DEF Powers, Bit
<1>8. Bit(128 + r, 7) = 1 /\ Bit(128 + r, 6) = 0
  BY PowersAre DEF Powers, Bit
<1>9. ASSUME NEW x \in 0..5 PROVE Bit(128 + r, x) = Bit(w, x)
  <2>1. x = 0 \/ x = 1 \/ x = 2 \/ x = 3 \/ x = 4 \/ x = 5
    OBVIOUS
  <2>2. QED
    BY <1>2, <1>3, <1>4, <1>5, <1>6, <1>7, <2>1
<1>10. QED
  BY <1>1, <1>8, <1>9

\* b, the first of the bytes of a character, begins with h - 1 ones and a zero
Leads(b, h) == Bit(b, 8 - h) = 0 /\ \A i \in 1..(h - 1) : Bit(b, 8 - i) = 1
\* and the bits behind them are those of v
LeadsTo(b, h, v) == Leads(b, h) /\ \A x \in 0..(7 - h) : Bit(b, x) = Bit(v, x)
LEMMA LeadBits ==
    /\ \A v \in 0..127 : LeadsTo(v, 1, v)
    /\ \A v \in 0..31 : LeadsTo(192 + v, 3, v)
    /\ \A v \in 0..15 : LeadsTo(224 + v, 4, v)
    /\ \A v \in 0..7 : LeadsTo(240 + v, 5, v)
<1>1. ASSUME NEW v \in 0..127 PROVE LeadsTo(v, 1, v)
  <2>1. Bit(v, 7) = 0
    BY PowersAre DEF Powers, Bit
  <2>2. 8 - 1 = 7
    OBVIOUS
  <2>3. QED
    BY <2>1, <2>2 DEF LeadsTo, Leads
<1>2. ASSUME NEW v \in 0..31
      PROVE  LeadsTo(192 + v, 3, v)
  <2>1. Bit(192 + v, 6) = 1
    BY PowersAre DEF Powers, Bit
  <2>2. Bit(192 + v, 7) = 1
    BY PowersAre DEF Powers, Bit
  <2>3. Bit(192 + v, 5) = 0
    BY PowersAre DEF Powers, Bit
  <2>4. Bit(192 + v, 0) = Bit(v, 0)
    BY PowersAre DEF Powers, Bit
  <2>5. Bit(192 + v, 1) = Bit(v, 1)
    BY PowersAre DEF Powers, Bit
  <2>6. Bit(192 + v, 2) = Bit(v, 2)
    BY PowersAre DEF Powers, Bit
  <2>7. Bit(192 + v, 3) = Bit(v, 3)
    BY PowersAre DEF Powers, Bit
  <2>8. Bit(192 + v, 4) = Bit(v, 4)
    BY PowersAre DEF Powers, Bit
  <2>9. \A x \in 6..7 : Bit(192 + v, x) = 1
    <3>1. \A x \in 6..7 : x = 6 \/ x = 7
      OBVIOUS
    <3>2. QED
      BY <3>1, <2>1, <2>2
  <2>10. \A x \in 0..4 : Bit(192 + v, x) = Bit(v, x)
    <3>1. \A x \in 0..4 : x = 0 \/ x = 1 \/ x = 2 \/ x = 3 \/ x = 4
      OBVIOUS
    <3>2. QED
      BY <3>1, <2>4, <2>5, <2>6, <2>7, <2>8
  <2>11. Leads(192 + v, 3)
    <3>1. 8 - 3 = 5 /\ \A i \in 1..(3 - 1) : 8 - i \in 6..7
      OBVIOUS
    <3>2. QED
      BY <2>3, <2>9, <3>1 DEF Leads
  <2>12. \A x \in 0..(7 - 3) : x \in 0..4
    OBVIOUS
  <2>13. QED
    BY <2>10, <2>11, <2>12 DEF LeadsTo
<1>3. ASSUME NEW v \in 0..15
      PROVE  LeadsTo(224 + v, 4, v)
  <2>1. Bit(224 + v, 5) = 1
    BY PowersAre DEF Powers, Bit
  <2>2. Bit(224 + v, 6) = 1
    BY PowersAre DEF Powers, Bit
  <2>3. Bit(224 + v, 7) = 1
    BY PowersAre DEF Powers, Bit
  <2>4. Bit(224 + v, 4) = 0
    BY PowersAre DEF Powers, Bit
  <2>5. Bit(224 + v, 0) = Bit(v, 0)
    BY PowersAre DEF Powers, Bit
  <2>6. Bit(224 + v, 1) = Bit(v, 1)
    BY PowersAre DEF Powers, Bit
  <2>7. Bit(224 + v, 2) = Bit(v, 2)
    BY PowersAre DEF Powers, Bit
  <2>8. Bit(224 + v, 3) = Bit(v, 3)
    BY PowersAre DEF Powers, Bit
  <2>9. \A x \in 5..7 : Bit(224 + v, x) = 1
    <3>1. \A x \in 5..7 : x = 5 \/ x = 6 \/ x = 7
      OBVIOUS
    <3>2. QED
      BY <3>1, <2>1, <2>2, <2>3
  <2>10. \A x \in 0..3 : Bit(224 + v, x) = Bit(v, x)
    <3>1. \A x \in 0..3 : x = 0 \/ x = 1 \/ x = 2 \/ x = 3
      OBVIOUS
    <3>2. QED
      BY <3>1, <2>5, <2>6, <2>7, <2>8
  <2>11. Leads(224 + v, 4)
    <3>1. 8 - 4 = 4 /\ \A i \in 1..(4 - 1) : 8 - i \in 5..7
      OBVIOUS
    <3>2. QED
      BY <2>4, <2>9, <3>1 DEF Leads
  <2>12. \A x \in 0..(7 - 4) : x \in 0..3
    OBVIOUS
  <2>13. QED
    BY <2>10, <2>11, <2>12 DEF LeadsTo
<1>4. ASSUME NEW v \in 0..7
      PROVE  LeadsTo(240 + v, 5, v)
  <2>1. Bit(240 + v, 4) = 1
    BY PowersAre DEF Powers, Bit
  <2>2. Bit(240 + v, 5) = 1
    BY PowersAre DEF Powers, Bit
  <2>3. Bit(240 + v, 6) = 1
    BY PowersAre DEF Powers, Bit
  <2>4. Bit(240 + v, 7) = 1
    BY PowersAre DEF Powers, Bit
  <2>5. Bit(240 + v, 3) = 0
    BY PowersAre DEF Powers, Bit
  <2>6. Bit(240 + v, 0) = Bit(v, 0)
    BY PowersAre DEF Powers, Bit
  <2>7. Bit(240 + v, 1) = Bit(v, 1)
    BY PowersAre DEF Powers, Bit
  <2>8. Bit(240 + v, 2) = Bit(v, 2)
    BY PowersAre DEF Powers, Bit
  <2>9. \A x \in 4..7 : Bit(240 + v, x) = 1
    <3>1. \A x \in 4..7 : x = 4 \/ x = 5 \/ x = 6 \/ x = 7
      OBVIOUS
    <3>2. QED
      BY <3>1, <2>1, <2>2, <2>3, <2>4
  <2>10. \A x \in 0..2 : Bit(240 + v, x) = Bit(v, x)
    <3>1. \A x \in 0..2 : x = 0 \/ x = 1 \/ x = 2
      OBVIOUS
    <3>2. QED
      BY <3>1, <2>6, <2>7, <2>8
  <2>11. Leads(240 + v, 5)
    <3>1. 8 - 5 = 3 /\ \A i \in 1..(5 - 1) : 8 - i \in 4..7
      OBVIOUS
    <3>2. QED
      BY <2>5, <2>9, <3>1 DEF Leads
  <2>12. \A x \in 0..(7 - 5) : x \in 0..2
    OBVIOUS
  <2>13. QED
    BY <2>10, <2>11, <2>12 DEF LeadsTo
<1>5. QED
  BY <1>1, <1>2, <1>3, <1>4

\* t is the last n of the k + n items of s
LastOf(t, s, k, n, S) == t \in Seq(S) /\ Len(t) = n /\ \A i \in 1..n : t[i] = s[k + i]
LEMMA LastItems ==
    ASSUME NEW S, NEW s \in Seq(S), NEW k \in Nat, NEW n \in Nat, Len(s) = k + n
    PROVE  LastOf(SubSeq(s, k + 1, k + n), s, k, n, S)
<1>1. \A i \in 1..n : k + i \in 1..Len(s)
  OBVIOUS
<1>2. SubSeq(s, k + 1, k + n) = [i \in 1..n |-> s[k + i]]
  <2>1. \A i \in 1..n : (k + 1) + i - 1 = k + i
    OBVIOUS
  <2>2. SubSeq(s, k + 1, k + n) = [i \in 1..(k + n - (k + 1) + 1) |-> s[(k + 1) + i - 1]]
    OBVIOUS
  <2>3. k + n - (k + 1) + 1 = n
    OBVIOUS
  <2>4. [i \in 1..n |-> s[(k + 1) + i - 1]] = [i \in 1..n |-> s[k + i]]
    BY <2>1
  <2>5. QED
    BY <2>2, <2>3, <2>4
<1>3. \A i \in 1..n : s[k + i] \in S
  BY <1>1
<1> DEFINE t == SubSeq(s, k + 1, k + n)
<1> HIDE DEF t
<1>4. t = [i \in 1..n |-> s[k + i]]
  BY <1>2 DEF t
<1>5. t \in [1..n -> S] /\ \A i \in 1..n : t[i] = s[k + i]
  BY <1>3, <1>4
<1>6. t \in Seq(S) /\ Len(t) = n
  BY <1>5, SeqOfLen
<1>7. LastOf(t, s, k, n, S)
  BY <1>5, <1>6 DEF LastOf
<1>8. QED
  BY <1>7 DEF t

LEMMA ByteOf ==
    ASSUME NEW b \in Nat
    PROVE  /\ BitsOf(b, 8) \in Seq(Bits) /\ Len(BitsOf(b, 8)) = 8
           /\ \A i \in 1..8 : BitsOf(b, 8)[i] = Bit(b, 8 - i)
<1>1. 8 \in {6, 8} /\ \A i \in 1..8 : 8 - i \in 0..7
  OBVIOUS
<1>2. /\ BitsOf(b, 8) \in Seq(Bits) /\ Len(BitsOf(b, 8)) = 8
      /\ \A i \in 1..8 : BitsOf(b, 8)[i] = BitOf(b, 8 - i)
  BY <1>1, BitsOfByte, Zenon
<1>3. \A i \in 1..8 : BitOf(b, 8 - i) = Bit(b, 8 - i)
  BY <1>1, BitIs
<1>4. QED
  BY <1>2, <1>3

\* the bits of val are the others of the first byte, and six of each behind it
Carries(bytes, n, h, val) ==
    /\ \A x \in 0..(7 - h) : Bit(val, 6 * (n - 1) + x) = Bit(bytes[1], x)
    /\ \A k \in 1..(n - 1) : \A x \in 0..5 : Bit(val, 6 * (n - 1 - k) + x) = Bit(bytes[k + 1], x)

\* a character of n bytes is not one of fewer
NoShorter(val, n) ==
    /\ n >= 2 => val >= 2 ^ 7
    /\ n >= 3 => val >= 2 ^ 11
    /\ n >= 4 => val >= 2 ^ 16
Headed(n, h) == h = IF n = 1 THEN 1 ELSE n + 1
LEMMA Heads == Headed(1, 1) /\ Headed(2, 3) /\ Headed(3, 4) /\ Headed(4, 5)
BY DEF Headed

\* LayoutOfUtf8, the number of bytes by name
OfLength(bytes, val, n) ==
    LET ones == IF n = 1 THEN << >> ELSE [i \in 1..n |-> 1]
        head == Append(ones, 0)
        bits == [k \in 1..n |-> BitsOf(bytes[k], 8)]
        payload == SubSeq(bits[1], Len(head) + 1, 8)
                   \o FlattenSeq([k \in 1..(n - 1) |-> SubSeq(bits[k + 1], 3, 8)])
    IN /\ SubSeq(bits[1], 1, Len(head)) = head
       /\ \A k \in 2..n : SubSeq(bits[k], 1, 2) = <<1, 0>>
       /\ payload = BitsOf(val, Len(payload))
       /\ \A m \in 1..(n - 1) : val >= (IF m = 1 THEN 2 ^ 7 ELSE 2 ^ (5 * m + 1))

LEMMA Utf8Shape ==
    ASSUME NEW n \in 1..4, NEW h \in 1..5, Headed(n, h),
           NEW bytes \in Seq(Nat), Len(bytes) = n, NEW val \in Nat,
           Leads(bytes[1], h), Carries(bytes, n, h, val),
           \A k \in 2..n : Bit(bytes[k], 7) = 1 /\ Bit(bytes[k], 6) = 0,
           NoShorter(val, n)
    PROVE  LayoutOfUtf8(bytes, val)
<1> DEFINE ones == IF n = 1 THEN << >> ELSE [i \in 1..n |-> 1]
           head == Append(ones, 0)
           bits == [k \in 1..n |-> BitsOf(bytes[k], 8)]
           tails == [k \in 1..(n - 1) |-> SubSeq(bits[k + 1], 3, 8)]
           payload == SubSeq(bits[1], Len(head) + 1, 8) \o FlattenSeq(tails)
<1>0. h = IF n = 1 THEN 1 ELSE n + 1
  BY DEF Headed
<1>1. \A k \in 1..n : /\ bits[k] = BitsOf(bytes[k], 8)
                      /\ bits[k] \in Seq(Bits) /\ Len(bits[k]) = 8
                      /\ \A i \in 1..8 : bits[k][i] = Bit(bytes[k], 8 - i)
  <2>1. \A k \in 1..n : bytes[k] \in Nat
    OBVIOUS
  <2>2. QED
    BY <2>1, ByteOf
<1> HIDE DEF bits
<1>2. head \in Seq(Bits) /\ Len(head) = h /\ head[h] = 0 /\ \A i \in 1..(h - 1) : head[i] = 1
  <2>1. ones \in Seq(Bits) /\ Len(ones) = h - 1 /\ \A i \in 1..(h - 1) : ones[i] = 1
    <3>1. CASE n = 1
      BY <1>0, <3>1
    <3>2. CASE n # 1
      BY <1>0, <3>2 DEF Bits
    <3>3. QED
      BY <3>1, <3>2
  <2> HIDE DEF ones
  <2>2. 0 \in Bits
    BY DEF Bits
  <2>3. QED
    BY <2>1, <2>2
<1> HIDE DEF head
<1>3. SubSeq(bits[1], 1, Len(head)) = head
  <2>1. bits[1] \in Seq(Bits) /\ Len(bits[1]) = h + (8 - h) /\ h \in Nat /\ 8 - h \in Nat
    <3>1. 1 \in 1..n /\ 8 = h + (8 - h) /\ h \in Nat /\ 8 - h \in Nat
      OBVIOUS
    <3>2. QED
      BY <1>1, <3>1
  <2>2. FirstOf(SubSeq(bits[1], 1, h), bits[1], h, Bits)
    BY <2>1, FirstItems, Zenon
  <2>3. PICK f : f = SubSeq(bits[1], 1, h)
    OBVIOUS
  <2>4. f \in [1..h -> Bits] /\ head \in [1..h -> Bits]
    BY <1>2, <2>1, <2>2, <2>3, SeqOfLen DEF FirstOf
  <2>5. ASSUME NEW i \in 1..h PROVE f[i] = head[i]
    <3>1. f[i] = Bit(bytes[1], 8 - i)
      <4>1. 1 \in 1..n /\ i \in 1..8
        OBVIOUS
      <4>2. f[i] = bits[1][i]
        BY <2>2, <2>3 DEF FirstOf
      <4>3. QED
        BY <1>1, <4>1, <4>2
    <3>2. QED
      BY <1>2, <3>1 DEF Leads
  <2>6. f = head
    BY <2>4, <2>5
  <2>7. QED
    BY <1>2, <2>3, <2>6
<1>4. \A k \in 2..n : SubSeq(bits[k], 1, 2) = <<1, 0>>
  <2>1. SUFFICES ASSUME NEW k \in 2..n PROVE SubSeq(bits[k], 1, 2) = <<1, 0>>
    OBVIOUS
  <2>2. k \in 1..n
    OBVIOUS
  <2>3. bits[k] \in Seq(Bits) /\ Len(bits[k]) = 8 /\ bits[k][1] = 1 /\ bits[k][2] = 0
    <3>1. 8 - 1 = 7 /\ 8 - 2 = 6 /\ 1 \in 1..8 /\ 2 \in 1..8
      OBVIOUS
    <3>2. /\ bits[k] \in Seq(Bits) /\ Len(bits[k]) = 8
          /\ bits[k][1] = Bit(bytes[k], 7) /\ bits[k][2] = Bit(bytes[k], 6)
      BY <1>1, <2>2, <3>1
    <3>3. Bit(bytes[k], 7) = 1 /\ Bit(bytes[k], 6) = 0
      OBVIOUS
    <3>4. QED
      BY <3>2, <3>3
  <2>4. PICK t : t = SubSeq(bits[k], 1, 2)
    OBVIOUS
  <2>5. 2 \in Nat /\ 6 \in Nat /\ 8 = 2 + 6
    OBVIOUS
  <2>6. FirstOf(SubSeq(bits[k], 1, 2), bits[k], 2, Bits)
    BY <2>3, <2>5, FirstItems, Zenon
  <2>7. t \in [1..2 -> Bits] /\ t[1] = 1 /\ t[2] = 0
    BY <2>3, <2>4, <2>6 DEF FirstOf
  <2>8. t = <<1, 0>>
    BY <2>7
  <2>9. QED
    BY <2>4, <2>8
<1>5. tails \in Seq(Seq(Bits)) /\ Len(tails) = n - 1
  <2>1. ASSUME NEW k \in 1..(n - 1)
        PROVE  SubSeq(bits[k + 1], 3, 8) \in Seq(Bits)
    <3>1. k + 1 \in 1..n
      OBVIOUS
    <3>2. PICK b \in Seq(Bits) : b = bits[k + 1] /\ Len(b) = 8
      BY <1>1, <3>1
    <3>3. SubSeq(b, 3, 8) \in Seq(Bits)
      <4>1. 2 \in Nat /\ 6 \in Nat /\ Len(b) = 2 + 6
        BY <3>2
      <4>2. LastOf(SubSeq(b, 2 + 1, 2 + 6), b, 2, 6, Bits)
        BY <4>1, LastItems, Zenon
      <4>3. QED
        BY <4>2 DEF LastOf
    <3>4. QED
      BY <3>2, <3>3
  <2>2. QED
    BY <2>1
<1>6. ASSUME NEW k \in 1..(n - 1)
      PROVE  Len(tails[k]) = 6 /\ \A j \in 1..6 : tails[k][j] = Bit(bytes[k + 1], 6 - j)
  <2>1. k + 1 \in 1..n
    OBVIOUS
  <2>2. bits[k + 1] \in Seq(Bits) /\ Len(bits[k + 1]) = 2 + 6 /\ 2 \in Nat /\ 6 \in Nat
    BY <1>1, <2>1
  <2>3. LastOf(SubSeq(bits[k + 1], 2 + 1, 2 + 6), bits[k + 1], 2, 6, Bits)
    BY <2>2, LastItems, Zenon
  <2>4. tails[k] = SubSeq(bits[k + 1], 2 + 1, 2 + 6)
    OBVIOUS
  <2>5. LastOf(tails[k], bits[k + 1], 2, 6, Bits)
    BY <2>3, <2>4
  <2>6. \A j \in 1..6 : 2 + j \in 1..8 /\ 8 - (2 + j) = 6 - j
    OBVIOUS
  <2>7. QED
    BY <1>1, <2>1, <2>5, <2>6 DEF LastOf
<1> HIDE DEF tails
<1>7. Even(FlattenSeq(tails), tails, n - 1, 6, Bits)
  <2>1. n - 1 \in Nat /\ 6 \in Nat \ {0}
    OBVIOUS
  <2>2. QED
    BY <1>5, <1>6, <2>1, FlattenedEven, Zenon
<1>8. LastOf(SubSeq(bits[1], Len(head) + 1, 8), bits[1], h, 8 - h, Bits)
  <2>1. bits[1] \in Seq(Bits) /\ Len(bits[1]) = h + (8 - h) /\ h \in Nat /\ 8 - h \in Nat
    <3>1. 1 \in 1..n /\ 8 = h + (8 - h) /\ h \in Nat /\ 8 - h \in Nat
      OBVIOUS
    <3>2. QED
      BY <1>1, <3>1
  <2>2. LastOf(SubSeq(bits[1], h + 1, h + (8 - h)), bits[1], h, 8 - h, Bits)
    BY <2>1, LastItems, Zenon
  <2>3. h + (8 - h) = 8
    OBVIOUS
  <2>4. QED
    BY <1>2, <2>2, <2>3
<1>9. PICK a, z : a = SubSeq(bits[1], Len(head) + 1, 8) /\ z = FlattenSeq(tails)
  OBVIOUS
<1>10. PICK l \in Nat, m \in Nat : l = 8 - h /\ m = 6 * (n - 1)
  <2>1. 8 - h \in Nat /\ 6 * (n - 1) \in Nat
    OBVIOUS
  <2>2. QED
    BY <2>1
<1>11. Joins(payload, a, l, z, m, Bits)
  <2>1. a \in Seq(Bits) /\ Len(a) = l
    BY <1>8, <1>9, <1>10 DEF LastOf
  <2>2. z \in Seq(Bits) /\ Len(z) = m
    BY <1>7, <1>9, <1>10 DEF Even
  <2>3. payload = a \o z
    BY <1>9
  <2>4. QED
    BY <2>1, <2>2, <2>3, Joined, Zenon
<1> HIDE DEF payload
<1>12. payload \in Seq(Bits) /\ Len(payload) = l + m
  BY <1>11 DEF Joins
<1>13. ASSUME NEW p \in 1..(l + m)
       PROVE  payload[p] = Bit(val, l + m - p)
  <2>1. CASE p <= l
    <3>1. payload[p] = a[p]
      BY <1>11, <2>1 DEF Joins
    <3>2. a[p] = bits[1][h + p]
      <4>1. p \in 1..(8 - h)
        BY <1>10, <2>1
      <4>2. QED
        BY <1>8, <1>9, <4>1 DEF LastOf
    <3>3. bits[1][h + p] = Bit(bytes[1], 8 - (h + p))
      <4>1. 1 \in 1..n /\ h + p \in 1..8
        BY <1>10, <2>1
      <4>2. QED
        BY <1>1, <4>1
    <3>4. PICK x \in 0..(7 - h) : x = 8 - (h + p) /\ l + m - p = 6 * (n - 1) + x
      <4>1. 8 - (h + p) \in 0..(7 - h) /\ l + m - p = 6 * (n - 1) + (8 - (h + p))
        BY <1>10, <2>1
      <4>2. QED
        BY <4>1
    <3>5. Bit(val, 6 * (n - 1) + x) = Bit(bytes[1], x)
      BY DEF Carries
    <3>6. QED
      BY <3>1, <3>2, <3>3, <3>4, <3>5
  <2>2. CASE p > l
    <3>1. PICK r \in 1..(6 * (n - 1)) : p = l + r
      <4>1. p - l \in 1..(6 * (n - 1)) /\ p = l + (p - l)
        BY <1>10, <2>2
      <4>2. QED
        BY <4>1
    <3>2. 6 \in Nat \ {0} /\ n - 1 \in Nat
      OBVIOUS
    <3>3. PICK k \in 1..(n - 1), j \in 1..6 : r = 6 * (k - 1) + j
      BY <3>2, Grouped, Zenon
    <3>4. payload[l + r] = z[r]
      BY <1>10, <1>11 DEF Joins
    <3>5. z[6 * (k - 1) + j] = tails[k][j]
      BY <1>7, <1>9 DEF Even
    <3>6. tails[k][j] = Bit(bytes[k + 1], 6 - j)
      BY <1>6
    <3>7. PICK x \in 0..5 : x = 6 - j /\ l + m - p = 6 * (n - 1 - k) + x
      <4>1. 6 - j \in 0..5 /\ l + m - p = 6 * (n - 1 - k) + (6 - j)
        BY <1>10, <3>1, <3>3
      <4>2. QED
        BY <4>1
    <3>8. Bit(val, 6 * (n - 1 - k) + x) = Bit(bytes[k + 1], x)
      BY DEF Carries
    <3>9. QED
      BY <3>1, <3>3, <3>4, <3>5, <3>6, <3>7, <3>8
  <2>3. QED
    BY <2>1, <2>2
<1>14. payload = BitsOf(val, Len(payload))
  <2>1. l + m \in Nat
    OBVIOUS
  <2>2. payload \in [1..(l + m) -> Bits]
    BY <1>12, <2>1, SeqOfLen
  <2>3. payload = [i \in 1..(l + m) |-> Bit(val, l + m - i)]
    BY <1>13, <2>2
  <2>4. QED
    BY <1>12, <2>3 DEF BitsOf
<1>15. \A i \in 1..(n - 1) : val >= (IF i = 1 THEN 2 ^ 7 ELSE 2 ^ (5 * i + 1))
  <2>1. SUFFICES ASSUME NEW i \in 1..(n - 1)
                 PROVE  val >= (IF i = 1 THEN 2 ^ 7 ELSE 2 ^ (5 * i + 1))
    OBVIOUS
  <2>2. i = 1 \/ (i = 2 /\ 5 * i + 1 = 11) \/ (i = 3 /\ 5 * i + 1 = 16)
    OBVIOUS
  <2>3. CASE i = 1
    BY <2>3 DEF NoShorter
  <2>4. CASE i = 2 /\ 5 * i + 1 = 11
    BY <2>4 DEF NoShorter
  <2>5. CASE i = 3 /\ 5 * i + 1 = 16
    BY <2>5 DEF NoShorter
  <2>6. QED
    BY <2>2, <2>3, <2>4, <2>5
<1>16. OfLength(bytes, val, n)
  BY <1>3, <1>4, <1>14, <1>15, Zenon DEF OfLength, payload, tails, bits, head, ones
<1>17. OfLength(bytes, val, Len(bytes))
  BY <1>16
<1>18. QED
  BY <1>17, Zenon DEF OfLength, LayoutOfUtf8

\* The bytes of a code point are its character as RFC 3629 says: as long as it must be and
\* no longer, its length in the first byte, and the bits of the code point in order.
THEOREM Utf8Standard ==
    ASSUME NEW val \in CodePoints
    PROVE  /\ LayoutOfUtf8(utf8_encode(<<val>>), val)
           /\ IsUtf8(utf8_encode(<<val>>)) <=> ScalarValue(val)
<1>1. utf8_encode(<<val>>) = Character(val)
  <2>2. Character(val) \in Seq(Int)
    BY CharacterIs
  <2>3. PICK s : s = <<Character(val)>>
    OBVIOUS
  <2>4. s \in Seq(Seq(Int)) /\ Len(s) = 1 /\ s[1] = Character(val)
    BY <2>2, <2>3
  <2>5. PICK flat : Flat(flat, s, 1, Int) /\ FlattenSeq(s) = flat[1]
    <3>1. 1 \in Nat
      OBVIOUS
    <3>2. QED
      BY <2>4, <3>1, FlatOf, Zenon
  <2>6. flat[1] = Character(val)
    <3>1. flat[0] = << >> /\ flat[1] = flat[0] \o s[1]
      <4>1. 1 \in 1..1 /\ 1 - 1 = 0
        OBVIOUS
      <4>2. flat[0] = << >> /\ \A k \in 1..1 : flat[k] = flat[k - 1] \o s[k]
        BY <2>5 DEF Flat
      <4>3. QED
        BY <4>1, <4>2
    <3>2. PICK c \in Seq(Int) : c = Character(val)
      BY <2>2
    <3>3. << >> \o c = c
      OBVIOUS
    <3>4. QED
      BY <2>4, <3>1, <3>2, <3>3
  <2>7. [k \in DOMAIN <<val>> |-> Character(<<val>>[k])] = s
    BY <2>3
  <2>8. QED
    BY <2>5, <2>6, <2>7 DEF utf8_encode
<1>6. val \in Nat
  BY Highest
<1>2. PICK v1 \in Nat, v2 \in Nat, v3 \in 0..7 :
        v1 = val \div 64 /\ v2 = v1 \div 64 /\ v3 = v2 \div 64
  BY Highest, Sextet
<1>3. PICK x0 \in 0..63, x1 \in 0..63, x2 \in 0..63 :
        x0 = val % 64 /\ x1 = v1 % 64 /\ x2 = v2 % 64
  <2>1. val % 64 \in 0..63 /\ v1 % 64 \in 0..63 /\ v2 % 64 \in 0..63
    BY <1>2, <1>6, Sextet
  <2>2. QED
    BY <2>1
<1>4. val = 64 * v1 + x0 /\ v1 = 64 * v2 + x1 /\ v2 = 64 * v3 + x2
  BY <1>2, <1>3, <1>6
<1>5. Character(val) = IF val < 128 THEN <<val>>
                       ELSE IF v1 < 32 THEN <<192 + v1, 128 + x0>>
                       ELSE IF v2 < 16 THEN <<224 + v2, 128 + x1, 128 + x0>>
                       ELSE <<240 + v3, 128 + x2, 128 + x1, 128 + x0>>
  <2>1. v3 % 16 = v3
    OBVIOUS
  <2>2. QED
    BY <1>2, <1>3, <2>1 DEF Character
\* the bits of val, in its parts
<1>7. \A x \in 0..14 : /\ Bit(v1, x) = Bit(val, x + 6) /\ Bit(v2, x) = Bit(v1, x + 6)
                       /\ Bit(v3, x) = Bit(v2, x + 6)
  BY <1>2, <1>6, ShiftedBits
<1>8. \A x \in 0..5 : /\ Bit(128 + x0, x) = Bit(val, x) /\ Bit(128 + x1, x) = Bit(val, x + 6)
                      /\ Bit(128 + x2, x) = Bit(val, x + 12)
  <2>1. \A x \in 0..5 : /\ Bit(128 + x0, x) = Bit(val, x) /\ Bit(128 + x1, x) = Bit(v1, x)
                        /\ Bit(128 + x2, x) = Bit(v2, x)
    BY <1>3, <1>6, LowestBits
  <2>2. \A x \in 0..5 : x \in 0..14 /\ x + 6 \in 0..14 /\ (x + 6) + 6 = x + 12
    OBVIOUS
  <2>3. QED
    BY <1>7, <2>1, <2>2
<1>9. /\ Bit(128 + x0, 7) = 1 /\ Bit(128 + x0, 6) = 0
      /\ Bit(128 + x1, 7) = 1 /\ Bit(128 + x1, 6) = 0
      /\ Bit(128 + x2, 7) = 1 /\ Bit(128 + x2, 6) = 0
  BY <1>3, <1>6, LowestBits
<1>10. /\ \A x \in 0..4 : Bit(val, x + 6) = Bit(v1, x)
       /\ \A x \in 0..3 : Bit(val, x + 12) = Bit(v2, x)
       /\ \A x \in 0..2 : Bit(val, x + 18) = Bit(v3, x)
  <2>1. \A x \in 0..4 : x \in 0..14
    OBVIOUS
  <2>2. \A x \in 0..3 : x \in 0..14 /\ x + 6 \in 0..14 /\ (x + 6) + 6 = x + 12
    OBVIOUS
  <2>3. \A x \in 0..2 : x \in 0..14 /\ x + 6 \in 0..14 /\ x + 12 \in 0..14
                        /\ (x + 6) + 6 = x + 12 /\ (x + 12) + 6 = x + 18
    OBVIOUS
  <2>4. QED
    BY <1>7, <2>1, <2>2, <2>3
<1>11. CASE val < 128
  <2>1. PICK b : b = <<val>>
    OBVIOUS
  <2>2. Character(val) = b
    BY <1>5, <1>11, <2>1
  <2>3. b \in Seq(Nat) /\ Len(b) = 1 /\ b[1] = val
    BY <1>6, <2>1
  <2>4. val \in 0..127
    BY <1>6, <1>11
  <2>5. LeadsTo(b[1], 1, val)
    BY <2>3, <2>4, LeadBits
  <2>6. Carries(b, 1, 1, val)
    BY <2>3 DEF Carries
  <2>7. \A k \in 2..1 : Bit(b[k], 7) = 1 /\ Bit(b[k], 6) = 0
    OBVIOUS
  <2>8. NoShorter(val, 1)
    BY DEF NoShorter
  <2>9. 1 \in 1..4 /\ 1 \in 1..5
    OBVIOUS
  <2>10. Leads(b[1], 1)
    BY <2>5 DEF LeadsTo
  <2>11. LayoutOfUtf8(b, val)
    <3>1. b \in Seq(Nat) /\ Len(b) = 1 /\ Headed(1, 1)
      BY <2>3, Heads
    <3>2. QED
      BY <1>6, <2>6, <2>7, <2>8, <2>9, <2>10, <3>1, Utf8Shape, Zenon
  <2>12. IsUtf8(b) <=> ScalarValue(val)
    BY <2>3, <2>4, SMT DEF IsUtf8, ScalarValue
  <2>13. QED
    BY <1>1, <2>2, <2>11, <2>12
<1>12. CASE ~(val < 128) /\ v1 < 32
  <2>1. PICK b : b = <<192 + v1, 128 + x0>>
    OBVIOUS
  <2>2. Character(val) = b
    BY <1>5, <1>12, <2>1
  <2>3. b \in Seq(Nat) /\ Len(b) = 2 /\ b[1] = 192 + v1 /\ b[2] = 128 + x0
    BY <1>6, <2>1
  <2>4. v1 \in 0..31
    BY <1>6, <1>12
  <2>5. LeadsTo(b[1], 3, v1)
    BY <2>3, <2>4, LeadBits
  <2>6. Carries(b, 2, 3, val)
    <3>1. ASSUME NEW x \in 0..(7 - 3) PROVE Bit(val, 6 * (2 - 1) + x) = Bit(b[1], x)
      <4>1. 6 * (2 - 1) + x = x + 6 /\ x \in 0..4
        OBVIOUS
      <4>2. Bit(val, x + 6) = Bit(v1, x)
        BY <1>10, <4>1
      <4>3. Bit(b[1], x) = Bit(v1, x)
        BY <2>5 DEF LeadsTo
      <4>4. QED
        BY <4>1, <4>2, <4>3
    <3>2. ASSUME NEW k \in 1..(2 - 1), NEW x \in 0..5
          PROVE  Bit(val, 6 * (2 - 1 - k) + x) = Bit(b[k + 1], x)
      <4>1. CASE k = 1
        <5>1. k + 1 = 2 /\ 6 * (2 - 1 - k) + x = x
          BY <4>1
        <5>2. Bit(128 + x0, x) = Bit(val, x)
          BY <1>8
        <5>3. b[2] = 128 + x0
          BY <2>3
        <5>4. QED
          BY <5>1, <5>2, <5>3
      <4>2. QED
        BY <4>1
    <3>3. QED
      BY <3>1, <3>2 DEF Carries
  <2>7. \A k \in 2..2 : Bit(b[k], 7) = 1 /\ Bit(b[k], 6) = 0
    <3>1. \A k \in 2..2 : k = 2
      OBVIOUS
    <3>2. QED
      BY <1>9, <2>3, <3>1
  <2>8. NoShorter(val, 2)
    <3>1. val >= 128
      BY <1>4, <1>6, <1>12, SMT
    <3>2. val >= 2 ^ 7
      BY <3>1, PowersAre, MorePowersAre, SMT DEF Powers, MorePowers
    <3>3. QED
      BY <3>2 DEF NoShorter
  <2>9. 2 \in 1..4 /\ 3 \in 1..5
    OBVIOUS
  <2>10. Leads(b[1], 3)
    BY <2>5 DEF LeadsTo
  <2>11. LayoutOfUtf8(b, val)
    <3>1. b \in Seq(Nat) /\ Len(b) = 2 /\ Headed(2, 3)
      BY <2>3, Heads
    <3>2. QED
      BY <1>6, <2>6, <2>7, <2>8, <2>9, <2>10, <3>1, Utf8Shape, Zenon
  <2>12. IsUtf8(b) <=> ScalarValue(val)
    <3>1. \A k \in 2..2 : 128 <= b[k] /\ b[k] <= 191
      <4>1. \A k \in 2..2 : k = 2
        OBVIOUS
      <4>2. QED
        BY <2>3, <4>1
    <3>2. IsUtf8(b) <=> v1 >= 2
      BY <2>3, <2>4, <3>1, SMT DEF IsUtf8
    <3>3. QED
      BY <1>4, <1>6, <1>12, <2>4, <3>2, SMT DEF ScalarValue
  <2>13. QED
    BY <1>1, <2>2, <2>11, <2>12
<1>13. CASE ~(val < 128) /\ ~(v1 < 32) /\ v2 < 16
  <2>1. PICK b : b = <<224 + v2, 128 + x1, 128 + x0>>
    OBVIOUS
  <2>2. Character(val) = b
    BY <1>5, <1>13, <2>1
  <2>3. b \in Seq(Nat) /\ Len(b) = 3 /\ b[1] = 224 + v2 /\ b[2] = 128 + x1 /\ b[3] = 128 + x0
    BY <1>6, <2>1
  <2>4. v2 \in 0..15
    BY <1>6, <1>13
  <2>5. LeadsTo(b[1], 4, v2)
    BY <2>3, <2>4, LeadBits
  <2>6. Carries(b, 3, 4, val)
    <3>1. ASSUME NEW x \in 0..(7 - 4) PROVE Bit(val, 6 * (3 - 1) + x) = Bit(b[1], x)
      <4>1. 6 * (3 - 1) + x = x + 12 /\ x \in 0..3
        OBVIOUS
      <4>2. Bit(val, x + 12) = Bit(v2, x)
        BY <1>10, <4>1
      <4>3. Bit(b[1], x) = Bit(v2, x)
        BY <2>5 DEF LeadsTo
      <4>4. QED
        BY <4>1, <4>2, <4>3
    <3>2. ASSUME NEW k \in 1..(3 - 1), NEW x \in 0..5
          PROVE  Bit(val, 6 * (3 - 1 - k) + x) = Bit(b[k + 1], x)
      <4>1. CASE k = 1
        <5>1. k + 1 = 2 /\ 6 * (3 - 1 - k) + x = x + 6
          BY <4>1
        <5>2. Bit(128 + x1, x) = Bit(val, x + 6)
          BY <1>8
        <5>3. b[2] = 128 + x1
          BY <2>3
        <5>4. QED
          BY <5>1, <5>2, <5>3
      <4>2. CASE k = 2
        <5>1. k + 1 = 3 /\ 6 * (3 - 1 - k) + x = x
          BY <4>2
        <5>2. Bit(128 + x0, x) = Bit(val, x)
          BY <1>8
        <5>3. b[3] = 128 + x0
          BY <2>3
        <5>4. QED
          BY <5>1, <5>2, <5>3
      <4>3. QED
        BY <4>1, <4>2
    <3>3. QED
      BY <3>1, <3>2 DEF Carries
  <2>7. \A k \in 2..3 : Bit(b[k], 7) = 1 /\ Bit(b[k], 6) = 0
    <3>1. \A k \in 2..3 : k = 2 \/ k = 3
      OBVIOUS
    <3>2. QED
      BY <1>9, <2>3, <3>1
  <2>8. NoShorter(val, 3)
    <3>1. val >= 128 /\ val >= 2048
      BY <1>4, <1>6, <1>13, SMT
    <3>2. val >= 2 ^ 7 /\ val >= 2 ^ 11
      BY <3>1, PowersAre, MorePowersAre, SMT DEF Powers, MorePowers
    <3>3. QED
      BY <3>2 DEF NoShorter
  <2>9. 3 \in 1..4 /\ 4 \in 1..5
    OBVIOUS
  <2>10. Leads(b[1], 4)
    BY <2>5 DEF LeadsTo
  <2>11. LayoutOfUtf8(b, val)
    <3>1. b \in Seq(Nat) /\ Len(b) = 3 /\ Headed(3, 4)
      BY <2>3, Heads
    <3>2. QED
      BY <1>6, <2>6, <2>7, <2>8, <2>9, <2>10, <3>1, Utf8Shape, Zenon
  <2>12. IsUtf8(b) <=> ScalarValue(val)
    <3>1. \A k \in 2..3 : 128 <= b[k] /\ b[k] <= 191
      <4>1. \A k \in 2..3 : k = 2 \/ k = 3
        OBVIOUS
      <4>2. 128 <= b[2] /\ b[2] <= 191 /\ 128 <= b[3] /\ b[3] <= 191
        BY <2>3
      <4>3. QED
        BY <4>1, <4>2
    <3>2. IsUtf8(b) <=> (v2 = 0 => x1 >= 32) /\ (v2 = 13 => x1 <= 31)
      BY <2>3, <2>4, <3>1, SMT DEF IsUtf8
    <3>3. QED
      BY <1>4, <1>6, <1>13, <2>4, <3>2, SMT DEF ScalarValue
  <2>13. QED
    BY <1>1, <2>2, <2>11, <2>12
<1>14. CASE ~(val < 128) /\ ~(v1 < 32) /\ ~(v2 < 16)
  <2>1. PICK b : b = <<240 + v3, 128 + x2, 128 + x1, 128 + x0>>
    OBVIOUS
  <2>2. Character(val) = b
    BY <1>5, <1>14, <2>1
  <2>3. b \in Seq(Nat) /\ Len(b) = 4 /\ b[1] = 240 + v3 /\ b[2] = 128 + x2 /\ b[3] = 128 + x1 /\ b[4] = 128 + x0
    BY <1>6, <2>1
  <2>4. v3 \in 0..7
    BY <1>6, <1>14
  <2>5. LeadsTo(b[1], 5, v3)
    BY <2>3, <2>4, LeadBits
  <2>6. Carries(b, 4, 5, val)
    <3>1. ASSUME NEW x \in 0..(7 - 5) PROVE Bit(val, 6 * (4 - 1) + x) = Bit(b[1], x)
      <4>1. 6 * (4 - 1) + x = x + 18 /\ x \in 0..2
        OBVIOUS
      <4>2. Bit(val, x + 18) = Bit(v3, x)
        BY <1>10, <4>1
      <4>3. Bit(b[1], x) = Bit(v3, x)
        BY <2>5 DEF LeadsTo
      <4>4. QED
        BY <4>1, <4>2, <4>3
    <3>2. ASSUME NEW k \in 1..(4 - 1), NEW x \in 0..5
          PROVE  Bit(val, 6 * (4 - 1 - k) + x) = Bit(b[k + 1], x)
      <4>1. CASE k = 1
        <5>1. k + 1 = 2 /\ 6 * (4 - 1 - k) + x = x + 12
          BY <4>1
        <5>2. Bit(128 + x2, x) = Bit(val, x + 12)
          BY <1>8
        <5>3. b[2] = 128 + x2
          BY <2>3
        <5>4. QED
          BY <5>1, <5>2, <5>3
      <4>2. CASE k = 2
        <5>1. k + 1 = 3 /\ 6 * (4 - 1 - k) + x = x + 6
          BY <4>2
        <5>2. Bit(128 + x1, x) = Bit(val, x + 6)
          BY <1>8
        <5>3. b[3] = 128 + x1
          BY <2>3
        <5>4. QED
          BY <5>1, <5>2, <5>3
      <4>3. CASE k = 3
        <5>1. k + 1 = 4 /\ 6 * (4 - 1 - k) + x = x
          BY <4>3
        <5>2. Bit(128 + x0, x) = Bit(val, x)
          BY <1>8
        <5>3. b[4] = 128 + x0
          BY <2>3
        <5>4. QED
          BY <5>1, <5>2, <5>3
      <4>4. QED
        BY <4>1, <4>2, <4>3
    <3>3. QED
      BY <3>1, <3>2 DEF Carries
  <2>7. \A k \in 2..4 : Bit(b[k], 7) = 1 /\ Bit(b[k], 6) = 0
    <3>1. \A k \in 2..4 : k = 2 \/ k = 3 \/ k = 4
      OBVIOUS
    <3>2. QED
      BY <1>9, <2>3, <3>1
  <2>8. NoShorter(val, 4)
    <3>1. val >= 128 /\ val >= 2048 /\ val >= 65536
      BY <1>4, <1>6, <1>14, SMT
    <3>2. val >= 2 ^ 7 /\ val >= 2 ^ 11 /\ val >= 2 ^ 16
      BY <3>1, PowersAre, MorePowersAre, SMT DEF Powers, MorePowers
    <3>3. QED
      BY <3>2 DEF NoShorter
  <2>9. 4 \in 1..4 /\ 5 \in 1..5
    OBVIOUS
  <2>10. Leads(b[1], 5)
    BY <2>5 DEF LeadsTo
  <2>11. LayoutOfUtf8(b, val)
    <3>1. b \in Seq(Nat) /\ Len(b) = 4 /\ Headed(4, 5)
      BY <2>3, Heads
    <3>2. QED
      BY <1>6, <2>6, <2>7, <2>8, <2>9, <2>10, <3>1, Utf8Shape, Zenon
  <2>12. IsUtf8(b) <=> ScalarValue(val)
    <3>1. \A k \in 2..4 : 128 <= b[k] /\ b[k] <= 191
      <4>1. \A k \in 2..4 : k = 2 \/ k = 3 \/ k = 4
        OBVIOUS
      <4>2. 128 <= b[2] /\ b[2] <= 191 /\ 128 <= b[3] /\ b[3] <= 191 /\ 128 <= b[4] /\ b[4] <= 191
        BY <2>3
      <4>3. QED
        BY <4>1, <4>2
    <3>2. IsUtf8(b) <=> v3 <= 4 /\ (v3 = 0 => x2 >= 16) /\ (v3 = 4 => x2 <= 15)
      BY <2>3, <2>4, <3>1, SMT DEF IsUtf8
    <3>3. QED
      BY <1>4, <1>6, <1>14, <2>4, <3>2, SMT DEF ScalarValue
  <2>13. QED
    BY <1>1, <2>2, <2>11, <2>12
<1>15. QED
  BY <1>11, <1>12, <1>13, <1>14
-----------------------------------------------------------------------------
(* Powers of two, and the bits of numbers *)

\* the powers of two up to n
Doubles(f, n) == f[0] = 1 /\ \A j \in 1..n : f[j] = 2 * f[j - 1]

LEMMA DoublesAre ==
    ASSUME NEW n \in Nat
    PROVE  \E f \in [0..n -> Nat] : Doubles(f, n)
<1> DEFINE step == [p \in (1..n) \X Nat |-> 2 * p[2]]
<1>1. step \in [(1..n) \X Nat -> Nat] /\ \A k \in 1..n, x \in Nat : step[<<k, x>>] = 2 * x
  OBVIOUS
<1> HIDE DEF step
<1>2. 1 \in Nat
  OBVIOUS
<1>3. PICK f \in [0..n -> Nat] : Follows(f, n, 1, step)
  BY <1>1, <1>2, Recursion
<1>4. \A j \in 1..n : f[j - 1] \in Nat
  <2>1. \A j \in 1..n : j - 1 \in 0..n
    OBVIOUS
  <2>2. QED
    BY <2>1
<1>5. QED
  BY <1>1, <1>3, <1>4 DEF Follows, Doubles

LEMMA DoublesSame ==
    ASSUME NEW n \in Nat, NEW f, Doubles(f, n), NEW g, Doubles(g, n)
    PROVE  \A j \in 0..n : f[j] = g[j]
<1> DEFINE R == {j \in 0..n : f[j] = g[j]}
<1>1. 0 \in R
  BY DEF Doubles
<1>2. ASSUME NEW j \in 1..n, j - 1 \in R
      PROVE  j \in R
  BY <1>2 DEF Doubles
<1> HIDE DEF R
<1>3. \A j \in 0..n : j \in R
  BY <1>1, <1>2, InductUpTo
<1>4. QED
  BY <1>3 DEF R

\* 1 << n, and what is twice of it
LEMMA PowersOf2 ==
    /\ PowerOf2 \in [Nat -> Nat] /\ PowerOf2[0] = 1
    /\ \A n \in Nat : PowerOf2[n + 1] = 2 * PowerOf2[n]
<1> DEFINE F(n) == CHOOSE f \in [0..n -> Nat] : Doubles(f, n)
           g == [n \in Nat |-> F(n)[n]]
           Is(h) == h = [n \in Nat |-> IF n = 0 THEN 1 ELSE 2 * h[n - 1]]
<1>1. \A n \in Nat : F(n) \in [0..n -> Nat] /\ Doubles(F(n), n)
  BY DoublesAre
<1> HIDE DEF F
<1>2. \A n \in Nat : g[n] \in Nat
  BY <1>1
<1>3. g[0] = 1
  BY <1>1 DEF Doubles
<1>4. ASSUME NEW n \in Nat \ {0}
      PROVE  g[n] = 2 * g[n - 1]
  <2>1. n - 1 \in Nat /\ n - 1 \in 0..(n - 1) /\ n \in 1..n
    OBVIOUS
  <2>2. Doubles(F(n), n - 1)
    <3>1. \A j \in 1..(n - 1) : j \in 1..n
      OBVIOUS
    <3>2. QED
      BY <1>1, <3>1 DEF Doubles
  <2>3. F(n)[n - 1] = F(n - 1)[n - 1]
    BY <1>1, <2>1, <2>2, DoublesSame
  <2>4. F(n)[n] = 2 * F(n)[n - 1]
    BY <1>1, <2>1 DEF Doubles
  <2>5. QED
    BY <2>1, <2>3, <2>4
<1>5. Is(g)
  <2> DEFINE h == g
  <2>1. h = [n \in Nat |-> h[n]]
    OBVIOUS
  <2>2. \A n \in Nat : h[n] = IF n = 0 THEN 1 ELSE 2 * h[n - 1]
    BY <1>3, <1>4
  <2> HIDE DEF h
  <2>3. Is(h)
    BY <2>1, <2>2
  <2>4. QED
    BY <2>3 DEF h
<1>6. PowerOf2 = CHOOSE h : Is(h)
  BY DEF PowerOf2
<1> HIDE DEF g, Is
<1>7. PICK h : h = PowerOf2 /\ Is(h)
  BY <1>5, <1>6
<1>8. h = [n \in Nat |-> h[n]] /\ h[0] = 1 /\ \A n \in Nat \ {0} : h[n] = 2 * h[n - 1]
  <2>1. 0 \in Nat
    OBVIOUS
  <2>2. QED
    BY <1>7, <2>1 DEF Is
<1>9. \A n \in Nat : h[n + 1] = 2 * h[n]
  <2> TAKE n \in Nat
  <2>1. n + 1 \in Nat \ {0} /\ (n + 1) - 1 = n
    OBVIOUS
  <2>2. QED
    BY <1>8, <2>1
<1>10. \A n \in Nat : h[n] \in Nat
  <2> DEFINE R == {n \in Nat : h[n] \in Nat}
  <2>1. 0 \in R
    BY <1>8
  <2>2. \A n \in Nat : n \in R => n + 1 \in R
    BY <1>9
  <2> HIDE DEF R
  <2>3. Nat \subseteq R
    BY <2>1, <2>2, Induct
  <2>4. QED
    BY <2>3 DEF R
<1>11. QED
  BY <1>7, <1>8, <1>9, <1>10

LEMMA TimesTwice ==
    ASSUME NEW x \in Nat, NEW y \in Nat, NEW z, z = 2 * y, NEW u, u = x * y, NEW w, w = 2 * u
    PROVE  w = x * z
OBVIOUS

LEMMA PowersAdd ==
    ASSUME NEW a \in Nat, NEW b \in Nat
    PROVE  PowerOf2[a + b] = PowerOf2[a] * PowerOf2[b]
<1> DEFINE R == {n \in Nat : PowerOf2[a + n] = PowerOf2[a] * PowerOf2[n]}
<1>1. 0 \in R
  BY PowersOf2
<1>2. ASSUME NEW n \in Nat, n \in R
      PROVE  n + 1 \in R
  <2>1. a + n \in Nat /\ a + (n + 1) = (a + n) + 1
    OBVIOUS
  <2>2. PowerOf2[a] \in Nat /\ PowerOf2[n] \in Nat
    BY PowersOf2
  <2>3. PowerOf2[n + 1] = 2 * PowerOf2[n]
    BY PowersOf2
  <2>4. PowerOf2[a + (n + 1)] = 2 * PowerOf2[a + n] /\ PowerOf2[a + n] = PowerOf2[a] * PowerOf2[n]
    BY <1>2, <2>1, PowersOf2
  <2>5. PowerOf2[a + (n + 1)] = PowerOf2[a] * PowerOf2[n + 1]
    BY <2>2, <2>3, <2>4, TimesTwice
  <2>6. n + 1 \in Nat
    OBVIOUS
  <2>7. QED
    BY <2>5, <2>6
<1> HIDE DEF R
<1>3. Nat \subseteq R
  BY <1>1, <1>2, Induct
<1>4. QED
  BY <1>3 DEF R

LEMMA PowersPositive == \A n \in Nat : PowerOf2[n] \in Nat \ {0}
<1> DEFINE R == {n \in Nat : PowerOf2[n] \in Nat \ {0}}
<1>1. 0 \in R
  BY PowersOf2
<1>2. \A n \in Nat : n \in R => n + 1 \in R
  BY PowersOf2
<1> HIDE DEF R
<1>3. Nat \subseteq R
  BY <1>1, <1>2, Induct
<1>4. QED
  BY <1>3 DEF R

LEMMA Power8 == PowerOf2[8] = 256
<1>1. PowerOf2[0 + 1] = 2 /\ PowerOf2[1 + 1] = 4 /\ PowerOf2[2 + 1] = 8 /\ PowerOf2[3 + 1] = 16
  BY PowersOf2
<1>2. PowerOf2[4] = 16
  BY <1>1
<1>3. PowerOf2[4 + 1] = 32 /\ PowerOf2[5 + 1] = 64 /\ PowerOf2[6 + 1] = 128 /\ PowerOf2[7 + 1] = 256
  BY <1>2, PowersOf2
<1>4. QED
  BY <1>3

\* A number divided by d, quotient and remainder.
LEMMA Division ==
    ASSUME NEW v \in Nat, NEW d \in Nat \ {0}
    PROVE  /\ v \div d \in Nat /\ v % d \in 0..(d - 1) /\ v % d \in Nat
           /\ v = (v \div d) * d + (v % d)
OBVIOUS

\* They are the only ones.
LEMMA DividedOnce ==
    ASSUME NEW d \in Nat \ {0}, NEW q \in Nat, NEW r \in 0..(d - 1), NEW v, v = q * d + r
    PROVE  v \in Nat /\ v \div d = q /\ v % d = r
<1>1. v \in Nat
  <2>1. q * d \in Nat
    OBVIOUS
  <2>2. QED
    BY <2>1
<1>2. PICK p \in Nat, x \in 0..(d - 1) : p = v \div d /\ x = v % d /\ v = p * d + x
  BY <1>1, Division
<1>3. x = r
  BY <1>2, ModUnique
<1>4. p * d = q * d
  <2>1. p * d \in Int /\ q * d \in Int
    OBVIOUS
  <2>2. QED
    BY <1>2, <1>3, <2>1
<1>5. p = q
  BY <1>4
<1>6. QED
  BY <1>1, <1>2, <1>3, <1>5

LEMMA DividedTwice ==
    ASSUME NEW v \in Nat, NEW a \in Nat \ {0}, NEW b \in Nat \ {0}, NEW c \in Nat \ {0}, c = a * b
    PROVE  (v \div a) \div b = v \div c
<1>1. PICK q \in Nat, r \in 0..(a - 1) : q = v \div a /\ v = q * a + r
  BY Division
<1>2. PICK p \in Nat, x \in 0..(b - 1) : p = q \div b /\ q = p * b + x
  BY Division
<1>3. v = p * c + (x * a + r)
  <2>1. q * a = (p * b) * a + x * a
    BY <1>2
  <2>2. (p * b) * a = p * c
    OBVIOUS
  <2>3. QED
    BY <1>1, <2>1, <2>2
<1>4. x * a + r \in 0..(c - 1)
  <2>1. x * a \in Nat /\ r \in Nat
    OBVIOUS
  <2>2. (x + 1) * a <= b * a
    OBVIOUS
  <2>3. (x + 1) * a = x * a + a
    OBVIOUS
  <2>4. QED
    BY <2>1, <2>2, <2>3
<1>5. v \div c = p
  BY <1>3, <1>4, DividedOnce
<1>6. QED
  BY <1>1, <1>2, <1>5

\* bit i of a number
NthBit(v, i) == (v \div PowerOf2[i]) % 2

LEMMA NthBitIs ==
    ASSUME NEW v \in Nat, NEW i \in Nat
    PROVE  NthBit(v, i) \in Bits /\ v \div PowerOf2[i] \in Nat /\ v % PowerOf2[i] \in Nat
           /\ v % PowerOf2[i] < PowerOf2[i]
<1>1. PICK p \in Nat \ {0} : p = PowerOf2[i]
  BY PowersPositive
<1>2. v \div p \in Nat /\ v % p \in Nat /\ v % p < p
  OBVIOUS
<1>3. (v \div p) % 2 \in {0, 1}
  BY <1>2
<1>4. QED
  BY <1>1, <1>2, <1>3 DEF NthBit, Bits

\* the bits above the lowest a
LEMMA BitsAbove ==
    ASSUME NEW v \in Nat, NEW a \in Nat, NEW i \in Nat
    PROVE  NthBit(v \div PowerOf2[a], i) = NthBit(v, a + i)
<1>1. PowerOf2[a] \in Nat \ {0} /\ PowerOf2[i] \in Nat \ {0} /\ PowerOf2[a + i] \in Nat \ {0}
  BY PowersPositive
<1>2. PowerOf2[a + i] = PowerOf2[a] * PowerOf2[i]
  BY PowersAdd
<1>3. (v \div PowerOf2[a]) \div PowerOf2[i] = v \div PowerOf2[a + i]
  BY <1>1, <1>2, DividedTwice
<1>4. QED
  BY <1>3 DEF NthBit

\* the lowest m
LEMMA BitsBelow ==
    ASSUME NEW v \in Nat, NEW m \in Nat, NEW i \in Nat, i < m
    PROVE  NthBit(v % PowerOf2[m], i) = NthBit(v, i)
<1>1. PICK k \in Nat : m = (i + 1) + k
  <2>1. m - (i + 1) \in Nat /\ m = (i + 1) + (m - (i + 1))
    OBVIOUS
  <2>2. QED
    BY <2>1
<1>2. PICK pm \in Nat \ {0} : pm = PowerOf2[m]
  BY PowersPositive
<1>3. PICK pi \in Nat \ {0} : pi = PowerOf2[i]
  BY PowersPositive
<1>4. PICK pk \in Nat \ {0} : pk = PowerOf2[k]
  BY PowersPositive
<1>5. pm = (2 * pi) * pk
  <2>1. PowerOf2[i + 1] = 2 * pi
    BY <1>3, PowersOf2
  <2>2. i + 1 \in Nat
    OBVIOUS
  <2>3. PowerOf2[m] = PowerOf2[i + 1] * PowerOf2[k]
    BY <1>1, <2>2, PowersAdd
  <2>4. QED
    BY <1>2, <1>4, <2>1, <2>3
<1>6. PICK q \in Nat, x \in Nat : x = v % pm /\ v = q * pm + x
  <2>1. v \div pm \in Nat /\ v % pm \in Nat /\ v = (v \div pm) * pm + (v % pm)
    BY Division
  <2>2. QED
    BY <2>1
<1>7. PICK y \in Nat, z \in 0..(pi - 1) : y = x \div pi /\ x = y * pi + z
  BY Division
<1>8. PICK t \in Nat : t = pk * q
  OBVIOUS
<1>9. v = (2 * t + y) * pi + z
  <2>1. q * pm = (2 * t) * pi
    BY <1>5, <1>8
  <2>2. (2 * t + y) * pi = (2 * t) * pi + y * pi
    OBVIOUS
  <2>3. QED
    BY <1>6, <1>7, <2>1, <2>2
<1>10. v \div pi = 2 * t + y
  <2>1. PICK n \in Nat : n = 2 * t + y
    OBVIOUS
  <2>2. v = n * pi + z
    BY <1>9, <2>1
  <2>3. v \div pi = n
    BY <2>2, DividedOnce
  <2>4. QED
    BY <2>1, <2>3
<1>11. (2 * t + y) % 2 = y % 2
  OBVIOUS
<1>12. QED
  BY <1>2, <1>3, <1>6, <1>7, <1>10, <1>11 DEF NthBit

\* those of a number with another above its s bits
LEMMA BitsJoined ==
    ASSUME NEW s \in Nat, NEW a \in Nat, a < PowerOf2[s], NEW b \in Nat
    PROVE  /\ a + b * PowerOf2[s] \in Nat
           /\ \A i \in Nat : i < s => NthBit(a + b * PowerOf2[s], i) = NthBit(a, i)
           /\ \A i \in Nat : NthBit(a + b * PowerOf2[s], s + i) = NthBit(b, i)
<1>1. PICK p \in Nat \ {0} : p = PowerOf2[s]
  BY PowersPositive
<1>2. PICK v : v = a + b * p
  OBVIOUS
<1>3. v = b * p + a /\ a \in 0..(p - 1)
  BY <1>1, <1>2
<1>4. v \in Nat /\ v \div p = b /\ v % p = a
  BY <1>3, DividedOnce
<1>5. \A i \in Nat : i < s => NthBit(v, i) = NthBit(a, i)
  BY <1>1, <1>4, BitsBelow
<1>6. \A i \in Nat : NthBit(v, s + i) = NthBit(b, i)
  BY <1>1, <1>4, BitsAbove
<1>7. QED
  BY <1>1, <1>2, <1>4, <1>5, <1>6

\* and how large it is
LEMMA JoinedBelow ==
    ASSUME NEW s \in Nat, NEW a \in Nat, a < PowerOf2[s],
           NEW t \in Nat, NEW b \in Nat, b < PowerOf2[t]
    PROVE  a + b * PowerOf2[s] < PowerOf2[s + t]
<1>1. PICK p \in Nat \ {0} : p = PowerOf2[s]
  BY PowersPositive
<1>2. PICK q \in Nat \ {0} : q = PowerOf2[t]
  BY PowersPositive
<1>3. PowerOf2[s + t] = p * q
  BY <1>1, <1>2, PowersAdd
<1>4. (b + 1) * p <= q * p
  BY <1>2
<1>5. (b + 1) * p = b * p + p /\ q * p = p * q /\ b * p \in Nat /\ p * q \in Nat
  OBVIOUS
<1>6. a + b * p < p * q
  BY <1>1, <1>4, <1>5
<1>7. QED
  BY <1>1, <1>3, <1>6

LEMMA PowersRise == \A a, b \in Nat : a <= b => PowerOf2[a] <= PowerOf2[b]
<1> SUFFICES ASSUME NEW a \in Nat, NEW b \in Nat, a <= b
             PROVE  PowerOf2[a] <= PowerOf2[b]
  OBVIOUS
<1>1. PICK k \in Nat : b = a + k
  <2>1. b - a \in Nat /\ b = a + (b - a)
    OBVIOUS
  <2>2. QED
    BY <2>1
<1>2. PICK p \in Nat \ {0} : p = PowerOf2[a]
  BY PowersPositive
<1>3. PICK q \in Nat \ {0} : q = PowerOf2[k]
  BY PowersPositive
<1>4. PowerOf2[b] = p * q
  BY <1>1, <1>2, <1>3, PowersAdd
<1>5. p * q >= p
  OBVIOUS
<1>6. QED
  BY <1>2, <1>4, <1>5

-----------------------------------------------------------------------------
(* The bit writer of buizel.h *)

LEMMA LowBitsAre ==
    ASSUME NEW v \in Nat, NEW width \in Nat
    PROVE  /\ LowBits(v, width) \in Seq(Bits) /\ Len(LowBits(v, width)) = width
           /\ \A i \in 1..width : LowBits(v, width)[i] = NthBit(v, i - 1)
<1>1. \A i \in 1..width : i - 1 \in Nat
  OBVIOUS
<1>2. \A i \in 1..width : NthBit(v, i - 1) \in Bits
  BY <1>1, NthBitIs
<1>3. LowBits(v, width) = [i \in 1..width |-> NthBit(v, i - 1)]
  BY DEF LowBits, NthBit
<1>4. QED
  BY <1>2, <1>3

\* bits, in order, are those of n bytes
BitsOfBytes(bits, bytes, n) ==
    /\ bits \in Seq(Bits) /\ Len(bits) = 8 * n
    /\ \A k \in 1..n : \A j \in 1..8 : bits[8 * (k - 1) + j] = NthBit(bytes[k], j - 1)

LEMMA BitsInAre ==
    ASSUME NEW bytes \in Seq(Octets), NEW n \in Nat, n = Len(bytes)
    PROVE  BitsOfBytes(BitsIn(bytes), bytes, n)
<1>1. 8 \in Nat /\ 8 \in Nat \ {0}
  OBVIOUS
<1>2. \A k \in 1..n : bytes[k] \in Nat
  BY OctetsAre
<1> DEFINE seqs == [k \in DOMAIN bytes |-> LowBits(bytes[k], 8)]
<1>3. DOMAIN bytes = 1..n
  BY OctetsAre
<1>4. \A k \in 1..n : /\ LowBits(bytes[k], 8) \in Seq(Bits) /\ Len(LowBits(bytes[k], 8)) = 8
                      /\ \A j \in 1..8 : LowBits(bytes[k], 8)[j] = NthBit(bytes[k], j - 1)
  BY <1>1, <1>2, LowBitsAre, Zenon
<1>5. seqs \in Seq(Seq(Bits)) /\ Len(seqs) = n
  <2>1. seqs = [k \in 1..n |-> LowBits(bytes[k], 8)]
    BY <1>3
  <2> HIDE DEF seqs
  <2>2. QED
    BY <1>4, <2>1
<1>6. \A k \in 1..n : seqs[k] = LowBits(bytes[k], 8)
  BY <1>3
<1>7. BitsIn(bytes) = FlattenSeq(seqs)
  BY DEF BitsIn
<1> HIDE DEF seqs
<1>8. \A k \in 1..n : Len(seqs[k]) = 8
  BY <1>4, <1>6
<1>9. Even(FlattenSeq(seqs), seqs, n, 8, Bits)
  BY <1>1, <1>5, <1>8, FlattenedEven, Zenon
<1>10. PICK bits : bits = BitsIn(bytes)
  OBVIOUS
<1>11. bits \in Seq(Bits) /\ Len(bits) = 8 * n
  BY <1>7, <1>9, <1>10 DEF Even
<1>12. ASSUME NEW k \in 1..n, NEW j \in 1..8
       PROVE  bits[8 * (k - 1) + j] = NthBit(bytes[k], j - 1)
  <2>1. bits[8 * (k - 1) + j] = seqs[k][j]
    BY <1>7, <1>9, <1>10 DEF Even
  <2>2. seqs[k][j] = NthBit(bytes[k], j - 1)
    BY <1>4, <1>6
  <2>3. QED
    BY <2>1, <2>2
<1>13. QED
  BY <1>10, <1>11, <1>12 DEF BitsOfBytes

\* The bytes, the last of them with so much space, have the first L bits of all, and zeros.
Filled(bytes, space, all, L) ==
    /\ bytes \in Seq(Octets) /\ space \in 0..7 /\ L \in Nat
    /\ L + space = 8 * Len(bytes)
    /\ bytes # << >> => bytes[Len(bytes)] < PowerOf2[8 - space]
    /\ \A k \in 1..Len(bytes) : \A j \in 1..8 :
          8 * (k - 1) + j <= L => all[8 * (k - 1) + j] = NthBit(bytes[k], j - 1)

LEMMA ByteBelow == \A x \in Nat : \A m \in 0..8 : x < PowerOf2[m] => x \in Octets
<1> SUFFICES ASSUME NEW x \in Nat, NEW m \in 0..8, x < PowerOf2[m] PROVE x \in Octets
  OBVIOUS
<1>1. m \in Nat /\ 8 \in Nat /\ m <= 8
  OBVIOUS
<1>2. PowerOf2[m] \in Nat /\ PowerOf2[m] <= PowerOf2[8]
  BY <1>1, PowersRise, PowersPositive
<1>3. QED
  BY <1>2, Power8 DEF Octets

FilledUp(bytes, space, all, L, n) == Filled(bytes, space, all, L) /\ Len(bytes) = n

\* the r bits of all behind the first L are the lowest of v
GoesOn(all, L, v, r) == \A i \in 1..r : all[L + i] = NthBit(v, i - 1)

\* The first bits of a value, into the space there is.
LEMMA FinishFills ==
    ASSUME NEW bytes, NEW space, NEW all, NEW L, Filled(bytes, space, all, L),
           NEW value \in Nat, NEW finish \in 1..space, NEW n, n = Len(bytes),
           GoesOn(all, L, value, finish),
           NEW new, new = [bytes EXCEPT ![n] = @ + (value % PowerOf2[finish]) * PowerOf2[8 - space]]
    PROVE  FilledUp(new, space - finish, all, L + finish, n)
<1>1. /\ bytes \in Seq(Octets) /\ space \in 1..7 /\ L \in Nat /\ n \in Nat
      /\ finish \in Nat /\ finish <= space
  BY DEF Filled
<1>2. L + space = 8 * n
  BY DEF Filled
<1>3. n \in 1..n /\ n >= 1
  BY <1>1, <1>2
<1>4. PICK s \in Nat : s = 8 - space
  BY <1>1
<1>5. L = 8 * (n - 1) + s
  BY <1>1, <1>2, <1>4
<1>6. PICK old \in Nat : old = bytes[n] /\ old < PowerOf2[s]
  <2>1. bytes[n] \in Nat /\ bytes # << >>
    BY <1>1, <1>3, OctetsAre
  <2>2. bytes[n] < PowerOf2[s]
    BY <1>4, <2>1 DEF Filled
  <2>3. QED
    BY <2>1, <2>2
<1>7. PICK x \in Nat : x = value % PowerOf2[finish] /\ x < PowerOf2[finish]
  BY <1>1, NthBitIs
<1>8. PICK sum \in Nat : sum = old + x * PowerOf2[s]
  BY <1>6, BitsJoined
<1>9. sum < PowerOf2[s + finish]
  BY <1>1, <1>6, <1>7, <1>8, JoinedBelow
<1>10. s + finish \in 0..8 /\ s + finish = 8 - (space - finish)
  BY <1>1, <1>4
<1>11. sum \in Octets
  BY <1>9, <1>10, ByteBelow
<1>12. new = [bytes EXCEPT ![n] = sum]
  BY <1>3, <1>4, <1>6, <1>7, <1>8
<1>13. /\ new \in Seq(Octets) /\ Len(new) = n /\ new[n] = sum
       /\ \A k \in 1..n : k # n => new[k] = bytes[k]
  BY <1>1, <1>3, <1>11, <1>12
<1>14. ASSUME NEW k \in 1..n, NEW j \in 1..8, 8 * (k - 1) + j <= L + finish
       PROVE  all[8 * (k - 1) + j] = NthBit(new[k], j - 1)
  <2>1. CASE k # n
    <3>1. 8 * (k - 1) + j <= L
      BY <1>1, <1>5, <2>1
    <3>2. all[8 * (k - 1) + j] = NthBit(bytes[k], j - 1)
      BY <3>1 DEF Filled
    <3>3. QED
      BY <1>13, <2>1, <3>2
  <2>2. CASE k = n /\ j <= s
    <3>1. 8 * (n - 1) + j <= L
      BY <1>1, <1>5, <2>2
    <3>2. all[8 * (n - 1) + j] = NthBit(old, j - 1)
      BY <1>3, <1>6, <3>1 DEF Filled
    <3>3. j - 1 \in Nat /\ j - 1 < s
      BY <2>2
    <3>4. NthBit(sum, j - 1) = NthBit(old, j - 1)
      BY <1>6, <1>8, <3>3, BitsJoined
    <3>5. QED
      BY <1>13, <2>2, <3>2, <3>4
  <2>3. CASE k = n /\ j > s
    <3>1. PICK i \in 1..finish : j = s + i
      <4>1. j - s \in 1..finish /\ j = s + (j - s)
        BY <1>1, <1>5, <2>3, <1>14
      <4>2. QED
        BY <4>1
    <3>2. i - 1 \in Nat /\ i - 1 < finish /\ j - 1 = s + (i - 1)
      BY <1>1, <3>1
    <3>3. NthBit(sum, s + (i - 1)) = NthBit(x, i - 1)
      BY <1>6, <1>8, <3>2, BitsJoined
    <3>4. NthBit(x, i - 1) = NthBit(value, i - 1)
      BY <1>1, <1>7, <3>2, BitsBelow
    <3>5. 8 * (n - 1) + j = L + i
      BY <1>1, <1>5, <3>1
    <3>6. all[8 * (n - 1) + j] = NthBit(value, i - 1)
      BY <3>5 DEF GoesOn
    <3>7. QED
      BY <1>13, <2>3, <3>2, <3>3, <3>4, <3>6
  <2>4. QED
    BY <1>1, <2>1, <2>2, <2>3
<1>15. (L + finish) + (space - finish) = 8 * n /\ space - finish \in 0..7 /\ L + finish \in Nat
  <2>1. (L + finish) + (space - finish) = L + space
    BY <1>1
  <2>2. space - finish \in 0..7
    BY <1>1
  <2>3. L + finish \in Nat
    BY <1>1
  <2>4. QED
    BY <1>2, <2>1, <2>2, <2>3, Zenon
<1>16. QED
  BY <1>9, <1>10, <1>13, <1>14, <1>15 DEF Filled, FilledUp

\* the byte b has the m bits of v from x on
HasBits(b, v, x, m) ==
    /\ b \in Octets /\ b < PowerOf2[m]
    /\ \A j \in 1..m : NthBit(b, j - 1) = NthBit(v, x + (j - 1))

LEMMA ByteFrom ==
    ASSUME NEW v \in Nat, NEW x \in Nat, NEW m \in 0..8
    PROVE  HasBits((v \div PowerOf2[x]) % PowerOf2[m], v, x, m)
<1> DEFINE b == (v \div PowerOf2[x]) % PowerOf2[m]
<1>1. m \in Nat
  OBVIOUS
<1>2. PICK w \in Nat : w = v \div PowerOf2[x]
  BY NthBitIs
<1>3. b \in Nat /\ b < PowerOf2[m]
  BY <1>1, <1>2, NthBitIs
<1>4. b \in Octets
  BY <1>3, ByteBelow
<1>5. \A j \in 1..m : NthBit(b, j - 1) = NthBit(v, x + (j - 1))
  <2> TAKE j \in 1..m
  <2>1. j - 1 \in Nat /\ j - 1 < m
    BY <1>1
  <2>2. NthBit(b, j - 1) = NthBit(w, j - 1)
    BY <1>1, <1>2, <2>1, BitsBelow
  <2>3. NthBit(w, j - 1) = NthBit(v, x + (j - 1))
    BY <1>2, <2>1, BitsAbove
  <2>4. QED
    BY <2>2, <2>3
<1> HIDE DEF b
<1>6. HasBits(b, v, x, m)
  BY <1>3, <1>4, <1>5 DEF HasBits
<1>7. QED
  BY <1>6 DEF b

LEMMA NotEmpty ==
    ASSUME NEW S, NEW s \in Seq(S), NEW n \in Nat, Len(s) = n, s # << >>
    PROVE  n \in 1..n
OBVIOUS

\* the full bytes of v, and what is left of it
Wholes(whole, full, v) ==
    /\ whole \in Seq(Octets) /\ Len(whole) = full
    /\ \A k \in 1..full : \A j \in 1..8 : NthBit(whole[k], j - 1) = NthBit(v, 8 * (k - 1) + (j - 1))
Leaves(rest, left, full, v) ==
    /\ rest \in Seq(Octets) /\ Len(rest) = IF left = 0 THEN 0 ELSE 1
    /\ left # 0 => /\ rest[1] < PowerOf2[left]
                   /\ \A j \in 1..left : NthBit(rest[1], j - 1) = NthBit(v, 8 * full + (j - 1))

LEMMA WholesAre ==
    ASSUME NEW v \in Nat, NEW full \in Nat,
           NEW whole, whole = [k \in 1..full |-> (v \div PowerOf2[8 * (k - 1)]) % 256]
    PROVE  Wholes(whole, full, v)
<1>1. ASSUME NEW k \in 1..full
      PROVE  /\ whole[k] \in Octets
             /\ \A j \in 1..8 : NthBit(whole[k], j - 1) = NthBit(v, 8 * (k - 1) + (j - 1))
  <2>1. PICK x \in Nat : x = 8 * (k - 1)
    OBVIOUS
  <2>2. PICK m \in 0..8 : m = 8
    OBVIOUS
  <2>3. PowerOf2[m] = 256
    BY <2>2, Power8
  <2>4. whole[k] = (v \div PowerOf2[x]) % PowerOf2[m]
    BY <2>1, <2>3
  <2>5. QED
    <3>1. HasBits(whole[k], v, x, m)
      BY <2>1, <2>2, <2>4, ByteFrom
    <3>2. QED
      BY <2>1, <2>2, <3>1 DEF HasBits
<1>2. DOMAIN whole = 1..full /\ whole = [k \in 1..full |-> whole[k]]
  OBVIOUS
<1>3. whole \in [1..full -> Octets]
  BY <1>1, <1>2
<1>4. QED
  BY <1>1, <1>3 DEF Wholes

LEMMA OneItem ==
    ASSUME NEW S, NEW b \in S
    PROVE  <<b>> \in Seq(S) /\ Len(<<b>>) = 1 /\ <<b>>[1] = b
OBVIOUS

LEMMA LeavesIs ==
    ASSUME NEW v \in Nat, NEW full \in Nat, NEW left \in 0..7, NEW x \in Nat, x = 8 * full,
           NEW b, b = (v \div PowerOf2[x]) % PowerOf2[left]
    PROVE  Leaves(IF left = 0 THEN << >> ELSE <<b>>, left, full, v)
<1>1. left \in 0..8
  OBVIOUS
<1>2. HasBits(b, v, x, left)
  BY <1>1, ByteFrom, Zenon
<1>3. /\ b \in Octets /\ b < PowerOf2[left]
      /\ \A j \in 1..left : NthBit(b, j - 1) = NthBit(v, x + (j - 1))
  BY <1>2 DEF HasBits
<1>4. <<b>> \in Seq(Octets) /\ Len(<<b>>) = 1 /\ <<b>>[1] = b
  BY <1>3, OneItem
<1>5. << >> \in Seq(Octets) /\ Len(<< >>) = 0
  OBVIOUS
<1>6. QED
  BY <1>3, <1>4, <1>5 DEF Leaves

\* how many bytes the rest takes, and the space that they leave
Ends(e, after, space, left) ==
    e = (IF left = 0 THEN 0 ELSE 1) /\ after = (IF left = 0 THEN space ELSE 8 - left)

\* and there is no more than one behind so many
FilledOn(bytes, space, all, L, n) == Filled(bytes, space, all, L) /\ Len(bytes) <= n + 1

\* The bytes that a value fills, and what is left of it, behind full bytes.
LEMMA RestFills ==
    ASSUME NEW bytes, NEW space, NEW all, NEW L, Filled(bytes, space, all, L),
           NEW v \in Nat, NEW r \in Nat, r > 0 => space = 0,
           GoesOn(all, L, v, r),
           NEW n, n = Len(bytes), NEW full \in Nat, NEW left \in 0..7, r = 8 * full + left,
           NEW whole, Wholes(whole, full, v), NEW rest, Leaves(rest, left, full, v),
           NEW e, NEW after, Ends(e, after, space, left),
           NEW both, Joins(both, bytes, n, whole, full, Octets),
           NEW new, Joins(new, both, n + full, rest, e, Octets)
    PROVE  FilledOn(new, after, all, L + r, n + full)
<1>1. bytes \in Seq(Octets) /\ space \in 0..7 /\ L \in Nat /\ n \in Nat /\ L + space = 8 * n
  BY DEF Filled
<1>2. /\ whole \in Seq(Octets) /\ Len(whole) = full
      /\ \A k \in 1..full : \A j \in 1..8 : NthBit(whole[k], j - 1) = NthBit(v, 8 * (k - 1) + (j - 1))
  BY DEF Wholes
<1>3. /\ rest \in Seq(Octets) /\ Len(rest) = e
      /\ left # 0 => /\ rest[1] < PowerOf2[left]
                     /\ \A j \in 1..left : NthBit(rest[1], j - 1) = NthBit(v, 8 * full + (j - 1))
  BY DEF Leaves, Ends
<1>4. /\ e \in Nat /\ e <= 1 /\ (left = 0 => e = 0) /\ (left # 0 => e = 1)
      /\ (left = 0 => after = space) /\ (left # 0 => after = 8 - left)
  BY DEF Ends
<1>10. PICK N \in Nat : N = n + full + e
  BY <1>1, <1>4
<1>11. new \in Seq(Octets) /\ Len(new) = N
  BY <1>10 DEF Joins
<1>12. \A k \in 1..n : new[k] = bytes[k]
  <2> TAKE k \in 1..n
  <2>1. k \in 1..(n + full)
    BY <1>1
  <2>2. QED
    BY <2>1 DEF Joins
<1>13. \A k \in 1..full : new[n + k] = whole[k]
  <2> TAKE k \in 1..full
  <2>1. n + k \in 1..(n + full)
    BY <1>1
  <2>2. QED
    BY <2>1 DEF Joins
<1>14. left # 0 => new[n + full + 1] = rest[1]
  <2>1. ASSUME left # 0 PROVE 1 \in 1..e
    BY <1>4, <2>1
  <2>2. QED
    BY <2>1 DEF Joins
<1>15. ASSUME NEW k \in 1..N, NEW j \in 1..8, 8 * (k - 1) + j <= L + r
       PROVE  all[8 * (k - 1) + j] = NthBit(new[k], j - 1)
  <2>1. CASE k \in 1..n
    <3>1. 8 * (k - 1) + j <= L
      <4>1. 8 * (k - 1) + j <= 8 * n
        BY <1>1, <2>1
      <4>2. CASE r > 0
        BY <1>1, <4>1, <4>2
      <4>3. CASE r = 0
        BY <1>1, <1>15, <4>3
      <4>4. QED
        BY <4>2, <4>3
    <3>2. QED
      BY <1>12, <2>1, <3>1 DEF Filled
  <2>2. CASE k > n
    <3>1. r > 0
      <4>1. k <= n + full + e
        BY <1>10
      <4>2. full + e > 0
        BY <1>1, <1>4, <2>2, <4>1
      <4>3. QED
        BY <1>4, <4>2
    <3>2. L = 8 * n
      BY <1>1, <3>1
    <3>3. PICK i \in Nat \ {0} : k = n + i
      <4>1. k - n \in Nat \ {0} /\ k = n + (k - n)
        BY <1>1, <2>2
      <4>2. QED
        BY <4>1
    <3>4. CASE i <= full
      <4>1. i \in 1..full
        BY <3>4
      <4>2. new[k] = whole[i]
        BY <1>13, <3>3, <4>1
      <4>3. PICK p : p = 8 * (i - 1) + j
        OBVIOUS
      <4>4. p \in 1..r /\ 8 * (k - 1) + j = L + p /\ p - 1 = 8 * (i - 1) + (j - 1)
        <5>1. p <= 8 * full /\ p >= 1 /\ p \in Nat
          BY <4>1, <4>3
        <5>2. 8 * (k - 1) + j = 8 * n + (8 * (i - 1) + j)
          BY <1>1, <3>3
        <5>3. p - 1 = 8 * (i - 1) + (j - 1)
          BY <3>3, <4>3
        <5>4. p \in 1..r
          BY <5>1
        <5>5. QED
          BY <3>2, <4>3, <5>2, <5>3, <5>4
      <4>5. NthBit(whole[i], j - 1) = NthBit(v, 8 * (i - 1) + (j - 1))
        BY <1>2, <4>1
      <4>6. all[L + p] = NthBit(v, p - 1)
        BY <4>4 DEF GoesOn
      <4>7. QED
        BY <4>2, <4>4, <4>5, <4>6
    <3>5. CASE i > full
      <4>1. i = full + 1 /\ e = 1
        <5>1. e = 0 \/ e = 1
          BY <1>4
        <5>2. n + i <= n + full + e
          BY <1>10, <3>3
        <5>3. QED
          BY <1>1, <3>3, <3>5, <5>1, <5>2
      <4>2. left # 0 /\ new[k] = rest[1]
        BY <1>1, <1>4, <1>14, <3>3, <4>1
      <4>3. j <= left
        BY <1>1, <1>15, <3>2, <3>3, <4>1
      <4>4. PICK p : p = 8 * full + j
        OBVIOUS
      <4>5. p \in 1..r /\ 8 * (k - 1) + j = L + p /\ p - 1 = 8 * full + (j - 1)
        BY <1>1, <3>2, <3>3, <4>1, <4>3, <4>4
      <4>6. NthBit(rest[1], j - 1) = NthBit(v, p - 1)
        BY <1>3, <4>2, <4>3, <4>5
      <4>7. all[L + p] = NthBit(v, p - 1)
        BY <4>5 DEF GoesOn
      <4>8. QED
        BY <4>2, <4>5, <4>6, <4>7
    <3>6. i <= full \/ i > full
      BY <3>3
    <3>7. QED
      BY <3>4, <3>5, <3>6
  <2>3. k \in 1..n \/ k > n
    BY <1>1, <1>10
  <2>4. QED
    BY <2>1, <2>2, <2>3
<1>16. after \in 0..7 /\ L + r \in Nat /\ (L + r) + after = 8 * N
  <2>1. CASE left # 0
    <3>1. r > 0 /\ e = 1 /\ after = 8 - left
      BY <1>4, <2>1
    <3>2. space = 0 /\ L = 8 * n /\ N = n + full + 1
      BY <1>1, <1>10, <3>1
    <3>3. QED
      BY <1>1, <2>1, <3>1, <3>2
  <2>2. CASE left = 0 /\ r > 0
    BY <1>1, <1>4, <1>10, <2>2
  <2>3. CASE left = 0 /\ r = 0
    BY <1>1, <1>4, <1>10, <2>3
  <2>4. left # 0 \/ (left = 0 /\ r > 0) \/ (left = 0 /\ r = 0)
    OBVIOUS
  <2>5. QED
    BY <2>1, <2>2, <2>3, <2>4
<1>17. new # << >> => new[N] < PowerOf2[8 - after]
  <2>1. CASE left # 0
    <3>1. new[n + full + 1] = rest[1] /\ rest[1] < PowerOf2[left]
      BY <1>3, <1>14, <2>1
    <3>2. N = n + full + 1
      BY <1>4, <1>10, <2>1
    <3>3. 8 - after = left
      BY <1>4, <2>1
    <3>4. QED
      BY <3>1, <3>2, <3>3
  <2>2. CASE left = 0 /\ r > 0
    <3>1. 8 - after = 8
      BY <1>4, <2>2
    <3>2. new # << >> => N \in 1..N
      BY <1>10, <1>11, NotEmpty
    <3>3. new # << >> => new[N] <= 255 /\ new[N] \in Nat
      BY <1>11, <3>2, OctetsAre
    <3>4. PowerOf2[8 - after] = 256
      BY <3>1, Power8
    <3>5. QED
      BY <3>3, <3>4
  <2>3. CASE r = 0
    <3>1. N = n /\ after = space
      BY <1>1, <1>4, <1>10, <2>3
    <3>2. new # << >> => n \in 1..n /\ bytes # << >>
      BY <1>1, <1>11, <3>1
    <3>3. QED
      BY <1>12, <3>1, <3>2 DEF Filled
  <2>4. left # 0 \/ (left = 0 /\ r > 0) \/ r = 0
    OBVIOUS
  <2>5. QED
    BY <2>1, <2>2, <2>3, <2>4
<1>18. N <= n + full + 1
  BY <1>1, <1>4, <1>10
<1>19. Filled(new, after, all, L + r)
  BY <1>11, <1>15, <1>16, <1>17 DEF Filled
<1>20. QED
  BY <1>11, <1>18, <1>19 DEF FilledOn

Writers == [ok : BOOLEAN, bytes : Seq(Octets), cap : Nat, space : 0..7, left : Nat]

\* a writer of the same bytes
SameBytes(x, w) == x.bytes = w.bytes /\ x.space = w.space /\ x.cap >= w.cap

LEMMA GrownIs ==
    ASSUME NEW w \in Writers, NEW full \in Nat, NEW x, x = Grown(w, full)
    PROVE  x \in Writers /\ SameBytes(x, w) /\ x.ok = (x.cap > Len(w.bytes) + full + 1)
<1> DEFINE need == Len(w.bytes) + full + 1
           n == w.left
           V == {y \in [ok : BOOLEAN, bytes : Seq(Octets), cap : Nat, space : 0..7, left : Int] :
                    SameBytes(y, w)}
           next(y) == Doubled(y, need)
           step == [p \in (1..n) \X V |-> next(p[2])]
           Is(h) == h = [d \in 0..n |-> IF d = 0 THEN w ELSE Doubled(h[d - 1], need)]
<1>1. PICK h0 : h0 = (CHOOSE g : Is(g)) /\ x = [h0[n] EXCEPT !.ok = h0[n].cap > need]
  BY DEF Grown
<1>2. n \in Nat /\ need \in Nat /\ w \in V
  BY DEF Writers, SameBytes
<1> HIDE DEF n, need
<1>3. ASSUME NEW y \in V
      PROVE  next(y) \in V /\ next(y).left >= y.left - 1
  <2>1. CASE y.cap > need
    BY <2>1 DEF Doubled
  <2>2. CASE ~(y.cap > need)
    <3>1. PICK c \in Nat : c = (IF y.cap = 0 THEN 16 ELSE y.cap * 2) /\ c >= y.cap
      OBVIOUS
    <3>2. next(y) = [y EXCEPT !.cap = c, !.left = y.left - 1]
      BY <2>2, <3>1 DEF Doubled
    <3> HIDE DEF next
    <3>3. y \in [ok : BOOLEAN, bytes : Seq(Octets), cap : Nat, space : 0..7, left : Int]
          /\ SameBytes(y, w)
      OBVIOUS
    <3>4. PICK l \in Int : l = y.left - 1
      BY <3>3
    <3>5. next(y) = [y EXCEPT !.cap = c, !.left = l]
      BY <3>2, <3>4
    <3>6. /\ next(y) \in [ok : BOOLEAN, bytes : Seq(Octets), cap : Nat, space : 0..7, left : Int]
          /\ next(y).cap = c /\ next(y).bytes = y.bytes /\ next(y).space = y.space
          /\ next(y).left = l
      BY <3>3, <3>5
    <3>7. next(y).cap >= w.cap
      <4>1. y.cap \in Nat /\ w.cap \in Nat /\ y.cap >= w.cap
        BY <3>3 DEF SameBytes, Writers
      <4>2. QED
        BY <3>1, <3>6, <4>1
    <3>8. QED
      BY <3>3, <3>4, <3>6, <3>7 DEF SameBytes
  <2>3. QED
    BY <2>1, <2>2
<1>4. ASSUME NEW h
      PROVE  Is(h) <=> (h = [d \in 0..n |-> h[d]] /\ h[0] = w /\ \A d \in 1..n : h[d] = next(h[d - 1]))
  <2>1. 0 \in 0..n /\ \A d \in 0..n : d = 0 \/ d \in 1..n
    BY <1>2
  <2>2. \A d \in 1..n : d \in 0..n /\ d # 0
    BY <1>2
  <2>3. QED
    BY <2>1, <2>2
<1> HIDE DEF Is
<1>5. step \in [(1..n) \X V -> V] /\ \A d \in 1..n, y \in V : step[<<d, y>>] = next(y)
  BY <1>3
<1> HIDE DEF step, next, V
<1>6. PICK f \in [0..n -> V] : Follows(f, n, w, step)
  BY <1>2, <1>5, Recursion
<1>7. \A d \in 1..n : d - 1 \in 0..n
  BY <1>2
<1>8. f = [d \in 0..n |-> f[d]] /\ f[0] = w /\ \A d \in 1..n : f[d] = next(f[d - 1])
  <2>1. \A d \in 1..n : f[d - 1] \in V
    BY <1>7
  <2>2. QED
    BY <1>5, <1>6, <2>1 DEF Follows
<1>9. Is(h0)
  BY <1>1, <1>4, <1>8
<1>10. Recurs(h0, n, w, step, V)
  BY <1>4, <1>5, <1>9 DEF Recurs
<1>11. h0 \in [0..n -> V]
  BY <1>2, <1>5, <1>10, RecursIs
<1> DEFINE R == {d \in 0..n : h0[d].left >= n - d}
<1>12. 0 \in R
  BY <1>2, <1>4, <1>9 DEF n, Writers
<1>13. ASSUME NEW d \in 1..n, d - 1 \in R
      PROVE  d \in R
  <2>1. h0[d - 1] \in V /\ h0[d] \in V /\ h0[d] = next(h0[d - 1])
    BY <1>4, <1>7, <1>9, <1>11
  <2>2. h0[d].left >= h0[d - 1].left - 1
    BY <1>3, <2>1
  <2>3. h0[d - 1].left >= n - (d - 1)
    BY <1>13
  <2>4. h0[d].left \in Int /\ h0[d - 1].left \in Int
    BY <2>1 DEF V
  <2>5. QED
    BY <1>2, <2>2, <2>3, <2>4
<1> HIDE DEF R
<1>14. \A d \in 0..n : d \in R
  BY <1>2, <1>12, <1>13, InductUpTo
<1>15. n \in 0..n
  BY <1>2
<1>16. h0[n] \in V /\ h0[n].left >= 0
  BY <1>2, <1>11, <1>14, <1>15 DEF R
<1>17. PICK y : y = h0[n]
  OBVIOUS
<1>18. y \in Writers /\ SameBytes(y, w) /\ x = [y EXCEPT !.ok = y.cap > need]
  BY <1>1, <1>16, <1>17 DEF V, Writers
<1>19. PICK b \in BOOLEAN : b = (y.cap > need)
  <2>1. (y.cap > need) \in BOOLEAN
    BY <1>2, <1>18 DEF Writers
  <2>2. QED
    BY <2>1
<1>20. x = [y EXCEPT !.ok = b]
  BY <1>18, <1>19
<1>21. x \in Writers /\ x.bytes = y.bytes /\ x.space = y.space /\ x.cap = y.cap /\ x.ok = b
  BY <1>18, <1>20 DEF Writers
<1>22. QED
  BY <1>18, <1>19, <1>21 DEF SameBytes, need

\* The writer has the first L bits of all, inside its capacity.
Holds(w, all, L) ==
    /\ w \in Writers /\ Filled(w.bytes, w.space, all, L)
    /\ Len(w.bytes) <= w.cap

\* so many more, and no byte more
Finished(f, w, all, L, finish) ==
    Holds(f, all, L + finish) /\ f.ok = w.ok /\ f.space = w.space - finish

LEMMA FinishHolds ==
    ASSUME NEW w, NEW all, NEW L, Holds(w, all, L), NEW value \in Nat, NEW finish \in 0..w.space,
           GoesOn(all, L, value, finish)
    PROVE  Finished(Finish(w, finish, value), w, all, L, finish)
<1> DEFINE f == Finish(w, finish, value)
<1>1. w \in Writers /\ Filled(w.bytes, w.space, all, L) /\ Len(w.bytes) <= w.cap
  BY DEF Holds
<1>2. w.space \in 0..7 /\ w.cap \in Nat /\ L \in Nat
  BY <1>1 DEF Writers, Filled
<1>3. CASE finish = 0
  BY <1>1, <1>2, <1>3 DEF Finish, Holds, Finished
<1>4. CASE finish # 0
  <2>1. finish \in 1..w.space
    BY <1>2, <1>4
  <2>2. PICK n : n = Len(w.bytes)
    OBVIOUS
  <2>3. PICK new : new = [w.bytes EXCEPT ![n] = @ + (value % PowerOf2[finish]) * PowerOf2[8 - w.space]]
    OBVIOUS
  <2>4. Filled(new, w.space - finish, all, L + finish) /\ Len(new) = n
    <3>1. FilledUp(new, w.space - finish, all, L + finish, n)
      BY <1>1, <2>1, <2>2, <2>3, FinishFills, Zenon
    <3>2. QED
      BY <3>1 DEF FilledUp
  <2>5. PICK s : s = w.space - finish
    OBVIOUS
  <2>6. f = [w EXCEPT !.bytes = new, !.space = s]
    BY <1>1, <1>4, <2>2, <2>3, <2>5 DEF Finish, Writers
  <2>7. new \in Seq(Octets) /\ s \in 0..7
    BY <2>4, <2>5 DEF Filled
  <2>8. /\ f \in Writers /\ f.bytes = new /\ f.space = s /\ f.cap = w.cap /\ f.ok = w.ok
    BY <1>1, <2>6, <2>7 DEF Writers
  <2>9. QED
    BY <1>1, <2>2, <2>4, <2>5, <2>8 DEF Holds, Finished
<1>5. QED
  BY <1>3, <1>4

\* what a write of so many bits leaves
Writes(x, all, L, nbits) ==
    IF x.ok THEN Holds(x, all, L + nbits) ELSE \E m \in 0..nbits : Holds(x, all, L + m)

\* what buizel_write leaves, its parts by name
WriteOut(finish, f, v, full, left, g) ==
    LET bytes == [k \in 1..full |-> (v \div PowerOf2[8 * (k - 1)]) % 256]
        rest == IF left = 0 THEN << >> ELSE <<(v \div PowerOf2[8 * full]) % PowerOf2[left]>>
    IN IF finish # 0 /\ f.space # 0 THEN f
       ELSE IF ~g.ok THEN g
       ELSE [g EXCEPT !.bytes = @ \o bytes \o rest, !.space = IF left = 0 THEN @ ELSE 8 - left]

LEMMA WriteKeeps ==
    ASSUME NEW w, NEW all, NEW L, Holds(w, all, L), w.ok, NEW nbits \in Nat, NEW value \in Nat,
           GoesOn(all, L, value, nbits)
    PROVE  Writes(buizel_write(w, nbits, value), all, L, nbits)
<1>1. w.space \in 0..7 /\ L \in Nat
  BY DEF Holds, Filled
<1>2. PICK finish \in Nat : /\ finish = Lesser(w.space, nbits) /\ finish <= w.space /\ finish <= nbits
                            /\ finish = w.space \/ finish = nbits
  BY <1>1 DEF Lesser
<1>3. PICK f : f = Finish(w, finish, value)
  OBVIOUS
<1>4. Holds(f, all, L + finish) /\ f.ok = w.ok /\ f.space = w.space - finish
  <2>1. finish \in 0..w.space
    BY <1>1, <1>2
  <2>2. GoesOn(all, L, value, finish)
    BY <1>2 DEF GoesOn
  <2>3. QED
    <3>1. Finished(f, w, all, L, finish)
      BY <1>3, <2>1, <2>2, FinishHolds, Zenon
    <3>2. QED
      BY <3>1 DEF Finished
<1>5. PICK r \in Nat : r = nbits - finish
  BY <1>2
<1>6. PICK v \in Nat : v = value \div PowerOf2[finish]
  BY <1>2, NthBitIs
<1>7. PICK full \in Nat, left \in 0..7 : full = r \div 8 /\ left = r % 8 /\ r = 8 * full + left
  OBVIOUS
<1>8. PICK g : g = Grown(f, full)
  OBVIOUS
<1>9. f \in Writers
  BY <1>4 DEF Holds
<1>10. g \in Writers /\ SameBytes(g, f) /\ g.ok = (g.cap > Len(f.bytes) + full + 1)
  BY <1>8, <1>9, GrownIs
<1>11. PICK whole : whole = [k \in 1..full |-> (v \div PowerOf2[8 * (k - 1)]) % 256]
  OBVIOUS
<1>12. PICK b, x : x = 8 * full /\ b = (v \div PowerOf2[x]) % PowerOf2[left]
  OBVIOUS
<1>13. PICK rest : rest = IF left = 0 THEN << >> ELSE <<b>>
  OBVIOUS
<1>14. PICK new : new = (f.bytes \o whole) \o rest
  OBVIOUS
<1>15. PICK after : after = IF left = 0 THEN f.space ELSE 8 - left
  OBVIOUS
<1>16. PICK y : y = [g EXCEPT !.bytes = new, !.space = after]
  OBVIOUS
<1>17. buizel_write(w, nbits, value) =
         IF finish # 0 /\ f.space # 0 THEN f ELSE IF ~g.ok THEN g ELSE y
  <2>1. g.bytes = f.bytes /\ g.space = f.space
    BY <1>10 DEF SameBytes
  <2>2. y = [g EXCEPT !.bytes = (@ \o whole) \o rest, !.space = IF left = 0 THEN @ ELSE 8 - left]
    BY <1>10, <1>14, <1>15, <1>16, <2>1 DEF Writers
  <2>3. full = (nbits - finish) \div 8 /\ left = (nbits - finish) % 8
    BY <1>5, <1>7
  <2>4. rest = IF left = 0 THEN << >> ELSE <<(v \div PowerOf2[8 * full]) % PowerOf2[left]>>
    BY <1>12, <1>13
  <2>5. finish = Lesser(w.space, nbits)
    BY <1>2
  <2>6. QED
    <3>1. buizel_write(w, nbits, value) =
            WriteOut(Lesser(w.space, nbits), Finish(w, Lesser(w.space, nbits), value),
                     value \div PowerOf2[Lesser(w.space, nbits)],
                     (nbits - Lesser(w.space, nbits)) \div 8, (nbits - Lesser(w.space, nbits)) % 8,
                     Grown(Finish(w, Lesser(w.space, nbits), value),
                           (nbits - Lesser(w.space, nbits)) \div 8))
      BY DEF buizel_write, WriteOut
    <3>2. buizel_write(w, nbits, value) = WriteOut(finish, f, v, full, left, g)
      BY <1>3, <1>6, <1>8, <2>3, <2>5, <3>1
    <3>3. WriteOut(finish, f, v, full, left, g)
            = IF finish # 0 /\ f.space # 0 THEN f
              ELSE IF ~g.ok THEN g
              ELSE [g EXCEPT !.bytes = (@ \o whole) \o rest,
                             !.space = IF left = 0 THEN @ ELSE 8 - left]
      BY <1>11, <2>4 DEF WriteOut
    <3>4. QED
      BY <2>2, <3>2, <3>3
<1>18. CASE finish # 0 /\ f.space # 0
  <2>1. finish = nbits
    BY <1>1, <1>2, <1>4, <1>18
  <2>2. buizel_write(w, nbits, value) = f
    BY <1>17, <1>18
  <2>3. QED
    BY <1>4, <2>1, <2>2 DEF Writes
<1>19. CASE ~(finish # 0 /\ f.space # 0) /\ ~g.ok
  <2>1. Holds(g, all, L + finish)
    <3>1. g.cap \in Nat /\ f.cap \in Nat
      BY <1>9, <1>10 DEF Writers
    <3>2. Len(f.bytes) \in Nat
      BY <1>9, OctetsAre DEF Writers
    <3>3. QED
      BY <1>4, <1>10, <3>1, <3>2 DEF Holds, SameBytes
  <2>2. finish \in 0..nbits
    BY <1>2
  <2>3. buizel_write(w, nbits, value) = g
    BY <1>17, <1>19
  <2>4. QED
    BY <1>19, <2>1, <2>2, <2>3 DEF Writes
<1>20. CASE ~(finish # 0 /\ f.space # 0) /\ g.ok
  <2>1. r > 0 => f.space = 0
    BY <1>1, <1>2, <1>4, <1>5, <1>20
  <2>2. GoesOn(all, L + finish, v, r)
    <3> SUFFICES ASSUME NEW i \in 1..r
                 PROVE  all[(L + finish) + i] = NthBit(v, i - 1)
      BY DEF GoesOn
    <3>1. PICK p \in 1..nbits : p = finish + i
      BY <1>2, <1>5
    <3>2. (L + finish) + i = L + p /\ p - 1 = finish + (i - 1) /\ i - 1 \in Nat
      BY <1>1, <1>2, <3>1
    <3>3. PICK j \in Nat : j = i - 1
      BY <3>2
    <3>4. NthBit(v, j) = NthBit(value, finish + j)
      BY <1>6, BitsAbove
    <3>5. QED
      BY <3>1, <3>2, <3>3, <3>4 DEF GoesOn
  <2>3. Wholes(whole, full, v)
    BY <1>7, <1>11, WholesAre
  <2>4. Leaves(rest, left, full, v)
    <3>1. x \in Nat
      BY <1>7, <1>12
    <3>2. QED
      BY <1>7, <1>12, <1>13, <3>1, LeavesIs
  <2>5. PICK n : n = Len(f.bytes)
    OBVIOUS
  <2>6. PICK e : e = (IF left = 0 THEN 0 ELSE 1)
    OBVIOUS
  <2>7. f.bytes \in Seq(Octets) /\ n \in Nat
    BY <1>9, <2>5, OctetsAre DEF Writers
  <2>8. whole \in Seq(Octets) /\ Len(whole) = full /\ rest \in Seq(Octets) /\ Len(rest) = e
    BY <2>3, <2>4, <2>6 DEF Wholes, Leaves
  <2>9. PICK both : both = f.bytes \o whole
    OBVIOUS
  <2>10. Joins(both, f.bytes, n, whole, full, Octets)
    BY <1>7, <2>5, <2>7, <2>8, <2>9, Joined
  <2>11. both \in Seq(Octets) /\ Len(both) = n + full /\ n + full \in Nat /\ e \in Nat
    <3>1. both \in Seq(Octets) /\ Len(both) = n + full
      BY <2>10 DEF Joins
    <3>2. n + full \in Nat /\ e \in Nat
      BY <1>7, <2>6, <2>7
    <3>3. QED
      BY <3>1, <3>2
  <2>12. Joins(new, both, n + full, rest, e, Octets)
    BY <1>14, <2>8, <2>9, <2>11, Joined
  <2>13. Filled(f.bytes, f.space, all, L + finish)
    BY <1>4 DEF Holds
  <2>14. Filled(new, after, all, (L + finish) + r) /\ Len(new) <= n + full + 1
    <3>1. r = 8 * full + left /\ full \in Nat /\ left \in 0..7
      BY <1>7
    <3>2. Ends(e, after, f.space, left)
      BY <1>15, <2>6 DEF Ends
    <3>3. FilledOn(new, after, all, (L + finish) + r, n + full)
      BY <1>5, <1>6, <2>1, <2>2, <2>3, <2>4, <2>5, <2>10, <2>12, <2>13, <3>1, <3>2, RestFills, Zenon
    <3>4. QED
      BY <3>3 DEF FilledOn
  <2>15. (L + finish) + r = L + nbits
    BY <1>1, <1>2, <1>5
  <2>16. new \in Seq(Octets) /\ after \in 0..7 /\ Len(new) \in Nat
    BY <2>14, OctetsAre DEF Filled
  <2>17. y \in Writers /\ y.bytes = new /\ y.space = after /\ y.cap = g.cap /\ y.ok = g.ok
    BY <1>10, <1>16, <2>16 DEF Writers
  <2>18. Len(new) <= g.cap
    <3>1. g.cap \in Nat /\ g.cap > n + full + 1
      BY <1>10, <1>20, <2>5 DEF Writers
    <3>2. QED
      BY <1>7, <2>7, <2>14, <2>16, <3>1
  <2>19. Holds(y, all, L + nbits)
    BY <2>14, <2>15, <2>17, <2>18 DEF Holds
  <2>20. buizel_write(w, nbits, value) = y
    BY <1>17, <1>20
  <2>21. QED
    BY <1>20, <2>17, <2>19, <2>20 DEF Writes
<1>21. QED
  BY <1>18, <1>19, <1>20

\* the k-th write gives the bits of all behind at[k - 1]
Lays(at, m, all, writes) ==
    /\ all \in Seq(Bits) /\ at \in [0..m -> Nat] /\ at[0] = 0 /\ at[m] = Len(all)
    /\ \A k \in 1..m : /\ at[k] = at[k - 1] + writes[k].n
                       /\ GoesOn(all, at[k - 1], writes[k].value, writes[k].n)

LEMMA GivenBits ==
    ASSUME NEW writes \in Seq([n : Nat, value : Nat]), NEW m \in Nat, m = Len(writes)
    PROVE  \E at : Lays(at, m, BitsOfWrites(writes), writes)
<1> DEFINE seqs == [k \in DOMAIN writes |-> LowBits(writes[k].value, writes[k].n)]
<1>1. \A k \in 1..m : writes[k].n \in Nat /\ writes[k].value \in Nat
  <2>1. \A k \in 1..m : writes[k] \in [n : Nat, value : Nat]
    BY ItemsIn, Zenon
  <2>2. QED
    BY <2>1
<1>2. DOMAIN writes = 1..m
  OBVIOUS
<1>3. \A k \in 1..m : /\ seqs[k] \in Seq(Bits) /\ Len(seqs[k]) = writes[k].n
                      /\ \A i \in 1..writes[k].n : seqs[k][i] = NthBit(writes[k].value, i - 1)
  <2> TAKE k \in 1..m
  <2>1. PICK v \in Nat, n \in Nat : v = writes[k].value /\ n = writes[k].n
    BY <1>1
  <2>2. seqs[k] = LowBits(v, n)
    BY <1>2, <2>1
  <2> HIDE DEF seqs
  <2>3. /\ LowBits(v, n) \in Seq(Bits) /\ Len(LowBits(v, n)) = n
        /\ \A i \in 1..n : LowBits(v, n)[i] = NthBit(v, i - 1)
    BY LowBitsAre, Zenon
  <2>4. QED
    BY <2>1, <2>2, <2>3, Zenon
<1>4. seqs \in Seq(Seq(Bits)) /\ Len(seqs) = m
  <2>1. seqs = [k \in 1..m |-> seqs[k]]
    BY <1>2
  <2> HIDE DEF seqs
  <2>2. QED
    BY <1>3, <2>1
<1>5. BitsOfWrites(writes) = FlattenSeq(seqs)
  BY DEF BitsOfWrites
<1> HIDE DEF seqs
<1>6. PICK flat : Flat(flat, seqs, m, Bits) /\ FlattenSeq(seqs) = flat[m]
  BY <1>4, FlatOf, Zenon
<1>7. PICK all : all = flat[m]
  OBVIOUS
<1>8. \A k \in 1..m : InFlat(flat, seqs, m, k)
  BY <1>6, FlatAt, Zenon
<1>9. \A k \in 0..m : flat[k] \in Seq(Bits) /\ Len(flat[k]) \in Nat
  <2>1. \A k \in 0..m : flat[k] \in Seq(Bits)
    BY <1>6 DEF Flat
  <2>2. \A s \in Seq(Bits) : Len(s) \in Nat
    OBVIOUS
  <2>3. QED
    BY <2>1, <2>2
<1>10. PICK at : at = [k \in 0..m |-> Len(flat[k])]
  OBVIOUS
<1>11. at \in [0..m -> Nat] /\ \A k \in 0..m : at[k] = Len(flat[k])
  BY <1>9, <1>10
<1>12. at[0] = 0 /\ at[m] = Len(all) /\ all \in Seq(Bits)
  <2>1. 0 \in 0..m /\ m \in 0..m /\ Len(<< >>) = 0
    OBVIOUS
  <2>2. QED
    BY <1>6, <1>7, <1>9, <1>11, <2>1 DEF Flat
<1>13. ASSUME NEW k \in 1..m
       PROVE  at[k] = at[k - 1] + writes[k].n /\ GoesOn(all, at[k - 1], writes[k].value, writes[k].n)
  <2>1. k \in 0..m /\ k - 1 \in 0..m
    OBVIOUS
  <2>2. PICK l \in Nat : l = at[k - 1] /\ l = Len(flat[k - 1])
    BY <1>11, <2>1
  <2>3. At(all, l + 1, seqs[k]) /\ at[k] = l + Len(seqs[k])
    BY <1>7, <1>8, <1>11, <2>1, <2>2 DEF InFlat
  <2>4. \A i \in 1..writes[k].n : all[l + i] = NthBit(writes[k].value, i - 1)
    <3> TAKE i \in 1..writes[k].n
    <3>1. i \in 1..Len(seqs[k]) /\ i \in Nat
      BY <1>1, <1>3
    <3>2. all[(l + 1) + i - 1] = seqs[k][i]
      BY <2>3, <3>1 DEF At
    <3>3. (l + 1) + i - 1 = l + i
      BY <3>1
    <3>4. QED
      BY <1>3, <3>2, <3>3
  <2>5. QED
    BY <1>3, <2>2, <2>3, <2>4 DEF GoesOn
<1>14. Lays(at, m, all, writes)
  BY <1>11, <1>12, <1>13 DEF Lays
<1>15. QED
  BY <1>5, <1>6, <1>7, <1>14

\* A writer that has all bits so far, or failed and has some of them.
Kept(x, all, L) == IF x.ok THEN Holds(x, all, L) ELSE \E p \in 0..L : Holds(x, all, p)

LEMMA WriterHolds ==
    ASSUME NEW left \in Nat, NEW all
    PROVE  Kept(Writer(left), all, 0)
<1> DEFINE w == Writer(left)
<1>1. << >> \in Seq(Octets) /\ Len(<< >>) = 0 /\ ~(0 + 0 < 0)
  OBVIOUS
<1>2. w \in Writers /\ w.bytes = << >> /\ w.space = 0 /\ w.cap = 0 /\ w.ok
  BY <1>1 DEF Writer, Writers
<1> HIDE DEF w
<1>3. PICK bytes \in Seq(Octets) : bytes = << >> /\ Len(bytes) = 0
  BY <1>1
<1>4. Filled(bytes, 0, all, 0)
  BY <1>3 DEF Filled
<1>5. Holds(w, all, 0)
  BY <1>2, <1>3, <1>4 DEF Holds
<1>6. Kept(w, all, 0)
  BY <1>2, <1>5 DEF Kept
<1>7. QED
  BY <1>6 DEF w

\* One more write.
WriteNext(writes, k, w) == IF w.ok THEN buizel_write(w, writes[k].n, writes[k].value) ELSE w

LEMMA KeptNext ==
    ASSUME NEW writes, NEW k, writes[k].n \in Nat, writes[k].value \in Nat,
           NEW all, NEW L \in Nat, NEW w, Kept(w, all, L),
           GoesOn(all, L, writes[k].value, writes[k].n)
    PROVE  Kept(WriteNext(writes, k, w), all, L + writes[k].n)
<1>1. PICK n \in Nat, value \in Nat : n = writes[k].n /\ value = writes[k].value
  OBVIOUS
<1>2. CASE w.ok
  <2>1. Holds(w, all, L)
    BY <1>2 DEF Kept
  <2>2. PICK x : x = buizel_write(w, n, value)
    OBVIOUS
  <2>3. Writes(x, all, L, n)
    BY <1>1, <1>2, <2>1, <2>2, WriteKeeps, Zenon
  <2>4. Kept(x, all, L + n)
    <3>1. CASE x.ok
      BY <2>3, <3>1 DEF Writes, Kept
    <3>2. CASE ~x.ok
      <4>1. PICK p \in 0..n : Holds(x, all, L + p)
        BY <2>3, <3>2 DEF Writes
      <4>2. L + p \in 0..(L + n)
        OBVIOUS
      <4>3. QED
        BY <3>2, <4>1, <4>2 DEF Kept
    <3>3. QED
      BY <3>1, <3>2
  <2>5. QED
    BY <1>1, <1>2, <2>2, <2>4 DEF WriteNext
<1>3. CASE ~w.ok
  <2>1. PICK p \in 0..L : Holds(w, all, p)
    BY <1>3 DEF Kept
  <2>2. p \in 0..(L + n)
    OBVIOUS
  <2>3. QED
    BY <1>1, <1>3, <2>1, <2>2 DEF Kept, WriteNext
<1>4. QED
  BY <1>2, <1>3

\* A writer that was used write by write has all it was given, up to where it failed.
LEMMA WrittenKeeps ==
    ASSUME NEW left \in Nat, NEW writes \in Seq([n : Nat, value : Nat])
    PROVE  Kept(Written(writes, left), BitsOfWrites(writes), Len(BitsOfWrites(writes)))
<1> DEFINE m == Len(writes)
           all == BitsOfWrites(writes)
           Is(h) == h = [k \in 0..m |->
                           IF k = 0 THEN Writer(left)
                           ELSE LET w == h[k - 1]
                                IN IF w.ok THEN buizel_write(w, writes[k].n, writes[k].value) ELSE w]
<1>1. PICK h0 : h0 = (CHOOSE g : Is(g)) /\ Written(writes, left) = h0[m]
  BY DEF Written
<1>2. m \in Nat /\ \A k \in 1..m : writes[k].n \in Nat /\ writes[k].value \in Nat
  <2>1. m \in Nat /\ m = Len(writes)
    OBVIOUS
  <2>2. \A k \in 1..m : writes[k] \in [n : Nat, value : Nat]
    BY <2>1, ItemsIn, Zenon
  <2>3. QED
    BY <2>1, <2>2
<1>3. PICK at : Lays(at, m, all, writes)
  BY GivenBits
<1> HIDE DEF m, all
<1>4. ASSUME NEW h
      PROVE  Is(h) <=> (/\ h = [k \in 0..m |-> h[k]] /\ h[0] = Writer(left)
                        /\ \A k \in 1..m : h[k] = WriteNext(writes, k, h[k - 1]))
  <2>1. 0 \in 0..m /\ \A k \in 0..m : k = 0 \/ k \in 1..m
    BY <1>2
  <2>2. \A k \in 1..m : k \in 0..m /\ k # 0
    BY <1>2
  <2>3. QED
    BY <2>1, <2>2 DEF WriteNext
<1> HIDE DEF Is
<1> DEFINE V == [k \in 0..m |-> {w \in Writers : Kept(w, all, at[k])}]
           step == [p \in (1..m) \X Writers |-> WriteNext(writes, p[1], p[2])]
<1>5. \A k \in 1..m : \A w \in Writers : step[<<k, w>>] = WriteNext(writes, k, w)
  OBVIOUS
<1>6. \A k \in 0..m : \A w : w \in V[k] <=> w \in Writers /\ Kept(w, all, at[k])
  OBVIOUS
<1>7. \A w, L : Kept(w, all, L) => w \in Writers
  BY DEF Kept, Holds
<1>8. \A k \in 1..m : k \in 0..m /\ k - 1 \in 0..m
  BY <1>2
<1>9. at[0] = 0 /\ at[m] = Len(all) /\ \A k \in 0..m : at[k] \in Nat
  BY <1>3 DEF Lays
<1> HIDE DEF V, step
<1>10. ASSUME NEW k \in 1..m, NEW w \in V[k - 1]
       PROVE  WriteNext(writes, k, w) \in V[k] /\ step[<<k, w>>] = WriteNext(writes, k, w)
  <2>1. w \in Writers /\ Kept(w, all, at[k - 1])
    BY <1>6, <1>8
  <2>2. GoesOn(all, at[k - 1], writes[k].value, writes[k].n) /\ at[k] = at[k - 1] + writes[k].n
    BY <1>3 DEF Lays
  <2>3. PICK L \in Nat : L = at[k - 1]
    BY <1>8, <1>9
  <2>4. Kept(WriteNext(writes, k, w), all, L + writes[k].n)
    BY <1>2, <2>1, <2>2, <2>3, KeptNext, Zenon
  <2>5. QED
    BY <1>5, <1>6, <1>7, <1>8, <2>1, <2>2, <2>3, <2>4
<1>11. Carry(step, m, V)
  BY <1>10 DEF Carry
<1>12. PICK first : first = Writer(left)
  OBVIOUS
<1>13. first \in V[0]
  <2>1. Kept(first, all, 0)
    BY <1>12, WriterHolds
  <2>2. 0 \in 0..m
    BY <1>2
  <2>3. QED
    BY <1>6, <1>7, <1>9, <2>1, <2>2
<1>14. PICK f : f = [k \in 0..m |-> f[k]] /\ RecursIn(f, m, first, step, V)
  BY <1>2, <1>11, <1>13, RecursionIn, Zenon
<1>15. \A k \in 0..m : f[k] \in V[k]
  BY <1>2, <1>11, <1>13, <1>14, RecursInIs, Zenon
<1>16. Is(f)
  <2>1. \A k \in 1..m : f[k] = WriteNext(writes, k, f[k - 1])
    BY <1>8, <1>10, <1>14, <1>15 DEF RecursIn
  <2>2. QED
    BY <1>4, <1>12, <1>14, <2>1 DEF RecursIn
<1>17. Is(h0)
  BY <1>1, <1>16
<1>18. RecursIn(h0, m, first, step, V)
  BY <1>4, <1>10, <1>12, <1>17 DEF RecursIn
<1>19. h0[m] \in V[m]
  <2>1. \A k \in 0..m : h0[k] \in V[k]
    BY <1>2, <1>11, <1>13, <1>18, RecursInIs, Zenon
  <2>2. QED
    BY <1>2, <2>1
<1>20. QED
  <2>1. m \in 0..m
    BY <1>2
  <2>2. Kept(Written(writes, left), all, Len(all))
    BY <1>1, <1>6, <1>9, <1>19, <2>1
  <2>3. QED
    BY <2>2 DEF all

\* What the writer wrote, of all that it was given.
LEMMA HoldsBits ==
    ASSUME NEW w, NEW all \in Seq(Bits), NEW L, Holds(w, all, L), NEW M \in Nat, M = Len(all), L <= M
    PROVE  IsPrefix(BitsWritten(w), all) /\ (L = M => BitsWritten(w) = all)
<1>1. Filled(w.bytes, w.space, all, L)
  BY DEF Holds
<1>2. PICK bytes \in Seq(Octets) : bytes = w.bytes
  BY <1>1 DEF Filled
<1>3. PICK n \in Nat : n = Len(bytes)
  BY OctetsAre
<1>4. PICK space \in 0..7 : space = w.space
  BY <1>1 DEF Filled
<1>5. L \in Nat /\ L + space = 8 * n
  BY <1>1, <1>2, <1>3, <1>4 DEF Filled
<1>6. PICK bits : bits = BitsIn(bytes)
  OBVIOUS
<1>7. BitsOfBytes(bits, bytes, n)
  BY <1>3, <1>6, BitsInAre
<1>8. bits \in Seq(Bits) /\ Len(bits) = L + space
  BY <1>5, <1>7 DEF BitsOfBytes
<1>9. buizel_right(w) = L
  <2>1. buizel_right(w) = n * 8 - space
    BY <1>2, <1>3, <1>4 DEF buizel_right
  <2>2. QED
    BY <1>5, <2>1
<1>10. PICK s : s = SubSeq(bits, 1, L)
  OBVIOUS
<1>11. BitsWritten(w) = s
  BY <1>2, <1>6, <1>9, <1>10 DEF BitsWritten
<1>12. s \in [1..L -> Bits] /\ \A i \in 1..L : s[i] = bits[i]
  <2>1. space \in Nat
    OBVIOUS
  <2>2. FirstOf(s, bits, L, Bits)
    BY <1>5, <1>8, <1>10, <2>1, FirstItems
  <2>3. QED
    BY <2>2 DEF FirstOf
<1>13. s \in Seq(Bits) /\ Len(s) = L
  BY <1>5, <1>12
<1>14. ASSUME NEW i \in 1..L
       PROVE  s[i] = all[i]
  <2>1. 8 \in Nat \ {0} /\ i \in 1..(8 * n)
    BY <1>4, <1>5
  <2>2. PICK k \in 1..n, j \in 1..8 : i = 8 * (k - 1) + j
    BY <1>3, <2>1, Grouped
  <2>3. bits[i] = NthBit(bytes[k], j - 1)
    BY <1>7, <2>2 DEF BitsOfBytes
  <2>4. all[i] = NthBit(bytes[k], j - 1)
    <3>1. k \in 1..Len(w.bytes) /\ 8 * (k - 1) + j <= L
      BY <1>2, <1>3, <1>5, <2>2
    <3>2. QED
      BY <1>1, <1>2, <2>2, <3>1 DEF Filled
  <2>5. QED
    BY <1>12, <2>3, <2>4
<1>15. QED
  BY <1>5, <1>11, <1>13, <1>14, PrefixIs

\* The first half of BitsKept.
MadeKept(w, writes) ==
    /\ Len(w.bytes) <= w.cap
    /\ IF w.ok THEN BitsWritten(w) = BitsOfWrites(writes)
       ELSE IsPrefix(BitsWritten(w), BitsOfWrites(writes))

LEMMA BitsMade ==
    ASSUME NEW left \in Nat, NEW writes \in Seq([n : Nat, value : Nat]),
           NEW w, w = Written(writes, left)
    PROVE  MadeKept(w, writes) /\ w.bytes \in Seq(Octets)
<1>1. PICK all : all = BitsOfWrites(writes)
  OBVIOUS
<1>2. PICK M : M = Len(all)
  OBVIOUS
<1>3. all \in Seq(Bits)
  <2>1. Len(writes) \in Nat
    OBVIOUS
  <2>2. PICK at : Lays(at, Len(writes), all, writes)
    BY <1>1, <2>1, GivenBits
  <2>3. QED
    BY <2>2 DEF Lays
<1>4. M \in Nat
  BY <1>2, <1>3
<1>5. Kept(w, all, M)
  BY <1>1, <1>2, WrittenKeeps
<1>6. PICK L \in 0..M : Holds(w, all, L) /\ (w.ok => L = M)
  <2>1. M \in 0..M
    BY <1>4
  <2>2. QED
    BY <1>5, <2>1 DEF Kept
<1>7. IsPrefix(BitsWritten(w), all) /\ (L = M => BitsWritten(w) = all)
  <2>1. L <= M
    BY <1>4
  <2>2. QED
    BY <1>2, <1>3, <1>4, <1>6, <2>1, HoldsBits
<1>8. QED
  BY <1>1, <1>6, <1>7 DEF MadeKept, Holds, Filled

-----------------------------------------------------------------------------
(* The bit reader of buizel.h *)

\* A reader whose next bit is the one of all behind the first pos.
ReadsAt(at, has, acc, all, len, pos) ==
    /\ at \in 0..len /\ has \in 0..7 /\ acc \in Nat /\ pos \in Nat
    /\ pos + has = 8 * at /\ acc < PowerOf2[has] /\ GoesOn(all, pos, acc, has)

Chunks == [at : Nat, has : Nat, acc : Nat, val : Nat, actual : Nat]

\* In a read of n bits behind the first pos: c has so many of them, up to the end of a byte
\* or all.
ReadUpTo(c, all, len, pos, n) ==
    /\ c \in Chunks /\ c.at <= len /\ c.val < PowerOf2[c.actual]
    /\ GoesOn(all, pos, c.val, c.actual)
    /\ c.actual < n => pos + c.actual = 8 * c.at
    /\ c.actual >= n => c.actual = n /\ ReadsAt(c.at, c.has, c.acc, all, len, pos + n)

\* all are the bits of src
BitsOfSource(all, src, len) == src \in Seq(Octets) /\ Len(src) = len /\ BitsOfBytes(all, src, len)

\* The bits of a byte, the lowest of them for the value and the others kept.
LEMMA ByteSplit ==
    ASSUME NEW b \in Octets, NEW take \in 1..8, NEW all, NEW p \in Nat, GoesOn(all, p, b, 8)
    PROVE  /\ b % PowerOf2[take] \in Nat /\ b % PowerOf2[take] < PowerOf2[take]
           /\ GoesOn(all, p, b % PowerOf2[take], take)
           /\ b \div PowerOf2[take] \in Nat /\ b \div PowerOf2[take] < PowerOf2[8 - take]
           /\ GoesOn(all, p + take, b \div PowerOf2[take], 8 - take)
<1>1. b \in Nat /\ take \in Nat /\ 8 - take \in Nat /\ take + (8 - take) = 8 /\ b < 256
  BY DEF Octets
<1>2. /\ b % PowerOf2[take] \in Nat /\ b % PowerOf2[take] < PowerOf2[take]
      /\ b \div PowerOf2[take] \in Nat
  BY <1>1, NthBitIs
<1>3. GoesOn(all, p, b % PowerOf2[take], take)
  <2> SUFFICES ASSUME NEW i \in 1..take
               PROVE  all[p + i] = NthBit(b % PowerOf2[take], i - 1)
    BY DEF GoesOn
  <2>1. PICK j \in Nat : j = i - 1 /\ j < take
    BY <1>1
  <2>2. NthBit(b % PowerOf2[take], j) = NthBit(b, j)
    BY <1>1, <2>1, BitsBelow
  <2>3. i \in 1..8
    BY <1>1
  <2>4. QED
    BY <2>1, <2>2, <2>3 DEF GoesOn
<1>4. GoesOn(all, p + take, b \div PowerOf2[take], 8 - take)
  <2> SUFFICES ASSUME NEW i \in 1..(8 - take)
               PROVE  all[(p + take) + i] = NthBit(b \div PowerOf2[take], i - 1)
    BY DEF GoesOn
  <2>1. PICK j \in Nat : j = i - 1
    OBVIOUS
  <2>2. NthBit(b \div PowerOf2[take], j) = NthBit(b, take + j)
    BY <1>1, BitsAbove
  <2>3. PICK k \in 1..8 : k = take + i
    BY <1>1
  <2>4. (p + take) + i = p + k /\ k - 1 = take + j
    BY <1>1, <2>1, <2>3
  <2>5. QED
    BY <2>1, <2>2, <2>3, <2>4 DEF GoesOn
<1>5. b \div PowerOf2[take] < PowerOf2[8 - take]
  <2>1. PICK x \in Nat \ {0}, y \in Nat \ {0} : x = PowerOf2[take] /\ y = PowerOf2[8 - take]
    BY <1>1, PowersPositive
  <2>2. y * x = 256
    <3>1. PowerOf2[take + (8 - take)] = x * y
      BY <1>1, <2>1, PowersAdd, Zenon
    <3>2. x * y = y * x
      BY <2>1
    <3>3. QED
      BY <1>1, <3>1, <3>2, Power8
  <2>3. PICK q \in Nat, r \in 0..(x - 1) : q = b \div x /\ b = q * x + r
    <3>1. /\ b \div x \in Nat /\ b % x \in 0..(x - 1) /\ b = (b \div x) * x + (b % x)
      BY <1>1, Division, Zenon
    <3>2. QED
      BY <3>1
  <2>4. q < y
    <3>1. SUFFICES ASSUME q >= y PROVE FALSE
      OBVIOUS
    <3>2. PICK d \in Nat : q = y + d
      <4>1. q - y \in Nat /\ q = y + (q - y)
        BY <3>1
      <4>2. QED
        BY <4>1
    <3>3. q * x = y * x + d * x /\ d * x \in Nat
      BY <3>2
    <3>4. QED
      BY <1>1, <2>2, <2>3, <3>3
  <2>5. QED
    BY <2>1, <2>3, <2>4
<1>6. QED
  BY <1>2, <1>3, <1>4, <1>5

\* the bits of y are s bits of v and then those of x
BothBits(y, v, s, x) ==
    /\ y \in Nat
    /\ \A i \in Nat : i < s => NthBit(y, i) = NthBit(v, i)
    /\ \A i \in Nat : NthBit(y, s + i) = NthBit(x, i)
LEMMA JoinedAs ==
    ASSUME NEW s \in Nat, NEW v \in Nat, v < PowerOf2[s], NEW x \in Nat,
           NEW y, y = v + x * PowerOf2[s]
    PROVE  BothBits(y, v, s, x)
<1>1. PICK z : z = v + x * PowerOf2[s]
  OBVIOUS
<1>2. y = z
  BY <1>1
<1>3. QED
  BY <1>1, <1>2, BitsJoined DEF BothBits

\* The bits of the value and those of a byte, in their places.
LEMMA GoesFurther ==
    ASSUME NEW all, NEW p \in Nat, NEW s \in Nat, NEW v \in Nat, v < PowerOf2[s], GoesOn(all, p, v, s),
           NEW t \in Nat, NEW x \in Nat, x < PowerOf2[t], GoesOn(all, p + s, x, t),
           NEW y, y = v + x * PowerOf2[s]
    PROVE  y \in Nat /\ y < PowerOf2[s + t] /\ GoesOn(all, p, y, s + t)
<1>1. /\ y \in Nat
      /\ \A i \in Nat : i < s => NthBit(y, i) = NthBit(v, i)
      /\ \A i \in Nat : NthBit(y, s + i) = NthBit(x, i)
  <2>1. BothBits(y, v, s, x)
    BY JoinedAs, Zenon
  <2>2. QED
    BY <2>1 DEF BothBits
<1>2. y < PowerOf2[s + t]
  BY JoinedBelow
<1>3. GoesOn(all, p, y, s + t)
  <2> SUFFICES ASSUME NEW i \in 1..(s + t)
               PROVE  all[p + i] = NthBit(y, i - 1)
    BY DEF GoesOn
  <2>1. CASE i <= s
    <3>1. i \in 1..s /\ i - 1 \in Nat /\ i - 1 < s
      BY <2>1
    <3>2. QED
      BY <1>1, <3>1 DEF GoesOn
  <2>2. CASE ~(i <= s)
    <3>1. PICK j \in 1..t : j = i - s
      BY <2>2
    <3>2. PICK k \in Nat : k = j - 1
      OBVIOUS
    <3>3. p + i = (p + s) + j /\ i - 1 = s + k
      BY <3>1, <3>2
    <3>4. all[(p + s) + j] = NthBit(x, k)
      BY <3>2 DEF GoesOn
    <3>5. NthBit(y, s + k) = NthBit(x, k)
      BY <1>1
    <3>6. QED
      BY <3>3, <3>4, <3>5
  <2>3. QED
    BY <2>1, <2>2
<1>4. QED
  BY <1>1, <1>2, <1>3

\* the next turn goes on from c, by a byte if it is not done
TakesOn(d, c, all, len, pos, n) ==
    /\ ReadUpTo(d, all, len, pos, n)
    /\ d.actual >= n \/ (c.actual < n /\ d.at = c.at + 1) \/ c.at = len

LEMMA TakingOn ==
    ASSUME NEW src, NEW len \in Nat, NEW all, BitsOfSource(all, src, len), NEW pos \in Nat, NEW n \in Nat,
           NEW c, ReadUpTo(c, all, len, pos, n)
    PROVE  TakesOn(Taking(src, n, c), c, all, len, pos, n)
<1>1. PICK d : d = Taking(src, n, c)
  OBVIOUS
<1>2. /\ c.at \in Nat /\ c.has \in Nat /\ c.acc \in Nat /\ c.val \in Nat /\ c.actual \in Nat
      /\ c.at <= len
  BY DEF ReadUpTo, Chunks
<1>3. Len(src) = len
  BY DEF BitsOfSource
<1>4. CASE c.actual >= n \/ len <= c.at
  <2>1. d = c
    BY <1>1, <1>3, <1>4 DEF Taking
  <2>2. c.actual >= n \/ c.at = len
    BY <1>2, <1>4
  <2>3. QED
    BY <1>1, <2>1, <2>2 DEF TakesOn
<1>5. CASE ~(c.actual >= n \/ len <= c.at)
  <2>1. c.actual < n /\ c.at < len
    BY <1>2, <1>5
  <2>2. PICK k \in 1..len : k = c.at + 1
    BY <1>2, <2>1
  <2>3. PICK b \in Octets : b = src[k]
    <3>1. src \in Seq(Octets)
      BY DEF BitsOfSource
    <3>2. QED
      BY <1>3, <3>1, ItemsIn, Zenon
  <2>4. PICK take \in 1..8 : take = Lesser(n - c.actual, 8) /\ take <= n - c.actual
                             /\ (take = 8 \/ take = n - c.actual)
    BY <1>2, <2>1 DEF Lesser
  <2>5. PICK s \in Nat, v \in Nat : s = c.actual /\ v = c.val
    BY <1>2
  <2>6. v < PowerOf2[s] /\ GoesOn(all, pos, v, s) /\ pos + s = 8 * c.at
    BY <2>1, <2>5 DEF ReadUpTo
  <2>7. GoesOn(all, pos + s, b, 8)
    <3> SUFFICES ASSUME NEW i \in 1..8
                 PROVE  all[(pos + s) + i] = NthBit(b, i - 1)
      BY DEF GoesOn
    <3>1. (pos + s) + i = 8 * (k - 1) + i
      BY <1>2, <2>2, <2>6
    <3>2. all[8 * (k - 1) + i] = NthBit(src[k], i - 1)
      BY DEF BitsOfSource, BitsOfBytes
    <3>3. QED
      BY <2>3, <3>1, <3>2
  <2>8. PICK x \in Nat, acc \in Nat : x = b % PowerOf2[take] /\ acc = b \div PowerOf2[take]
    BY <2>7, ByteSplit
  <2>9. PICK p \in Nat : p = pos + s
    BY <2>5
  <2>10. /\ x < PowerOf2[take] /\ GoesOn(all, p, x, take)
         /\ acc < PowerOf2[8 - take] /\ GoesOn(all, p + take, acc, 8 - take)
    BY <2>7, <2>8, <2>9, ByteSplit
  <2>11. PICK y : y = v + x * PowerOf2[s]
    OBVIOUS
  <2>12. y \in Nat /\ y < PowerOf2[s + take] /\ GoesOn(all, pos, y, s + take)
    <3>1. take \in Nat
      OBVIOUS
    <3>2. GoesOn(all, pos + s, x, take)
      BY <2>9, <2>10
    <3>3. QED
      BY <2>5, <2>6, <2>8, <2>10, <2>11, <3>1, <3>2, GoesFurther, Zenon
  <2>13. PICK has \in 0..7 : has = 8 - take
    OBVIOUS
  <2>14. d = [at |-> k, has |-> has, acc |-> acc, val |-> y, actual |-> s + take]
    BY <1>1, <1>3, <1>5, <2>2, <2>3, <2>4, <2>5, <2>8, <2>11, <2>13 DEF Taking
  <2>15. d.at = k /\ d.has = has /\ d.acc = acc /\ d.val = y /\ d.actual = s + take /\ d \in Chunks
    BY <2>12, <2>14 DEF Chunks
  <2>16. ASSUME s + take < n
         PROVE  pos + (s + take) = 8 * k
    <3>1. take = 8
      BY <2>4, <2>5, <2>16
    <3>2. QED
      BY <1>2, <2>2, <2>5, <2>6, <3>1
  <2>17. ASSUME s + take >= n
         PROVE  s + take = n /\ ReadsAt(k, has, acc, all, len, pos + n)
    <3>1. s + take = n
      BY <2>4, <2>5, <2>17
    <3>2. pos + n = p + take /\ pos + n \in Nat
      BY <2>5, <2>9, <3>1
    <3>3. (pos + n) + has = 8 * k
      BY <1>2, <2>2, <2>6, <2>9, <2>13, <3>2
    <3>4. GoesOn(all, pos + n, acc, has) /\ acc < PowerOf2[has]
      BY <2>10, <2>13, <3>2
    <3>5. QED
      BY <3>1, <3>2, <3>3, <3>4 DEF ReadsAt
  <2>18. ReadUpTo(d, all, len, pos, n)
    BY <2>12, <2>15, <2>16, <2>17 DEF ReadUpTo
  <2>19. QED
    BY <1>1, <2>1, <2>2, <2>15, <2>18 DEF TakesOn
<1>6. QED
  BY <1>4, <1>5

\* A read that got its n bits.
ReadAll(c, all, len, pos, n) ==
    /\ c.actual = n /\ c.val \in Nat /\ c \in Chunks /\ GoesOn(all, pos, c.val, n)
    /\ ReadsAt(c.at, c.has, c.acc, all, len, pos + n)

\* after k turns: all bits, or those of k more bytes
Turns(c, all, len, pos, n, at) ==
    ReadUpTo(c, all, len, pos, n) /\ (c.actual >= n \/ c.at = at)

LEMMA TurnsOn ==
    ASSUME NEW src, NEW len \in Nat, NEW all, BitsOfSource(all, src, len), NEW pos \in Nat, NEW n \in Nat,
           pos + n <= 8 * len, NEW c, NEW at \in Nat, at < len, Turns(c, all, len, pos, n, at)
    PROVE  Turns(Taking(src, n, c), all, len, pos, n, at + 1)
<1>1. PICK d : d = Taking(src, n, c)
  OBVIOUS
<1>2. ReadUpTo(c, all, len, pos, n) /\ (c.actual >= n \/ c.at = at)
  BY DEF Turns
<1>3. TakesOn(d, c, all, len, pos, n)
  BY <1>1, <1>2, TakingOn, Zenon
<1>4. c.actual \in Nat /\ c.at \in Nat
  BY <1>2 DEF ReadUpTo, Chunks
<1>5. ReadUpTo(d, all, len, pos, n)
  BY <1>3 DEF TakesOn
<1>6. d.actual >= n \/ (c.actual < n /\ d.at = c.at + 1) \/ c.at = len
  BY <1>3 DEF TakesOn
<1>7. CASE c.actual >= n
  <2>1. d = c
    BY <1>1, <1>7 DEF Taking
  <2>2. QED
    BY <1>1, <1>5, <1>7, <2>1 DEF Turns
<1>8. CASE ~(c.actual >= n)
  <2>1. d.actual >= n \/ d.at = at + 1
    BY <1>2, <1>4, <1>6, <1>8
  <2>2. QED
    BY <1>1, <1>5, <2>1 DEF Turns
<1>9. QED
  BY <1>7, <1>8

LEMMA ReadTakes ==
    ASSUME NEW src, NEW len \in Nat, NEW all, BitsOfSource(all, src, len), NEW pos \in Nat, NEW n \in Nat,
           pos + n <= 8 * len, NEW r, ReadsAt(r.at, r.has, r.acc, all, len, pos), r.has < n
    PROVE  ReadAll(buizel_read(src, r, n), all, len, pos, n)
<1>1. PICK at \in Nat, m \in Nat : at = r.at /\ m = len - at
  <2>1. r.at \in 0..len
    BY DEF ReadsAt
  <2>2. QED
    BY <2>1
<1>2. Len(src) = len
  BY DEF BitsOfSource
<1>3. PICK has \in 0..7, acc \in Nat : has = r.has /\ acc = r.acc
  BY DEF ReadsAt
<1>4. PICK first : first = [at |-> r.at, has |-> r.has, acc |-> r.acc, val |-> r.acc, actual |-> r.has]
  OBVIOUS
<1> DEFINE Is(h) == h = [k \in 0..m |-> IF k = 0 THEN first ELSE Taking(src, n, h[k - 1])]
<1>5. PICK h0 : h0 = (CHOOSE g : Is(g)) /\ buizel_read(src, r, n) = h0[m]
  BY <1>1, <1>2, <1>4 DEF buizel_read
<1>6. ASSUME NEW h
      PROVE  Is(h) <=> (/\ h = [k \in 0..m |-> h[k]] /\ h[0] = first
                        /\ \A k \in 1..m : h[k] = Taking(src, n, h[k - 1]))
  <2>1. 0 \in 0..m /\ \A k \in 0..m : k = 0 \/ k \in 1..m
    OBVIOUS
  <2>2. \A k \in 1..m : k \in 0..m /\ k # 0
    OBVIOUS
  <2>3. QED
    BY <2>1, <2>2
<1> HIDE DEF Is
<1> DEFINE V == [k \in 0..m |-> {c \in Chunks : Turns(c, all, len, pos, n, at + k)}]
           step == [p \in (1..m) \X Chunks |-> Taking(src, n, p[2])]
<1>7. \A k \in 1..m : \A c \in Chunks : step[<<k, c>>] = Taking(src, n, c)
  OBVIOUS
<1>8. \A k \in 0..m : \A c : c \in V[k] <=> c \in Chunks /\ Turns(c, all, len, pos, n, at + k)
  OBVIOUS
<1>9. \A c, k : Turns(c, all, len, pos, n, k) => c \in Chunks
  BY DEF Turns, ReadUpTo
<1>10. \A k \in 1..m : k \in 0..m /\ k - 1 \in 0..m
  OBVIOUS
<1> HIDE DEF V, step
<1>11. ASSUME NEW k \in 1..m, NEW c \in V[k - 1]
       PROVE  Taking(src, n, c) \in V[k] /\ step[<<k, c>>] = Taking(src, n, c)
  <2>1. PICK a \in Nat : a = at + (k - 1) /\ a < len /\ a + 1 = at + k
    BY <1>1
  <2>2. c \in Chunks /\ Turns(c, all, len, pos, n, a)
    BY <1>8, <1>10, <2>1
  <2>3. Turns(Taking(src, n, c), all, len, pos, n, a + 1)
    BY <2>1, <2>2, TurnsOn, Zenon
  <2>4. QED
    BY <1>7, <1>8, <1>9, <1>10, <2>1, <2>2, <2>3
<1>12. Carry(step, m, V)
  BY <1>11 DEF Carry
<1>13. first \in V[0]
  <2>1. /\ first \in Chunks /\ first.at = at /\ first.has = has /\ first.acc = acc /\ first.val = acc
        /\ first.actual = has
    BY <1>1, <1>3, <1>4 DEF Chunks
  <2>2. at <= len /\ acc < PowerOf2[has] /\ GoesOn(all, pos, acc, has) /\ pos + has = 8 * at /\ has < n
    BY <1>1, <1>3 DEF ReadsAt
  <2>3. ReadUpTo(first, all, len, pos, n)
    BY <2>1, <2>2 DEF ReadUpTo
  <2>4. Turns(first, all, len, pos, n, at + 0)
    BY <2>1, <2>3 DEF Turns
  <2>5. 0 \in 0..m
    OBVIOUS
  <2>6. QED
    BY <1>8, <2>1, <2>4, <2>5
<1>14. PICK f : f = [k \in 0..m |-> f[k]] /\ RecursIn(f, m, first, step, V)
  BY <1>1, <1>12, <1>13, RecursionIn, Zenon
<1>15. \A k \in 0..m : f[k] \in V[k]
  BY <1>1, <1>12, <1>13, <1>14, RecursInIs, Zenon
<1>16. Is(f)
  <2>1. \A k \in 1..m : f[k] = Taking(src, n, f[k - 1])
    BY <1>10, <1>11, <1>14, <1>15 DEF RecursIn
  <2>2. QED
    BY <1>6, <1>14, <2>1 DEF RecursIn
<1>17. Is(h0)
  BY <1>5, <1>16
<1>18. RecursIn(h0, m, first, step, V)
  BY <1>6, <1>11, <1>17 DEF RecursIn
<1>19. PICK c : c = h0[m] /\ c \in V[m]
  <2>1. \A k \in 0..m : h0[k] \in V[k]
    BY <1>1, <1>12, <1>13, <1>18, RecursInIs, Zenon
  <2>2. m \in 0..m
    OBVIOUS
  <2>3. QED
    BY <2>1, <2>2
<1>20. c \in Chunks /\ ReadUpTo(c, all, len, pos, n) /\ (c.actual >= n \/ c.at = len)
  <2>1. m \in 0..m /\ at + m = len
    BY <1>1
  <2>2. QED
    BY <1>8, <1>19, <2>1 DEF Turns
<1>21. c.actual >= n
  <2>1. c.actual \in Nat
    BY <1>20 DEF Chunks
  <2>2. c.actual < n => pos + c.actual = 8 * c.at
    BY <1>20 DEF ReadUpTo
  <2>3. QED
    BY <1>20, <2>1, <2>2
<1>22. ReadAll(c, all, len, pos, n)
  BY <1>20, <1>21 DEF ReadUpTo, ReadAll, Chunks
<1>23. QED
  BY <1>5, <1>19, <1>22

LEMMA NatsAreInts == \A s \in Seq(Nat) : s \in Seq(Int)
OBVIOUS

\* The sums of the first so many, place by place.
LEMMA AskedIs ==
    ASSUME NEW s \in Seq(Nat), NEW n \in Nat, n = Len(s), NEW f, Sums(f, s, n), NEW k \in 0..n
    PROVE  Asked(s, k) = f[k]
<1>1. PICK t : t = SubSeq(s, 1, k)
  OBVIOUS
<1>2. t \in Seq(Nat) /\ Len(t) = k /\ \A i \in 1..k : t[i] = s[i]
  <2>1. PICK r \in Nat : n = k + r
    <3>1. n - k \in Nat /\ n = k + (n - k)
      OBVIOUS
    <3>2. QED
      BY <3>1
  <2>2. k \in Nat
    OBVIOUS
  <2>3. FirstOf(t, s, k, Nat)
    BY <1>1, <2>1, <2>2, FirstItems
  <2>4. QED
    BY <2>2, <2>3 DEF FirstOf
<1>3. t \in Seq(Int)
  BY <1>2, NatsAreInts
<1>4. PICK g \in [0..Len(t) -> Int] : Sums(g, t, Len(t)) /\ SumOf(t) = g[Len(t)]
  BY <1>3, SumIs
<1> DEFINE R == {i \in 0..k : g[i] = f[i]}
<1>5. 0 \in R
  BY <1>4 DEF Sums
<1>6. ASSUME NEW i \in 1..k, i - 1 \in R
      PROVE  i \in R
  <2>1. g[i] = g[i - 1] + t[i]
    BY <1>2, <1>4 DEF Sums
  <2>2. f[i] = f[i - 1] + s[i]
    <3>1. i \in 1..n
      OBVIOUS
    <3>2. QED
      BY <3>1 DEF Sums
  <2>3. QED
    BY <1>2, <1>6, <2>1, <2>2
<1> HIDE DEF R
<1>7. \A i \in 0..k : i \in R
  <2>1. k \in Nat
    OBVIOUS
  <2>2. QED
    BY <1>5, <1>6, <2>1, InductUpTo
<1>8. g[k] = f[k]
  BY <1>7 DEF R
<1>9. QED
  BY <1>1, <1>2, <1>4, <1>8 DEF Asked

\* Where every read begins: at the sum of those before it.
Begun(at, sizes, n) == at \in [0..n -> Nat] /\ at[0] = 0 /\ \A k \in 1..n : at[k] = at[k - 1] + sizes[k]

LEMMA BegunIs ==
    ASSUME NEW sizes \in Seq(Nat), NEW n \in Nat, n = Len(sizes)
    PROVE  \E at : /\ Begun(at, sizes, n) /\ \A k \in 0..n : Asked(sizes, k) = at[k] /\ at[k] <= at[n]
<1>1. PICK f \in [0..n -> Int] : Sums(f, sizes, n)
  BY SumIs, NatsAreInts
<1>2. \A k \in 1..n : sizes[k] \in Nat
  OBVIOUS
<1> DEFINE R == {k \in 0..n : f[k] \in Nat}
<1>3. 0 \in R
  BY <1>1 DEF Sums
<1>4. ASSUME NEW k \in 1..n, k - 1 \in R
      PROVE  k \in R
  BY <1>1, <1>2, <1>4 DEF Sums
<1> HIDE DEF R
<1>5. \A k \in 0..n : k \in R
  BY <1>3, <1>4, InductUpTo
<1>6. f \in [0..n -> Nat]
  BY <1>1, <1>5 DEF R
<1>7. ASSUME NEW k \in 1..n
      PROVE  f[k - 1] <= f[k]
  <2>1. f[k] = f[k - 1] + sizes[k] /\ sizes[k] \in Nat
    BY <1>1, <1>2 DEF Sums
  <2>2. k - 1 \in 0..n
    OBVIOUS
  <2>3. f[k - 1] \in Nat
    BY <1>6, <2>2
  <2>4. QED
    BY <2>1, <2>3
<1>8. \A i, j \in 0..n : i <= j => f[i] <= f[j]
  BY <1>6, <1>7, Monotone
<1>9. ASSUME NEW k \in 0..n
      PROVE  Asked(sizes, k) = f[k] /\ f[k] <= f[n]
  <2>1. n \in 0..n /\ k <= n
    OBVIOUS
  <2>2. QED
    BY <1>1, <1>8, <2>1, AskedIs
<1>10. Begun(f, sizes, n)
  BY <1>1, <1>6 DEF Begun, Sums
<1>11. QED
  BY <1>9, <1>10

\* what was left of the last byte
LEMMA LeftOf ==
    ASSUME NEW pos \in Nat, NEW has \in 0..7, NEW at \in Nat, pos + has = 8 * at
    PROVE  (8 - (pos % 8)) % 8 = has
OBVIOUS

Values == [val : Nat, actual : Nat]
Readers == [reader : [at : Nat, has : Nat, acc : Nat], vals : Seq(Values)]

\* After k reads of so many bits each: where the reader is, and what was read.
ReadSoFar(x, k, sizes, at, all, len) ==
    /\ x \in Readers /\ ReadsAt(x.reader.at, x.reader.has, x.reader.acc, all, len, at[k])
    /\ Len(x.vals) = k
    /\ \A j \in 1..k : x.vals[j].actual = sizes[j] /\ GoesOn(all, at[j - 1], x.vals[j].val, sizes[j])

\* each read asks for more than is left of the last byte, and for no more than there is
EnoughFor(sizes, at, n, len) ==
    /\ Begun(at, sizes, n) /\ \A k \in 0..n : at[k] <= 8 * len
    /\ \A k \in 1..n : sizes[k] \in Nat /\ sizes[k] > (8 - (at[k - 1] % 8)) % 8

LEMMA ReadOnKeeps ==
    ASSUME NEW src, NEW len \in Nat, NEW all, BitsOfSource(all, src, len),
           NEW sizes, NEW n \in Nat, NEW at, EnoughFor(sizes, at, n, len),
           NEW k \in 1..n, NEW x, ReadSoFar(x, k - 1, sizes, at, all, len)
    PROVE  ReadSoFar(ReadOn(src, x, sizes[k]), k, sizes, at, all, len)
<1>1. PICK i \in Nat : i = k - 1 /\ i \in 0..n /\ k = i + 1 /\ k \in 0..n
  OBVIOUS
<1>2. PICK r, vals : r = x.reader /\ vals = x.vals
  OBVIOUS
<1>3. /\ r \in [at : Nat, has : Nat, acc : Nat] /\ vals \in Seq(Values) /\ Len(vals) = i
      /\ \A j \in 1..i : vals[j].actual = sizes[j] /\ GoesOn(all, at[j - 1], vals[j].val, sizes[j])
  BY <1>1, <1>2 DEF ReadSoFar, Readers
<1>4. PICK size \in Nat, pos \in Nat : size = sizes[k] /\ pos = at[i]
  BY <1>1 DEF EnoughFor, Begun
<1>5. at[k] = pos + size /\ pos + size <= 8 * len
  BY <1>1, <1>4 DEF EnoughFor, Begun
<1>6. ReadsAt(r.at, r.has, r.acc, all, len, pos)
  BY <1>1, <1>2, <1>4 DEF ReadSoFar
<1>7. r.has < size
  <2>1. r.has \in 0..7 /\ r.at \in Nat /\ pos + r.has = 8 * r.at
    BY <1>6 DEF ReadsAt
  <2>2. (8 - (pos % 8)) % 8 = r.has
    BY <1>4, <2>1, LeftOf
  <2>3. size > (8 - (pos % 8)) % 8
    BY <1>1, <1>4 DEF EnoughFor
  <2>4. QED
    BY <2>2, <2>3
<1>8. PICK c : c = buizel_read(src, r, size)
  OBVIOUS
<1>9. ReadAll(c, all, len, pos, size)
  BY <1>4, <1>5, <1>6, <1>7, <1>8, ReadTakes, Zenon
<1>10. /\ c.at \in Nat /\ c.has \in Nat /\ c.acc \in Nat /\ c.val \in Nat /\ c.actual = size
       /\ GoesOn(all, pos, c.val, size) /\ ReadsAt(c.at, c.has, c.acc, all, len, pos + size)
  BY <1>9 DEF ReadAll, Chunks
<1>11. PICK value \in Values : value = [val |-> c.val, actual |-> c.actual]
  BY <1>4, <1>10 DEF Values
<1>12. PICK reader \in [at : Nat, has : Nat, acc : Nat] : reader = [at |-> c.at, has |-> c.has, acc |-> c.acc]
  BY <1>10
<1>13. PICK new : new = Append(vals, value)
  OBVIOUS
<1>14. PICK y : y = [reader |-> reader, vals |-> new]
  OBVIOUS
<1>15. ReadOn(src, x, sizes[k]) = y
  BY <1>2, <1>4, <1>8, <1>11, <1>12, <1>13, <1>14 DEF ReadOn
<1>16. new \in Seq(Values) /\ Len(new) = k /\ new[k] = value /\ \A j \in 1..i : new[j] = vals[j]
  BY <1>1, <1>3, <1>11, <1>13
<1>17. y \in Readers /\ y.reader = reader /\ y.vals = new
  BY <1>12, <1>14, <1>16 DEF Readers
<1>18. reader.at = c.at /\ reader.has = c.has /\ reader.acc = c.acc
  BY <1>12
<1>19. value.val = c.val /\ value.actual = size
  BY <1>10, <1>11
<1>20. ASSUME NEW j \in 1..k
       PROVE  new[j].actual = sizes[j] /\ GoesOn(all, at[j - 1], new[j].val, sizes[j])
  <2>1. CASE j = k
    BY <1>1, <1>4, <1>10, <1>16, <1>19, <2>1
  <2>2. CASE j # k
    <3>1. j \in 1..i
      BY <1>1, <2>2
    <3>2. QED
      BY <1>3, <1>16, <3>1
  <2>3. QED
    BY <2>1, <2>2
<1>21. ReadSoFar(y, k, sizes, at, all, len)
  BY <1>5, <1>10, <1>16, <1>17, <1>18, <1>20 DEF ReadSoFar
<1>22. QED
  BY <1>15, <1>21

LEMMA FirstReader ==
    ASSUME NEW sizes, NEW at, at[0] = 0, NEW all, NEW len \in Nat,
           NEW x, x = [reader |-> Reader, vals |-> << >>]
    PROVE  ReadSoFar(x, 0, sizes, at, all, len)
<1>1. Reader \in [at : Nat, has : Nat, acc : Nat] /\ Reader.at = 0 /\ Reader.has = 0 /\ Reader.acc = 0
  BY DEF Reader
<1>2. << >> \in Seq(Values) /\ Len(<< >>) = 0
  OBVIOUS
<1>3. PICK r \in [at : Nat, has : Nat, acc : Nat] : r = Reader /\ r.at = 0 /\ r.has = 0 /\ r.acc = 0
  BY <1>1
<1>4. PICK v \in Seq(Values) : v = << >> /\ Len(v) = 0
  BY <1>2
<1>5. x = [reader |-> r, vals |-> v]
  BY <1>3, <1>4
<1>6. x \in Readers /\ x.reader = r /\ x.vals = v
  BY <1>5 DEF Readers
<1>7. PowerOf2[0] = 1
  BY PowersOf2
<1>8. GoesOn(all, 0, 0, 0)
  BY DEF GoesOn
<1>9. ReadsAt(0, 0, 0, all, len, 0)
  BY <1>7, <1>8 DEF ReadsAt
<1>10. QED
  BY <1>3, <1>4, <1>6, <1>9 DEF ReadSoFar

LEMMA ReadInIs ==
    ASSUME NEW src, NEW len \in Nat, NEW all, BitsOfSource(all, src, len),
           NEW sizes \in Seq(Nat), NEW n \in Nat, n = Len(sizes), NEW at, EnoughFor(sizes, at, n, len)
    PROVE  ReadSoFar(ReadIn(src, sizes), n, sizes, at, all, len)
<1>1. PICK first : first = [reader |-> Reader, vals |-> << >>]
  OBVIOUS
<1> DEFINE Is(h) == h = [k \in 0..n |-> IF k = 0 THEN first ELSE ReadOn(src, h[k - 1], sizes[k])]
<1>2. PICK h0 : h0 = (CHOOSE g : Is(g)) /\ ReadIn(src, sizes) = h0[n]
  BY <1>1 DEF ReadIn
<1>3. ASSUME NEW h
      PROVE  Is(h) <=> (/\ h = [k \in 0..n |-> h[k]] /\ h[0] = first
                        /\ \A k \in 1..n : h[k] = ReadOn(src, h[k - 1], sizes[k]))
  <2>1. 0 \in 0..n /\ \A k \in 0..n : k = 0 \/ k \in 1..n
    OBVIOUS
  <2>2. \A k \in 1..n : k \in 0..n /\ k # 0
    OBVIOUS
  <2>3. QED
    BY <2>1, <2>2
<1> HIDE DEF Is
<1> DEFINE V == [k \in 0..n |-> {x \in Readers : ReadSoFar(x, k, sizes, at, all, len)}]
           step == [p \in (1..n) \X Readers |-> ReadOn(src, p[2], sizes[p[1]])]
<1>4. \A k \in 1..n : \A x \in Readers : step[<<k, x>>] = ReadOn(src, x, sizes[k])
  OBVIOUS
<1>5. \A k \in 0..n : \A x : x \in V[k] <=> x \in Readers /\ ReadSoFar(x, k, sizes, at, all, len)
  OBVIOUS
<1>6. \A x, k : ReadSoFar(x, k, sizes, at, all, len) => x \in Readers
  BY DEF ReadSoFar
<1>7. \A k \in 1..n : k \in 0..n /\ k - 1 \in 0..n
  OBVIOUS
<1> HIDE DEF V, step
<1>8. ASSUME NEW k \in 1..n, NEW x \in V[k - 1]
      PROVE  ReadOn(src, x, sizes[k]) \in V[k] /\ step[<<k, x>>] = ReadOn(src, x, sizes[k])
  <2>1. x \in Readers /\ ReadSoFar(x, k - 1, sizes, at, all, len)
    BY <1>5, <1>7
  <2>2. ReadSoFar(ReadOn(src, x, sizes[k]), k, sizes, at, all, len)
    BY <2>1, ReadOnKeeps, Zenon
  <2>3. QED
    BY <1>4, <1>5, <1>6, <1>7, <2>1, <2>2
<1>9. Carry(step, n, V)
  BY <1>8 DEF Carry
<1>10. first \in V[0]
  <2>1. at[0] = 0 /\ 0 \in 0..n
    BY DEF EnoughFor, Begun
  <2>2. ReadSoFar(first, 0, sizes, at, all, len)
    BY <1>1, <2>1, FirstReader
  <2>3. QED
    BY <1>5, <1>6, <2>1, <2>2
<1>11. PICK f : f = [k \in 0..n |-> f[k]] /\ RecursIn(f, n, first, step, V)
  BY <1>9, <1>10, RecursionIn, Zenon
<1>12. \A k \in 0..n : f[k] \in V[k]
  BY <1>9, <1>10, <1>11, RecursInIs, Zenon
<1>13. Is(f)
  <2>1. \A k \in 1..n : f[k] = ReadOn(src, f[k - 1], sizes[k])
    BY <1>7, <1>8, <1>11, <1>12 DEF RecursIn
  <2>2. QED
    BY <1>3, <1>11, <2>1 DEF RecursIn
<1>14. Is(h0)
  BY <1>2, <1>13
<1>15. RecursIn(h0, n, first, step, V)
  BY <1>3, <1>8, <1>14 DEF RecursIn
<1>16. \A k \in 0..n : h0[k] \in V[k]
  BY <1>9, <1>10, <1>15, RecursInIs, Zenon
<1>17. n \in 0..n
  OBVIOUS
<1>18. QED
  BY <1>2, <1>5, <1>16, <1>17

\* the bits that were read, value by value
Got(vals) == FlattenSeq([k \in DOMAIN vals |-> LowBits(vals[k].val, vals[k].actual)])

\* got are the first L bits of all
First(got, all, L) == got \in Seq(Bits) /\ Len(got) = L /\ \A p \in 1..L : got[p] = all[p]

LEMMA FirstThen ==
    ASSUME NEW got, NEW all, NEW L \in Nat, First(got, all, L), NEW s \in Seq(Bits), NEW n \in Nat,
           Len(s) = n, \A i \in 1..n : s[i] = all[L + i]
    PROVE  First(got \o s, all, L + n)
<1>1. PICK y : y = got \o s
  OBVIOUS
<1>2. Joins(y, got, L, s, n, Bits)
  <2>1. got \in Seq(Bits) /\ Len(got) = L
    BY DEF First
  <2>2. QED
    BY <1>1, <2>1, Joined
<1>3. ASSUME NEW p \in 1..(L + n)
      PROVE  y[p] = all[p]
  <2>1. CASE p \in 1..L
    BY <1>2, <2>1 DEF Joins, First
  <2>2. CASE p \notin 1..L
    <3>1. PICK i \in 1..n : p = L + i
      <4>1. p - L \in 1..n /\ p = L + (p - L)
        BY <2>2
      <4>2. QED
        BY <4>1
    <3>2. y[L + i] = s[i]
      BY <1>2 DEF Joins
    <3>3. QED
      BY <3>1, <3>2
  <2>3. QED
    BY <2>1, <2>2
<1>4. QED
  BY <1>1, <1>2, <1>3 DEF Joins, First

LEMMA GotIs ==
    ASSUME NEW vals \in Seq(Values), NEW n \in Nat, Len(vals) = n,
           NEW sizes, NEW at, Begun(at, sizes, n), NEW all,
           \A j \in 1..n : vals[j].actual = sizes[j] /\ GoesOn(all, at[j - 1], vals[j].val, sizes[j])
    PROVE  First(Got(vals), all, at[n])
<1> DEFINE seqs == [k \in DOMAIN vals |-> LowBits(vals[k].val, vals[k].actual)]
<1>1. \A k \in 1..n : vals[k].val \in Nat /\ sizes[k] \in Nat
  <2>1. \A k \in 1..n : vals[k] \in Values
    BY ItemsIn, Zenon
  <2>2. QED
    BY <2>1 DEF Values
<1>2. DOMAIN vals = 1..n
  OBVIOUS
<1>3. \A k \in 1..n : /\ seqs[k] \in Seq(Bits) /\ Len(seqs[k]) = sizes[k]
                      /\ \A i \in 1..sizes[k] : seqs[k][i] = all[at[k - 1] + i]
  <2> TAKE k \in 1..n
  <2>1. PICK v \in Nat, size \in Nat : v = vals[k].val /\ size = sizes[k]
    BY <1>1
  <2>2. seqs[k] = LowBits(v, size)
    BY <1>2, <2>1
  <2> HIDE DEF seqs
  <2>3. /\ LowBits(v, size) \in Seq(Bits) /\ Len(LowBits(v, size)) = size
        /\ \A i \in 1..size : LowBits(v, size)[i] = NthBit(v, i - 1)
    BY LowBitsAre, Zenon
  <2>4. \A i \in 1..size : all[at[k - 1] + i] = NthBit(v, i - 1)
    BY <2>1 DEF GoesOn
  <2>5. QED
    BY <2>1, <2>2, <2>3, <2>4
<1>4. seqs \in Seq(Seq(Bits)) /\ Len(seqs) = n
  <2>1. seqs = [k \in 1..n |-> seqs[k]]
    BY <1>2
  <2>2. \A k \in 1..n : seqs[k] \in Seq(Bits)
    BY <1>3, Zenon
  <2> HIDE DEF seqs
  <2>3. QED
    BY <2>1, <2>2
<1>5. Got(vals) = FlattenSeq(seqs)
  BY DEF Got
<1> HIDE DEF seqs
<1>6. PICK flat : Flat(flat, seqs, n, Bits) /\ FlattenSeq(seqs) = flat[n]
  BY <1>4, FlatOf, Zenon
<1> DEFINE R == {k \in 0..n : First(flat[k], all, at[k])}
<1>7. 0 \in R
  <2>1. flat[0] = << >> /\ at[0] = 0
    BY <1>6 DEF Flat, Begun
  <2>2. << >> \in Seq(Bits) /\ Len(<< >>) = 0 /\ 0 \in 0..n
    OBVIOUS
  <2>3. First(flat[0], all, at[0])
    BY <2>1, <2>2 DEF First
  <2>4. QED
    BY <2>2, <2>3
<1>8. ASSUME NEW k \in 1..n, k - 1 \in R
      PROVE  k \in R
  <2>1. k \in 0..n /\ k - 1 \in 0..n
    OBVIOUS
  <2>2. PICK L \in Nat, size \in Nat : L = at[k - 1] /\ size = sizes[k] /\ at[k] = L + size
    BY <1>1, <2>1 DEF Begun
  <2>3. flat[k] = flat[k - 1] \o seqs[k]
    BY <1>6 DEF Flat
  <2>4. First(flat[k - 1], all, L)
    BY <1>8, <2>2
  <2>5. First(flat[k - 1] \o seqs[k], all, L + size)
    <3>1. seqs[k] \in Seq(Bits) /\ Len(seqs[k]) = size /\ \A i \in 1..size : seqs[k][i] = all[L + i]
      BY <1>3, <2>2
    <3>2. QED
      BY <2>2, <2>4, <3>1, FirstThen, Zenon
  <2>6. QED
    BY <2>1, <2>2, <2>3, <2>5
<1> HIDE DEF R
<1>9. \A k \in 0..n : k \in R
  BY <1>7, <1>8, InductUpTo
<1>10. n \in 0..n
  OBVIOUS
<1>11. QED
  BY <1>5, <1>6, <1>9, <1>10 DEF R

\* The second half of BitsKept.
ReadKept(src, r, sizes) ==
    LET all == BitsIn(src)
    IN AsksEnough(sizes, Len(all)) =>
          /\ IsPrefix(Got(r.vals), all) /\ Len(Got(r.vals)) = Asked(sizes, Len(sizes))
          /\ buizel_left(src, r.reader) = Len(all) - Len(Got(r.vals))

LEMMA SizesAre == \A s \in Seq(0..31) : s \in Seq(Nat)
<1>1. \A x \in 0..31 : x \in Nat
  OBVIOUS
<1>2. QED
  BY <1>1, WiderSeq, Zenon

LEMMA LeftIs ==
    ASSUME NEW len \in Nat, NEW a \in Nat, NEW h \in Nat, NEW L \in Nat, L + h = 8 * a
    PROVE  (len - a) * 8 + h = 8 * len - L
OBVIOUS

LEMMA BitsRead ==
    ASSUME NEW src \in Seq(Octets), NEW sizes \in Seq(0..31), NEW r, r = ReadIn(src, sizes)
    PROVE  ReadKept(src, r, sizes)
<1>1. PICK len \in Nat : len = Len(src)
  BY OctetsAre
<1>2. PICK all : all = BitsIn(src)
  OBVIOUS
<1>3. BitsOfSource(all, src, len)
  BY <1>1, <1>2, BitsInAre DEF BitsOfSource
<1>4. PICK M \in Nat : M = 8 * len
  BY <1>1
<1>5. all \in Seq(Bits) /\ Len(all) = M
  BY <1>3, <1>4 DEF BitsOfSource, BitsOfBytes
<1>6. PICK n \in Nat : n = Len(sizes)
  OBVIOUS
<1>7. SUFFICES ASSUME AsksEnough(sizes, M)
               PROVE  /\ IsPrefix(Got(r.vals), all) /\ Len(Got(r.vals)) = Asked(sizes, n)
                      /\ buizel_left(src, r.reader) = M - Len(Got(r.vals))
  BY <1>2, <1>5, <1>6 DEF ReadKept
<1>8. sizes \in Seq(Nat) /\ DOMAIN sizes = 1..n
  BY <1>6, SizesAre
<1>9. PICK at : Begun(at, sizes, n) /\ \A k \in 0..n : Asked(sizes, k) = at[k] /\ at[k] <= at[n]
  BY <1>6, <1>8, BegunIs
<1>10. PICK L \in Nat : L = at[n] /\ L = Asked(sizes, n) /\ L <= M
  <2>1. n \in 0..n
    BY <1>6
  <2>2. at[n] \in Nat
    BY <1>9, <2>1 DEF Begun
  <2>3. Asked(sizes, n) <= M
    BY <1>6, <1>7 DEF AsksEnough
  <2>4. QED
    BY <1>9, <2>1, <2>2, <2>3
<1>11. EnoughFor(sizes, at, n, len)
  <2>1. \A k \in 0..n : at[k] <= 8 * len
    <3> TAKE k \in 0..n
    <3>1. at[k] \in Nat /\ at[k] <= L
      BY <1>9, <1>10 DEF Begun
    <3>2. QED
      BY <1>4, <1>10, <3>1
  <2>2. ASSUME NEW k \in 1..n
        PROVE  sizes[k] \in Nat /\ sizes[k] > (8 - (at[k - 1] % 8)) % 8
    <3>1. k - 1 \in 0..n
      BY <1>6
    <3>2. PICK a : a = at[k - 1] /\ a = Asked(sizes, k - 1)
      BY <1>9, <3>1
    <3>3. sizes[k] > (8 - (a % 8)) % 8
      BY <1>7, <1>8, <3>2 DEF AsksEnough
    <3>4. sizes[k] \in Nat
      BY <1>6, <1>8, ItemsIn, Zenon
    <3>5. QED
      BY <3>2, <3>3, <3>4
  <2>3. QED
    BY <1>9, <2>1, <2>2 DEF EnoughFor
<1>12. ReadSoFar(r, n, sizes, at, all, len)
  BY <1>1, <1>3, <1>6, <1>8, <1>11, ReadInIs, Zenon
<1>13. PICK vals \in Seq(Values) : vals = r.vals
  BY <1>12 DEF ReadSoFar, Readers
<1>14. First(Got(vals), all, L)
  <2>1. /\ Len(vals) = n
        /\ \A j \in 1..n : vals[j].actual = sizes[j] /\ GoesOn(all, at[j - 1], vals[j].val, sizes[j])
    BY <1>12, <1>13 DEF ReadSoFar
  <2>2. First(Got(vals), all, at[n])
    BY <1>6, <1>9, <1>13, <2>1, GotIs, Zenon
  <2>3. QED
    BY <1>10, <2>2
<1>15. PICK got : got = Got(vals)
  OBVIOUS
<1>16. got \in Seq(Bits) /\ Len(got) = L /\ \A p \in 1..L : got[p] = all[p]
  BY <1>14, <1>15 DEF First
<1>17. IsPrefix(got, all)
  BY <1>5, <1>10, <1>16, PrefixIs, Zenon
<1>18. buizel_left(src, r.reader) = M - L
  <2>1. PICK a \in 0..len, h \in 0..7 : a = r.reader.at /\ h = r.reader.has
    BY <1>12 DEF ReadSoFar, ReadsAt
  <2>2. L + h = 8 * a
    BY <1>10, <1>12, <2>1 DEF ReadSoFar, ReadsAt
  <2>3. buizel_left(src, r.reader) = (len - a) * 8 + h
    BY <1>1, <2>1 DEF buizel_left
  <2>4. QED
    <3>1. a \in Nat /\ h \in Nat
      BY <1>1
    <3>2. (len - a) * 8 + h = 8 * len - L
      <4>1. len \in Nat /\ L \in Nat
        BY <1>1, <1>10
      <4>2. QED
        BY <2>2, <3>1, <4>1, LeftIs, SMT
    <3>3. QED
      BY <1>4, <2>3, <3>2
<1>19. QED
  BY <1>10, <1>13, <1>15, <1>16, <1>17, <1>18

-----------------------------------------------------------------------------
(* The paths of base.h *)

\* The parts of a path: a directory, '/', a name, and a slash behind it or nothing.
PathOf(p, dir, D, name, N, E) ==
    /\ p \in Seq(Octets) /\ Len(p) = D + 1 + N + E
    /\ \A i \in 1..D : p[i] = dir[i]
    /\ p[D + 1] \in Slashes
    /\ \A i \in 1..N : p[D + 1 + i] = name[i]
    /\ E = 1 => p[D + 1 + N + 1] \in Slashes

LEMMA PathTaken ==
    ASSUME NEW dir \in Seq(Octets), NEW D \in Nat, D = Len(dir),
           NEW name \in Seq(Octets), NEW N \in Nat \ {0}, N = Len(name),
           \A i \in 1..N : name[i] \notin Slashes,
           NEW E \in 0..1, NEW p, PathOf(p, dir, D, name, N, E)
    PROVE  path_dirname(p) = dir /\ path_basename(p) = name
<1>1. PICK L \in Nat : L = D + 1 + N + E
  OBVIOUS
<1>2. /\ p \in Seq(Octets) /\ Len(p) = L
      /\ \A i \in 1..D : p[i] = dir[i]
      /\ p[D + 1] \in Slashes
      /\ \A i \in 1..N : p[D + 1 + i] = name[i]
      /\ E = 1 => p[D + 1 + N + 1] \in Slashes
  BY <1>1 DEF PathOf
<1>3. p # << >> /\ Last(p) = p[L]
  BY <1>1, <1>2 DEF Last
<1>4. Last(p) \in Slashes <=> E = 1
  <2>1. CASE E = 1
    <3>1. L = D + 1 + N + 1
      BY <1>1, <2>1
    <3>2. QED
      BY <1>2, <1>3, <2>1, <3>1
  <2>2. CASE E = 0
    <3>1. L = D + 1 + N /\ N \in 1..N
      BY <1>1, <2>2
    <3>2. p[L] = name[N]
      BY <1>2, <3>1
    <3>3. QED
      BY <1>3, <2>2, <3>1, <3>2
  <2>3. QED
    BY <2>1, <2>2
<1>5. PICK k0 \in Nat : k0 = N + E
  OBVIOUS
<1>6. FromEnd(p) = k0
  <2> DEFINE S == {k \in E..L : k = L \/ p[L - k] \in Slashes}
  <2>1. FromEnd(p) = Min(S)
    <3>1. (IF Last(p) \in Slashes THEN 1 ELSE 0) = E
      BY <1>4
    <3>2. QED
      BY <1>2, <3>1 DEF FromEnd
  <2>2. k0 \in S
    <3>1. k0 \in E..L /\ L - k0 = D + 1
      BY <1>1, <1>5
    <3>2. QED
      BY <1>2, <3>1
  <2>3. ASSUME NEW k \in S
        PROVE  k0 <= k
    <3> SUFFICES ASSUME k < k0 PROVE FALSE
      BY <1>5
    <3>1. k \in E..L /\ k # L
      BY <1>1, <1>5
    <3>2. PICK i \in 1..N : i = k0 - k
      <4>1. k \in Int /\ k >= E /\ k < k0 /\ k0 \in Int /\ E \in Int
        BY <1>5, <3>1
      <4>2. k0 - k \in 1..N
        BY <1>5, <4>1
      <4>3. QED
        BY <4>2
    <3>3. L - k = D + 1 + i
      BY <1>1, <1>5, <3>1, <3>2
    <3>4. p[L - k] = name[i]
      BY <1>2, <3>3
    <3>5. QED
      BY <3>1, <3>4
  <2>4. S \subseteq Int
    BY <1>1
  <2> HIDE DEF S
  <2>5. QED
    BY <2>1, <2>2, <2>3, <2>4, MinIs
<1>7. path_dirname(p) = dir
  <2>1. L - 1 - k0 = D
    BY <1>1, <1>5
  <2>2. path_dirname(p) = SubSeq(p, 1, D)
    BY <1>2, <1>3, <1>6, <2>1 DEF path_dirname
  <2>3. FirstOf(SubSeq(p, 1, D), p, D, Octets)
    <3>1. PICK r \in Nat : L = D + r
      <4>1. 1 + N + E \in Nat /\ L = D + (1 + N + E)
        BY <1>1
      <4>2. QED
        BY <4>1
    <3>2. QED
      BY <1>2, <3>1, FirstItems
  <2>4. QED
    <3>1. dir = [i \in 1..D |-> dir[i]]
      OBVIOUS
    <3>2. PICK t : t = SubSeq(p, 1, D) /\ t = path_dirname(p)
      BY <2>2
    <3>3. t \in [1..D -> Octets] /\ \A i \in 1..D : t[i] = dir[i]
      BY <1>2, <2>3, <3>2 DEF FirstOf
    <3>4. t = [i \in 1..D |-> t[i]]
      BY <3>3
    <3>5. QED
      BY <3>1, <3>2, <3>3, <3>4
<1>8. path_basename(p) = name
  <2>1. L - k0 + 1 = D + 2
    BY <1>1, <1>5
  <2>2. (IF Last(p) \in Slashes THEN L - 1 ELSE L) = D + 1 + N
    BY <1>1, <1>4
  <2>3. path_basename(p) = SubSeq(p, D + 2, D + 1 + N)
    BY <1>2, <1>3, <1>6, <2>1, <2>2 DEF path_basename
  <2>4. SubSeq(p, D + 2, D + 1 + N) = [i \in 1..N |-> p[D + 1 + i]]
    <3>1. (D + 1 + N) - (D + 2) + 1 = N /\ D + 1 + N <= L
      BY <1>1
    <3>2. SubSeq(p, D + 2, D + 1 + N) = [i \in 1..N |-> p[i + (D + 2) - 1]]
      BY <1>2, <3>1
    <3>3. \A i \in 1..N : i + (D + 2) - 1 = D + 1 + i
      OBVIOUS
    <3>4. QED
      BY <3>2, <3>3
  <2>5. name = [i \in 1..N |-> name[i]]
    OBVIOUS
  <2>6. QED
    BY <1>2, <2>3, <2>4, <2>5
<1>9. QED
  BY <1>7, <1>8

\* what is joined: a '/' or none in front of the name, and behind it
OtherOf(o, F, name, N, E) ==
    /\ o \in Seq(Octets) /\ Len(o) = F + N + E
    /\ F = 1 => o[1] \in Slashes
    /\ \A i \in 1..N : o[F + i] = name[i]
    /\ E = 1 => o[F + N + 1] \in Slashes
\* and to what: the directory, with its '/' if there is none in front of the name
DirOf(a, F, dir, D) ==
    /\ a \in Seq(Octets) /\ Len(a) = D + (1 - F)
    /\ \A i \in 1..D : a[i] = dir[i]
    /\ F = 0 => a[D + 1] \in Slashes

LEMMA PathJoined ==
    ASSUME NEW D \in Nat, NEW N \in Nat, NEW F \in 0..1, NEW E \in 0..1, NEW dir, NEW name,
           NEW a, DirOf(a, F, dir, D), NEW o, OtherOf(o, F, name, N, E)
    PROVE  PathOf(a \o o, dir, D, name, N, E)
<1>1. PICK p : p = a \o o
  OBVIOUS
<1>2. PICK k \in Nat, l \in Nat : k = D + (1 - F) /\ l = F + N + E
  OBVIOUS
<1>3. a \in Seq(Octets) /\ Len(a) = k /\ o \in Seq(Octets) /\ Len(o) = l
  BY <1>2 DEF DirOf, OtherOf
<1>4. Joins(p, a, k, o, l, Octets)
  BY <1>1, <1>2, <1>3, Joined, Zenon
<1>5. p \in Seq(Octets) /\ Len(p) = D + 1 + N + E
  BY <1>2, <1>4 DEF Joins
<1>6. \A i \in 1..D : p[i] = dir[i]
  <2> TAKE i \in 1..D
  <2>1. i \in 1..k
    BY <1>2
  <2>2. QED
    BY <1>4, <2>1 DEF Joins, DirOf
<1>7. \A j \in 1..(N + E) : p[D + 1 + j] = o[F + j]
  <2> TAKE j \in 1..(N + E)
  <2>1. PICK i \in 1..l : i = F + j /\ k + i = D + 1 + j
    BY <1>2
  <2>2. QED
    BY <1>4, <2>1 DEF Joins
<1>8. p[D + 1] \in Slashes
  <2>1. CASE F = 0
    <3>1. k = D + 1 /\ D + 1 \in 1..k
      BY <1>2, <2>1
    <3>2. QED
      BY <1>4, <2>1, <3>1 DEF Joins, DirOf
  <2>2. CASE F = 1
    <3>1. k + 1 = D + 1 /\ 1 \in 1..l
      BY <1>2, <2>2
    <3>2. p[k + 1] = o[1]
      BY <1>4, <3>1 DEF Joins
    <3>3. QED
      BY <2>2, <3>1, <3>2 DEF OtherOf
  <2>3. QED
    BY <2>1, <2>2
<1>9. \A i \in 1..N : p[D + 1 + i] = name[i]
  <2> TAKE i \in 1..N
  <2>1. i \in 1..(N + E)
    OBVIOUS
  <2>2. p[D + 1 + i] = o[F + i]
    BY <1>7, <2>1
  <2>3. QED
    BY <2>2 DEF OtherOf
<1>10. E = 1 => p[D + 1 + N + 1] \in Slashes
  <2> SUFFICES ASSUME E = 1 PROVE p[D + 1 + N + 1] \in Slashes
    OBVIOUS
  <2>1. PICK j \in 1..(N + E) : j = N + 1 /\ D + 1 + j = D + 1 + N + 1 /\ F + j = F + N + 1
    OBVIOUS
  <2>2. p[D + 1 + j] = o[F + j]
    BY <1>7
  <2>3. QED
    BY <2>1, <2>2 DEF OtherOf
<1>11. QED
  BY <1>1, <1>5, <1>6, <1>8, <1>9, <1>10 DEF PathOf

LEMMA OtherIs ==
    ASSUME NEW name \in Seq(Octets), NEW N \in Nat, N = Len(name),
           NEW front \in Seq(Octets), NEW F \in 0..1, F = Len(front), F = 1 => front[1] \in Slashes,
           NEW last \in Seq(Octets), NEW E \in 0..1, E = Len(last), E = 1 => last[1] \in Slashes
    PROVE  OtherOf(front \o name \o last, F, name, N, E)
<1>1. PICK b : b = front \o name
  OBVIOUS
<1>2. PICK o : o = b \o last
  OBVIOUS
<1>3. F \in Nat /\ E \in Nat /\ F + N \in Nat
  OBVIOUS
<1>4. Joins(b, front, F, name, N, Octets)
  BY <1>1, <1>3, Joined, Zenon
<1>5. b \in Seq(Octets) /\ Len(b) = F + N
  BY <1>4 DEF Joins
<1>6. Joins(o, b, F + N, last, E, Octets)
  BY <1>2, <1>3, <1>5, Joined, Zenon
<1>7. o \in Seq(Octets) /\ Len(o) = F + N + E
  BY <1>6 DEF Joins
<1>8. F = 1 => o[1] \in Slashes
  <2> SUFFICES ASSUME F = 1 PROVE o[1] \in Slashes
    OBVIOUS
  <2>1. 1 \in 1..F /\ 1 \in 1..(F + N)
    BY <1>3
  <2>2. QED
    BY <1>4, <1>6, <2>1 DEF Joins
<1>9. \A i \in 1..N : o[F + i] = name[i]
  <2> TAKE i \in 1..N
  <2>1. F + i \in 1..(F + N)
    BY <1>3
  <2>2. QED
    BY <1>4, <1>6, <2>1 DEF Joins
<1>10. E = 1 => o[F + N + 1] \in Slashes
  <2> SUFFICES ASSUME E = 1 PROVE o[F + N + 1] \in Slashes
    OBVIOUS
  <2>1. 1 \in 1..E
    BY <1>3
  <2>2. QED
    BY <1>6, <2>1 DEF Joins
<1>11. OtherOf(o, F, name, N, E)
  BY <1>7, <1>8, <1>9, <1>10 DEF OtherOf
<1>12. QED
  BY <1>1, <1>2, <1>11

LEMMA SlashesAre == Slashes \subseteq Octets /\ Slash \in Slashes
BY DEF Slashes, Slash, Octets

\* A directory and a name that were joined are taken apart again.
THEOREM PathUndone ==
    ASSUME NEW dir \in Seq(Octets), NEW name \in Seq(Octets), NEW to, NEW other,
           Joinable(to, other, dir, name)
    PROVE  /\ path_dirname(path_join(to, other)) = dir
           /\ path_basename(path_join(to, other)) = name
<1>1. PICK D \in Nat, N \in Nat : D = Len(dir) /\ N = Len(name)
  OBVIOUS
<1>2. N \in Nat \ {0} /\ \A i \in 1..N : name[i] \notin Slashes
  <2>1. name # << >> /\ \A k \in DOMAIN name : name[k] \notin Slashes
    BY DEF Joinable
  <2>2. DOMAIN name = 1..N /\ N # 0
    BY <1>1, <2>1
  <2>3. QED
    BY <2>1, <2>2
<1>3. PICK front, last : /\ front \in {<< >>, <<Slash>>} /\ last \in {<< >>} \cup {<<c>> : c \in Slashes}
                         /\ other = front \o name \o last
  BY DEF Joinable
<1>4. PICK F \in 0..1 : /\ front \in Seq(Octets) /\ F = Len(front)
                        /\ F = 1 => front[1] \in Slashes
                        /\ F = 1 => front[1] = Slash
  <2>1. CASE front = << >>
    <3>1. << >> \in Seq(Octets) /\ Len(<< >>) = 0
      OBVIOUS
    <3>2. QED
      BY <2>1, <3>1
  <2>2. CASE front = <<Slash>>
    <3>1. Slash \in Octets
      BY SlashesAre
    <3>2. <<Slash>> \in Seq(Octets) /\ Len(<<Slash>>) = 1 /\ <<Slash>>[1] = Slash
      BY <3>1, OneItem
    <3>3. QED
      BY <2>2, <3>2, SlashesAre
  <2>3. QED
    BY <1>3, <2>1, <2>2
<1>5. PICK E \in 0..1 : /\ last \in Seq(Octets) /\ E = Len(last)
                        /\ E = 1 => last[1] \in Slashes
  <2>1. CASE last = << >>
    <3>1. << >> \in Seq(Octets) /\ Len(<< >>) = 0
      OBVIOUS
    <3>2. QED
      BY <2>1, <3>1
  <2>2. ASSUME NEW c \in Slashes, last = <<c>>
        PROVE  last \in Seq(Octets) /\ Len(last) = 1 /\ last[1] \in Slashes
    <3>1. c \in Octets
      BY SlashesAre
    <3>2. <<c>> \in Seq(Octets) /\ Len(<<c>>) = 1 /\ <<c>>[1] = c
      BY <3>1, OneItem
    <3>3. QED
      BY <2>2, <3>2
  <2>3. QED
    BY <1>3, <2>1, <2>2
<1>6. OtherOf(other, F, name, N, E)
  BY <1>1, <1>3, <1>4, <1>5, OtherIs, Zenon
<1>7. other # << >> /\ (other[1] = Slash <=> F = 1)
  <2>1. Len(other) >= 1
    BY <1>2, <1>6 DEF OtherOf
  <2>2. CASE F = 1
    <3>1. F \in Nat /\ Joins(front \o name, front, F, name, N, Octets)
      BY <1>1, <1>4, Joined
    <3>2. /\ front \o name \in Seq(Octets) /\ Len(front \o name) = F + N
          /\ (front \o name)[1] = Slash
      BY <1>4, <2>2, <3>1 DEF Joins
    <3>3. other[1] = (front \o name)[1]
      BY <1>1, <1>3, <1>5, <2>2, <3>2
    <3>4. QED
      BY <2>1, <2>2, <3>2, <3>3
  <2>3. CASE F = 0
    <3>1. other[0 + 1] = name[1] /\ name[1] \notin Slashes
      BY <1>2, <1>6, <2>3 DEF OtherOf
    <3>2. other[1] # Slash
      BY <3>1, SlashesAre
    <3>3. QED
      BY <2>1, <2>3, <3>2
  <2>4. QED
    BY <2>2, <2>3
<1> DEFINE a == IF F = 1 THEN dir ELSE Append(dir, Slash)
<1>8. DirOf(a, F, dir, D)
  <2>1. Slash \in Octets
    BY SlashesAre
  <2>2. /\ Append(dir, Slash) \in Seq(Octets) /\ Len(Append(dir, Slash)) = D + 1
        /\ \A i \in 1..D : Append(dir, Slash)[i] = dir[i]
        /\ Append(dir, Slash)[D + 1] = Slash
    BY <1>1, <2>1
  <2>3. QED
    BY <1>1, <2>2, SlashesAre DEF DirOf
<1>9. path_join(to, other) = a \o other
  <2>1. CASE to = Append(dir, Slash)
    <3>1. to # << >> /\ Last(to) = Slash /\ Front(to) = dir
      <4>1. Slash \in Octets
        BY SlashesAre
      <4>2. /\ to \in Seq(Octets) /\ Len(to) = D + 1 /\ to[D + 1] = Slash
            /\ \A i \in 1..D : to[i] = dir[i]
        BY <1>1, <2>1, <4>1
      <4>3. SubSeq(to, 1, D) = [i \in 1..D |-> dir[i]]
        <5>1. SubSeq(to, 1, D) = [i \in 1..D |-> to[i]]
          BY <1>1, <4>2
        <5>2. QED
          BY <4>2, <5>1
      <4>4. dir = [i \in 1..D |-> dir[i]]
        BY <1>1
      <4>5. Len(to) - 1 = D /\ to # << >>
        BY <1>1, <4>2
      <4>6. QED
        BY <4>2, <4>3, <4>4, <4>5 DEF Last, Front
    <3>2. QED
      BY <1>7, <2>1, <3>1 DEF path_join
  <2>2. CASE to = dir /\ (dir = << >> \/ Last(dir) # Slash)
    BY <1>7, <2>2 DEF path_join
  <2>3. QED
    BY <2>1, <2>2 DEF Joinable
<1> HIDE DEF a
<1>10. PathOf(a \o other, dir, D, name, N, E)
  BY <1>1, <1>6, <1>8, PathJoined, Zenon
<1>11. QED
  BY <1>1, <1>2, <1>9, <1>10, PathTaken

-----------------------------------------------------------------------------
(* The numbers of base.h *)

Bases == {2, 8, 10, 16}

\* A sign is no digit, and what is lowered to a decimal digit is the letter of no base.
LEMMA SignsAre ==
    \A base \in Bases : Digit(Plus, base) = {} /\ Digit(Minus, base) = {} /\ Plus # Zero /\ Minus # Zero
BY DEF Bases, Digit, Lowered, Plus, Minus, Zero

LEMMA NoLetter == \A c \in Octets : Digit(c, 10) # {} => Base(Lowered(c)) = 10
<1> SUFFICES ASSUME NEW c \in Octets, Digit(c, 10) # {} PROVE Base(Lowered(c)) = 10
  OBVIOUS
<1>1. PICK d \in 0..9 : Lowered(c) = Zero + d
  BY DEF Digit
<1>2. Lowered(c) # 98 /\ Lowered(c) # 111 /\ Lowered(c) # 120
  BY <1>1 DEF Zero
<1>3. QED
  BY <1>2 DEF Base

\* the parts of a text and where they are
TextOf(text, L, sign, S, prefix, P, digits) ==
    /\ text \in Seq(Octets) /\ Len(text) = L
    /\ \A i \in 1..S : text[i] = sign[i]
    /\ \A i \in 1..P : text[S + i] = prefix[i]
    /\ \A i \in (S + P + 1)..L : text[i] = digits[i - (S + P)]

LEMMA TextIs ==
    ASSUME NEW sign \in Seq(Octets), NEW S \in Nat, S = Len(sign),
           NEW prefix \in Seq(Octets), NEW P \in Nat, P = Len(prefix),
           NEW digits \in Seq(Octets), NEW D \in Nat, D = Len(digits),
           NEW text, text = sign \o prefix \o digits, NEW L, L = S + P + D
    PROVE  TextOf(text, L, sign, S, prefix, P, digits)
<1>1. PICK b : b = sign \o prefix
  OBVIOUS
<1>2. Joins(b, sign, S, prefix, P, Octets)
  BY <1>1, Joined, Zenon
<1>3. PICK k \in Nat : k = S + P
  OBVIOUS
<1>4. b \in Seq(Octets) /\ Len(b) = k
  BY <1>2, <1>3 DEF Joins
<1>5. Joins(text, b, k, digits, D, Octets)
  BY <1>1, <1>3, <1>4, Joined, Zenon
<1>6. \A i \in 1..S : text[i] = sign[i]
  <2> TAKE i \in 1..S
  <2>1. i \in 1..k
    BY <1>3
  <2>2. QED
    BY <1>2, <1>5, <2>1 DEF Joins
<1>7. \A i \in 1..P : text[S + i] = prefix[i]
  <2> TAKE i \in 1..P
  <2>1. S + i \in 1..k
    BY <1>3
  <2>2. QED
    BY <1>2, <1>5, <2>1 DEF Joins
<1>8. \A i \in (S + P + 1)..L : text[i] = digits[i - (S + P)]
  <2> TAKE i \in (S + P + 1)..L
  <2>1. PICK j \in 1..D : j = i - (S + P) /\ i = k + j
    <3>1. i \in Nat /\ i >= k + 1 /\ i <= k + D
      BY <1>3
    <3>2. i - k \in 1..D /\ i = k + (i - k)
      BY <1>3, <3>1
    <3>3. QED
      BY <1>3, <3>2
  <2>2. QED
    BY <1>5, <2>1 DEF Joins
<1>9. QED
  BY <1>3, <1>5, <1>6, <1>7, <1>8 DEF Joins, TextOf

\* Digits to the last character end behind it, whatever is there.
LEMMA DigitsEndIs ==
    ASSUME NEW t, NEW L \in Nat, NEW first \in 1..L, NEW base, \A i \in first..L : Digit(t[i], base) # {}
    PROVE  DigitsEnd(t, L, first, base) = L + 1
<1> DEFINE S == {e \in first..(L + 3) : /\ \A i \in first..(e - 1) : Digit(t[i], base) # {}
                                        /\ (e > first /\ e > L) \/ Digit(t[e], base) = {}}
<1>1. L + 1 \in S
  <2>1. L + 1 \in first..(L + 3) /\ L + 1 > first /\ L + 1 > L
    OBVIOUS
  <2>2. \A i \in first..((L + 1) - 1) : Digit(t[i], base) # {}
    <3>1. (L + 1) - 1 = L
      OBVIOUS
    <3>2. QED
      BY <3>1
  <2>3. QED
    BY <2>1, <2>2
<1>2. ASSUME NEW e \in S
      PROVE  L + 1 <= e
  <2> SUFFICES ASSUME e <= L PROVE FALSE
    OBVIOUS
  <2>1. e \in first..L
    OBVIOUS
  <2>2. QED
    BY <2>1
<1>3. S \subseteq Int
  OBVIOUS
<1> HIDE DEF S
<1>4. Min(S) = L + 1
  BY <1>1, <1>2, <1>3, MinIs
<1>5. QED
  BY <1>4 DEF DigitsEnd, S

\* The number that starts at the first digit of a text, which has nothing behind its digits.
DigitsTo(text, past, L, t, first, base, digits) ==
    /\ text \in Seq(Octets) /\ past \in Seq(Octets) /\ L \in Nat /\ L = Len(text)
    /\ t = text \o past /\ first \in 1..L
    /\ \A i \in first..L : Digit(text[i], base) # {}
    /\ digits = SubSeq(text, first, L)

NumberTo(t, L, first, base, digits) ==
    NumberOfDigits(t, L, first, base, LongLong) = {[val |-> ValueOf(digits, base, LongLong), end |-> L + 1]}

LEMMA NumberIs ==
    ASSUME NEW text, NEW past, NEW L, NEW t, NEW first, NEW base, NEW digits,
           DigitsTo(text, past, L, t, first, base, digits)
    PROVE  NumberTo(t, L, first, base, digits)
<1> /\ text \in Seq(Octets) /\ past \in Seq(Octets) /\ L \in Nat /\ L = Len(text)
    /\ t = text \o past /\ first \in 1..L
    /\ \A i \in first..L : Digit(text[i], base) # {}
    /\ digits = SubSeq(text, first, L)
  BY DEF DigitsTo
<1>1. PICK m \in Nat : m = Len(past)
  OBVIOUS
<1>2. Joins(t, text, L, past, m, Octets)
  BY <1>1, Joined, Zenon
<1>3. t \in Seq(Octets) /\ Len(t) = L + m /\ \A i \in 1..L : t[i] = text[i]
  BY <1>2 DEF Joins
<1>4. \A i \in first..L : Digit(t[i], base) # {}
  <2> TAKE i \in first..L
  <2>1. i \in 1..L
    OBVIOUS
  <2>2. QED
    BY <1>3, <2>1
<1>5. DigitsEnd(t, L, first, base) = L + 1
  BY <1>4, DigitsEndIs
<1>6. SubSeq(t, first, (L + 1) - 1) = digits
  <2>1. PICK n \in Nat : n = L - first + 1
    <3>1. L - first + 1 \in Nat
      OBVIOUS
    <3>2. QED
      BY <3>1
  <2>2. SubSeq(t, first, L) = [i \in 1..n |-> t[i + first - 1]]
    BY <1>1, <1>3, <2>1
  <2>3. SubSeq(text, first, L) = [i \in 1..n |-> text[i + first - 1]]
    BY <2>1
  <2>4. \A i \in 1..n : t[i + first - 1] = text[i + first - 1]
    <3> TAKE i \in 1..n
    <3>1. i + first - 1 \in 1..L
      BY <2>1
    <3>2. QED
      BY <1>3, <3>1
  <2>5. (L + 1) - 1 = L
    OBVIOUS
  <2>6. QED
    BY <2>2, <2>3, <2>4, <2>5
<1>7. L + 1 # first
  OBVIOUS
<1>8. QED
  BY <1>5, <1>6, <1>7 DEF NumberOfDigits, NumberTo

\* where the digits of a text begin, and in which base
StartsAt(t, L, first, base) ==
    LET start == IF t[1] \in {Plus, Minus} THEN 1 + 1 ELSE 1
        zero == t[start] = Zero /\ (TRUE => start <= L)
    IN /\ base = IF zero THEN Base(Lowered(t[start + 1])) ELSE 10
       /\ first = IF ~zero THEN start ELSE IF base = 10 THEN start + 1 ELSE start + 2

EndingOf(text, L, first, D, digits) ==
    /\ text \in Seq(Octets) /\ L \in Nat /\ L = Len(text) /\ first \in 1..L
    /\ D \in Nat \ {0} /\ L - first + 1 = D /\ digits = SubSeq(text, first, L)
Ending(text, L, first, D, digits) ==
    /\ digits \in Seq(Octets) /\ Len(digits) = D /\ DOMAIN digits = 1..D
    /\ \A i \in first..L : text[i] = digits[i - first + 1]

LEMMA EndingIs ==
    ASSUME NEW text, NEW L, NEW first, NEW D, NEW digits, EndingOf(text, L, first, D, digits)
    PROVE  Ending(text, L, first, D, digits)
BY DEF EndingOf, Ending

\* A long long has no need to wrap a number below its limit, or its opposite.
LEMMA NotWrapped ==
    ASSUME NEW limit \in Nat \ {0}, NEW x \in Nat, x < limit
    PROVE  Wraps(x, limit) = x /\ Wraps(-x, limit) = -x
<1>1. \A y \in 0..(2 * limit - 1) : y % (2 * limit) = y
  OBVIOUS
<1>2. x + limit \in 0..(2 * limit - 1) /\ -x + limit \in 0..(2 * limit - 1)
  OBVIOUS
<1>3. QED
  BY <1>1, <1>2 DEF Wraps

\* So digits of a number below the limit are read as that number.
LEMMA ValueIs ==
    ASSUME NEW digits \in Seq(Octets), NEW base \in Bases,
           \A k \in 1..Len(digits) : Digit(digits[k], base) # {}, Value(digits, base) < LongLong
    PROVE  Value(digits, base) \in Nat /\ ValueOf(digits, base, LongLong) = Value(digits, base)
<1> DEFINE n == Len(digits)
           digit(k) == CHOOSE d \in Digit(digits[k], base) : TRUE
           next(k, x) == base * x + digit(k)
           step == [p \in (1..n) \X Nat |-> next(p[1], p[2])]
           Is(h) == h = [k \in 0..n |-> IF k = 0 THEN 0 ELSE next(k, h[k - 1])]
           Wrapped(h) == h = [k \in 0..n |-> IF k = 0 THEN 0 ELSE Wraps(next(k, h[k - 1]), LongLong)]
<1>1. Value(digits, base) = (CHOOSE g : Is(g))[n]
  BY DEF Value
<1>2. ValueOf(digits, base, LongLong) = (CHOOSE g : Wrapped(g))[n]
  BY DEF ValueOf
<1>3. n \in Nat /\ 0 \in Nat /\ \A k \in 1..n, x \in Nat : next(k, x) \in Nat /\ x <= next(k, x)
  <2>1. \A k \in 1..n : digit(k) \in Nat
    BY DEF Bases, Digit
  <2> HIDE DEF digit
  <2>2. \A x, d \in Nat : base * x + d \in Nat /\ x <= base * x + d
    BY DEF Bases
  <2>3. ASSUME NEW k \in 1..n, NEW x \in Nat PROVE next(k, x) \in Nat /\ x <= next(k, x)
    <3>1. PICK d \in Nat : d = digit(k)
      BY <2>1
    <3>2. next(k, x) = base * x + d
      BY <3>1
    <3> HIDE DEF next
    <3>3. QED
      BY <2>2, <3>2
  <2>4. QED
    BY <2>3
<1> HIDE DEF n, next
<1>4. ASSUME NEW h
      PROVE  Is(h) <=> (h = [k \in 0..n |-> h[k]] /\ h[0] = 0 /\ \A k \in 1..n : h[k] = next(k, h[k - 1]))
  <2>1. 0 \in 0..n /\ \A k \in 0..n : k = 0 \/ k \in 1..n
    BY <1>3
  <2>2. \A k \in 1..n : k \in 0..n /\ k # 0
    BY <1>3
  <2>3. QED
    BY <2>1, <2>2
<1> HIDE DEF Is
<1>5. step \in [(1..n) \X Nat -> Nat] /\ \A k \in 1..n, x \in Nat : step[<<k, x>>] = next(k, x)
  BY <1>3
<1> HIDE DEF step
<1>6. PICK f \in [0..n -> Nat] : Follows(f, n, 0, step)
  BY <1>3, <1>5, Recursion
<1>7. f = [k \in 0..n |-> f[k]] /\ f[0] = 0 /\ \A k \in 1..n : f[k] = next(k, f[k - 1])
  <2>1. \A k \in 1..n : k - 1 \in 0..n
    BY <1>3
  <2>2. \A k \in 1..n : f[k - 1] \in Nat
    BY <2>1
  <2>3. QED
    BY <1>5, <1>6, <2>2 DEF Follows
<1>8. PICK h : h = (CHOOSE g : Is(g)) /\ Is(h)
  BY <1>4, <1>7
<1>9. Recurs(h, n, 0, step, Nat)
  BY <1>4, <1>5, <1>8 DEF Recurs
<1>10. h \in [0..n -> Nat]
  BY <1>3, <1>5, <1>9, RecursIs
<1>11. h[0] = 0 /\ \A k \in 1..n : h[k] = next(k, h[k - 1])
  BY <1>4, <1>8
<1>12. \A k \in 0..n : h[k] \in Nat /\ h[k] < LongLong
  <2>1. \A k \in 1..n : h[k - 1] <= h[k]
    <3> TAKE k \in 1..n
    <3>1. k - 1 \in 0..n
      BY <1>3
    <3>2. h[k - 1] \in Nat
      BY <1>10, <3>1
    <3>3. QED
      BY <1>3, <1>11, <3>2
  <2>2. \A i, j \in 0..n : i <= j => h[i] <= h[j]
    BY <1>3, <1>10, <2>1, Monotone
  <2>3. h[n] < LongLong
    BY <1>1, <1>8
  <2>4. ASSUME NEW k \in 0..n PROVE h[k] \in Nat /\ h[k] < LongLong
    <3>1. n \in 0..n /\ k <= n
      BY <1>3
    <3>2. h[k] \in Nat /\ h[n] \in Nat /\ h[k] <= h[n]
      BY <1>10, <2>2, <3>1
    <3>3. QED
      BY <2>3, <3>2, LongLongAssumption
  <2>5. QED
    BY <2>4
<1>13. ASSUME NEW g
       PROVE  Wrapped(g) <=> (g = [k \in 0..n |-> g[k]] /\ g[0] = 0
                              /\ \A k \in 1..n : g[k] = Wraps(next(k, g[k - 1]), LongLong))
  <2>1. 0 \in 0..n /\ \A k \in 0..n : k = 0 \/ k \in 1..n
    BY <1>3
  <2>2. \A k \in 1..n : k \in 0..n /\ k # 0
    BY <1>3
  <2>3. QED
    BY <2>1, <2>2
<1> HIDE DEF Wrapped
<1>14. \A k \in 1..n : h[k] = Wraps(next(k, h[k - 1]), LongLong)
  <2> TAKE k \in 1..n
  <2>1. k \in 0..n
    BY <1>3
  <2>2. Wraps(h[k], LongLong) = h[k]
    BY <1>12, <2>1, LongLongAssumption, NotWrapped
  <2>3. QED
    BY <1>11, <2>2
<1>15. PICK g : g = (CHOOSE w : Wrapped(w)) /\ Wrapped(g)
  BY <1>4, <1>8, <1>11, <1>13, <1>14
<1> DEFINE R == {k \in 0..n : g[k] = h[k]}
<1>16. 0 \in R
  BY <1>3, <1>11, <1>13, <1>15
<1>17. ASSUME NEW k \in 1..n, k - 1 \in R PROVE k \in R
  <2>1. g[k] = Wraps(next(k, h[k - 1]), LongLong)
    BY <1>13, <1>15, <1>17
  <2>2. k \in 0..n
    BY <1>3
  <2>3. QED
    BY <1>14, <2>1, <2>2
<1> HIDE DEF R
<1>18. \A k \in 0..n : k \in R
  BY <1>3, <1>16, <1>17, InductUpTo
<1>19. n \in 0..n
  BY <1>3
<1>20. g[n] = h[n]
  BY <1>18, <1>19 DEF R
<1>21. QED
  BY <1>1, <1>2, <1>8, <1>12, <1>15, <1>19, <1>20

\* a text whose number is n
NumberIn(text, past, L, first, base, n) ==
    /\ text \in Seq(Octets) /\ past \in Seq(Octets) /\ L \in Nat /\ L = Len(text)
    /\ first \in 1..L /\ StartsAt(text \o past, L, first, base)
    /\ \A i \in first..L : Digit(text[i], base) # {}
    /\ base \in Bases /\ Value(SubSeq(text, first, L), base) < LongLong
    /\ n = IF (text \o past)[1] = Minus THEN -Value(SubSeq(text, first, L), base)
           ELSE Value(SubSeq(text, first, L), base)
ParsedAs(text, past, L, n) == parsenum(text, past) = {[val |-> n, end |-> L]}

LEMMA NumberParsed ==
    ASSUME NEW text, NEW past, NEW L, NEW first, NEW base, NEW n,
           NumberIn(text, past, L, first, base, n)
    PROVE  ParsedAs(text, past, L, n)
<1> /\ text \in Seq(Octets) /\ past \in Seq(Octets) /\ L \in Nat /\ L = Len(text)
    /\ first \in 1..L /\ StartsAt(text \o past, L, first, base)
    /\ \A i \in first..L : Digit(text[i], base) # {}
    /\ base \in Bases /\ Value(SubSeq(text, first, L), base) < LongLong
    /\ n = IF (text \o past)[1] = Minus THEN -Value(SubSeq(text, first, L), base)
           ELSE Value(SubSeq(text, first, L), base)
  BY DEF NumberIn
<1>1. PICK t : t = text \o past
  OBVIOUS
<1>2. PICK v \in Nat : /\ v = Value(SubSeq(text, first, L), base) /\ v < LongLong
                       /\ ValueOf(SubSeq(text, first, L), base, LongLong) = v
  <2>1. EndingOf(text, L, first, L - first + 1, SubSeq(text, first, L))
    BY DEF EndingOf
  <2>2. Ending(text, L, first, L - first + 1, SubSeq(text, first, L))
    BY <2>1, EndingIs, Zenon
  <2>3. PICK digits : digits = SubSeq(text, first, L)
    OBVIOUS
  <2>4. /\ digits \in Seq(Octets) /\ Len(digits) = L - first + 1
        /\ \A i \in first..L : text[i] = digits[i - first + 1]
    BY <2>2, <2>3 DEF Ending
  <2>5. \A k \in 1..Len(digits) : Digit(digits[k], base) # {}
    <3> TAKE k \in 1..Len(digits)
    <3>1. k + first - 1 \in first..L /\ (k + first - 1) - first + 1 = k
      BY <2>4
    <3>2. QED
      BY <2>4, <3>1
  <2>6. Value(digits, base) \in Nat /\ ValueOf(digits, base, LongLong) = Value(digits, base)
    BY <2>3, <2>4, <2>5, ValueIs
  <2>7. QED
    BY <2>3, <2>6
<1>3. PICK start : start = IF t[1] \in {Plus, Minus} THEN 1 + 1 ELSE 1
  OBVIOUS
<1>4. PICK zero \in BOOLEAN : zero = (t[start] = Zero /\ (TRUE => start <= L))
  OBVIOUS
<1>5. /\ base = IF zero THEN Base(Lowered(t[start + 1])) ELSE 10
      /\ first = IF ~zero THEN start ELSE IF base = 10 THEN start + 1 ELSE start + 2
  BY <1>1, <1>3, <1>4 DEF StartsAt
<1>6. NumberOfDigits(t, L, first, base, LongLong) = {[val |-> v, end |-> L + 1]}
  <2>1. PICK digits : digits = SubSeq(text, first, L)
    OBVIOUS
  <2>2. NumberOfDigits(t, L, first, base, LongLong) = {[val |-> ValueOf(digits, base, LongLong), end |-> L + 1]}
    <3>1. DigitsTo(text, past, L, t, first, base, digits)
      BY <1>1, <2>1 DEF DigitsTo
    <3>2. NumberTo(t, L, first, base, digits)
      BY <3>1, NumberIs, Zenon
    <3>3. QED
      BY <3>2 DEF NumberTo
  <2>3. QED
    BY <1>2, <2>1, <2>2
<1>7. n = IF t[1] = Minus THEN Wraps(-v, LongLong) ELSE v
  <2>1. Wraps(-v, LongLong) = -v
    BY <1>2, LongLongAssumption, NotWrapped
  <2>2. QED
    BY <1>1, <1>2, <2>1
<1> DEFINE Signed(r) == [r EXCEPT !.val = IF t[1] = Minus THEN Wraps(-@, LongLong) ELSE @]
           Ended(r) == [r EXCEPT !.end = @ - 1]
<1>8. NumberAt(t, L, 1, TRUE, LongLong) = {Signed(r) : r \in NumberOfDigits(t, L, first, base, LongLong)}
  BY <1>3, <1>4, <1>5 DEF NumberAt
<1>9. Signed([val |-> v, end |-> L + 1]) = [val |-> n, end |-> L + 1]
  BY <1>7
<1>10. Ended([val |-> n, end |-> L + 1]) = [val |-> n, end |-> L]
  OBVIOUS
<1>11. parsenum(text, past) = {Ended(r) : r \in NumberAt(t, L, 1, TRUE, LongLong)}
  <2>1. text # << >>
    OBVIOUS
  <2>2. QED
    BY <1>1, <2>1 DEF parsenum
<1> HIDE DEF Signed, Ended
<1>12. NumberAt(t, L, 1, TRUE, LongLong) = {[val |-> n, end |-> L + 1]}
  <2>1. PICK a, b : a = [val |-> v, end |-> L + 1] /\ b = [val |-> n, end |-> L + 1]
    OBVIOUS
  <2>2. {Signed(r) : r \in {a}} = {Signed(a)}
    OBVIOUS
  <2>3. QED
    BY <1>6, <1>8, <1>9, <2>1, <2>2
<1>13. QED
  <2>1. PICK a, b : a = [val |-> n, end |-> L + 1] /\ b = [val |-> n, end |-> L]
    OBVIOUS
  <2>2. {Ended(r) : r \in {a}} = {Ended(a)}
    OBVIOUS
  <2>3. QED
    BY <1>10, <1>11, <1>12, <2>1, <2>2 DEF ParsedAs

\* the three ways a number is spelled: what is before its digits, and the base
Ahead(sign, S, prefix, P, base) ==
    /\ sign \in {<< >>, <<Plus>>, <<Minus>>} /\ S = Len(sign) /\ P = Len(prefix)
    /\ \/ prefix \in Prefixes10 /\ base = 10
       \/ base \in {2, 8, 16} /\ prefix \in Prefixed(base)

OfSign(sign, S) ==
    /\ sign \in Seq(Octets) /\ S \in 0..1
    /\ S = 0 => sign = << >>
    /\ S = 1 => sign[1] \in {Plus, Minus} /\ sign = <<sign[1]>>
OfBase(prefix, P, base) ==
    /\ prefix \in Seq(Octets) /\ P \in 0..2 /\ base \in Bases
    /\ P = 0 => base = 10 /\ prefix = << >>
    /\ P = 1 => base = 10 /\ prefix[1] = Zero
    /\ P = 2 => base # 10 /\ prefix[1] = Zero /\ Base(Lowered(prefix[2])) = base

LEMMA BeforeIs ==
    ASSUME NEW sign, NEW S, NEW prefix, NEW P, NEW base, Ahead(sign, S, prefix, P, base)
    PROVE  OfSign(sign, S) /\ OfBase(prefix, P, base)
<1>1. Plus \in Octets /\ Minus \in Octets /\ Zero \in Octets
  BY DEF Plus, Minus, Zero, Octets
<1>2. OfSign(sign, S)
  <2>1. CASE sign = << >>
    BY <2>1 DEF Ahead, OfSign
  <2>2. ASSUME NEW c \in {Plus, Minus}, sign = <<c>>
        PROVE  OfSign(sign, S)
    <3>1. c \in Octets
      BY <1>1
    <3>2. Len(sign) = 1 /\ sign[1] = c
      BY <2>2
    <3>3. sign \in Seq(Octets)
      BY <2>2, <3>1
    <3>4. QED
      BY <3>2, <3>3 DEF Ahead, OfSign
  <2>3. QED
    BY <2>1, <2>2 DEF Ahead
<1>3. ASSUME prefix = << >>, base = 10
      PROVE  OfBase(prefix, P, base)
  BY <1>3 DEF Ahead, Bases, OfBase
<1>4. ASSUME prefix = <<Zero>>, base = 10
      PROVE  OfBase(prefix, P, base)
  <2>1. prefix \in Seq(Octets) /\ Len(prefix) = 1 /\ prefix[1] = Zero
    BY <1>1, <1>4
  <2>2. QED
    BY <1>4, <2>1 DEF Ahead, Bases, OfBase
<1>5. ASSUME NEW c \in 65..122, base \in {2, 8, 16}, Base(Lowered(c)) = base, prefix = <<Zero, c>>
      PROVE  OfBase(prefix, P, base)
  <2>1. c \in Octets
    BY DEF Octets
  <2>2. prefix \in Seq(Octets) /\ Len(prefix) = 2 /\ prefix[1] = Zero /\ prefix[2] = c
    BY <1>1, <1>5, <2>1
  <2>3. QED
    BY <1>5, <2>2 DEF Ahead, Bases, OfBase
<1>6. QED
  BY <1>2, <1>3, <1>4, <1>5 DEF Ahead, Prefixes10, Prefixed

\* What is before the digits says where they start.
Parts(sign, S, prefix, P, base, digits, D, text, L, t, first) ==
    /\ Ahead(sign, S, prefix, P, base)
    /\ digits \in Seq(Octets) /\ D \in Nat \ {0} /\ D = Len(digits)
    /\ \A k \in 1..D : Digit(digits[k], base) # {}
    /\ P # 0 \/ digits[1] # Zero
    /\ L \in Nat /\ L = S + P + D /\ TextOf(text, L, sign, S, prefix, P, digits)
    /\ \A i \in 1..L : t[i] = text[i]
    /\ first = S + P + 1

LEMMA StartsIs ==
    ASSUME NEW sign, NEW S, NEW prefix, NEW P, NEW base, NEW digits, NEW D, NEW text, NEW L,
           NEW t, NEW first, Parts(sign, S, prefix, P, base, digits, D, text, L, t, first)
    PROVE  /\ StartsAt(t, L, first, base)
           /\ t[1] = Minus <=> sign = <<Minus>>
<1> /\ Ahead(sign, S, prefix, P, base)
    /\ digits \in Seq(Octets) /\ D \in Nat \ {0} /\ D = Len(digits)
    /\ \A k \in 1..D : Digit(digits[k], base) # {}
    /\ P # 0 \/ digits[1] # Zero
    /\ L \in Nat /\ L = S + P + D /\ TextOf(text, L, sign, S, prefix, P, digits)
    /\ \A i \in 1..L : t[i] = text[i]
    /\ first = S + P + 1
  BY DEF Parts
<1>1. /\ sign \in Seq(Octets) /\ S \in 0..1
      /\ S = 0 => sign = << >>
      /\ S = 1 => sign[1] \in {Plus, Minus} /\ sign = <<sign[1]>>
      /\ prefix \in Seq(Octets) /\ P \in 0..2 /\ base \in Bases
      /\ P = 0 => base = 10 /\ prefix = << >>
      /\ P = 1 => base = 10 /\ prefix[1] = Zero
      /\ P = 2 => base # 10 /\ prefix[1] = Zero /\ Base(Lowered(prefix[2])) = base
  BY BeforeIs DEF OfSign, OfBase
<1>0. S \in Nat /\ P \in Nat
  BY <1>1
<1>2. /\ \A i \in 1..S : t[i] = sign[i]
      /\ \A i \in 1..P : t[S + i] = prefix[i]
      /\ \A i \in 1..D : t[S + P + i] = digits[i]
  <2>1. ASSUME NEW i \in 1..S PROVE t[i] = sign[i]
    <3>1. i \in 1..L
      BY <1>0
    <3>2. QED
      BY <3>1 DEF TextOf
  <2>2. ASSUME NEW i \in 1..P PROVE t[S + i] = prefix[i]
    <3>1. S + i \in 1..L
      BY <1>0
    <3>2. QED
      BY <3>1 DEF TextOf
  <2>3. ASSUME NEW i \in 1..D PROVE t[S + P + i] = digits[i]
    <3>1. S + P + i \in 1..L /\ S + P + i \in (S + P + 1)..L /\ (S + P + i) - (S + P) = i
      BY <1>0
    <3>2. QED
      BY <3>1 DEF TextOf
  <2>4. QED
    BY <2>1, <2>2, <2>3
<1>3. PICK d : d = digits[1]
  OBVIOUS
<1>4. d \in Octets /\ Digit(d, base) # {} /\ t[first] = d
  BY <1>1, <1>2, <1>3
<1>5. d # Plus /\ d # Minus
  BY <1>1, <1>4, SignsAre
<1>6. PICK start \in Nat : start = S + 1
  BY <1>1
<1>7. t[start] = IF P = 0 THEN d ELSE Zero
  <2>1. CASE P = 0
    <3>1. start = first
      BY <1>0, <1>6, <2>1
    <3>2. QED
      BY <1>4, <2>1, <3>1
  <2>2. CASE P # 0
    <3>1. 1 \in 1..P /\ prefix[1] = Zero
      BY <1>1, <2>2
    <3>2. t[S + 1] = prefix[1]
      BY <1>2, <3>1
    <3>3. QED
      BY <1>6, <2>2, <3>1, <3>2
  <2>3. QED
    BY <2>1, <2>2
<1>8. Plus # Zero /\ Minus # Zero
  BY SignsAre DEF Bases
<1>9. start = IF t[1] \in {Plus, Minus} THEN 1 + 1 ELSE 1
  <2>1. CASE S = 0
    BY <1>5, <1>6, <1>7, <1>8, <2>1
  <2>2. CASE S = 1
    <3>1. t[1] = sign[1]
      BY <1>2, <2>2
    <3>2. QED
      BY <1>1, <1>6, <2>2, <3>1
  <2>3. QED
    BY <1>1, <2>1, <2>2
<1>10. (t[start] = Zero /\ (TRUE => start <= L)) <=> P # 0
  BY <1>1, <1>3, <1>6, <1>7
<1>11. base = IF P # 0 THEN Base(Lowered(t[start + 1])) ELSE 10
  <2>1. CASE P = 0
    BY <1>1, <2>1
  <2>2. CASE P = 1
    <3>1. t[start + 1] = d
      BY <1>4, <1>6, <2>2
    <3>2. Base(Lowered(d)) = 10
      BY <1>1, <1>4, <2>2, NoLetter
    <3>3. QED
      BY <1>1, <2>2, <3>1, <3>2
  <2>3. CASE P = 2
    <3>1. t[start + 1] = prefix[2]
      <4>1. start + 1 = S + 2 /\ 2 \in 1..P
        BY <1>1, <1>6, <2>3
      <4>2. t[S + 2] = prefix[2]
        BY <1>2, <4>1
      <4>3. QED
        BY <4>1, <4>2
    <3>2. QED
      BY <1>1, <2>3, <3>1
  <2>4. QED
    BY <1>1, <2>1, <2>2, <2>3
<1>12. first = IF ~(P # 0) THEN start ELSE IF base = 10 THEN start + 1 ELSE start + 2
  BY <1>1, <1>6
<1>13. StartsAt(t, L, first, base)
  BY <1>9, <1>10, <1>11, <1>12 DEF StartsAt
<1>14. t[1] = Minus <=> sign = <<Minus>>
  <2>1. CASE S = 0
    <3>1. sign = << >>
      BY <1>1, <2>1
    <3>2. t[1] # Minus
      BY <1>5, <1>6, <1>7, <1>8, <2>1
    <3>3. QED
      BY <3>1, <3>2
  <2>2. CASE S = 1
    <3>1. t[1] = sign[1]
      BY <1>2, <2>2
    <3>2. PICK c : c = sign[1]
      OBVIOUS
    <3>3. sign = <<c>>
      BY <1>1, <2>2, <3>2
    <3>4. sign = <<Minus>> <=> c = Minus
      BY <3>3
    <3>5. QED
      BY <3>1, <3>2, <3>4
  <2>3. QED
    BY <1>1, <2>1, <2>2
<1>15. QED
  BY <1>13, <1>14

\* parsenum reads what spells a number as that number, up to its last digit, whatever
\* is in memory behind it (base.h).
THEOREM NumberUndone ==
    ASSUME NEW text \in Seq(Octets), NEW n, Spells(text, n)
    PROVE  parsenum(text, Past) = {[val |-> n, end |-> Len(text)]}
<1>1. PICK sign, prefix, base :
         /\ sign \in {<< >>, <<Plus>>, <<Minus>>}
         /\ SpelledBy(text, n, sign, prefix, base)
         /\ \/ prefix \in Prefixes10 /\ base = 10
            \/ base \in {2, 8, 16} /\ prefix \in Prefixed(base)
  BY DEF Spells
<1>2. PICK S, P : S = Len(sign) /\ P = Len(prefix)
  OBVIOUS
<1>3. Ahead(sign, S, prefix, P, base)
  BY <1>1, <1>2 DEF Ahead
<1>4. /\ sign \in Seq(Octets) /\ S \in Nat
      /\ prefix \in Seq(Octets) /\ P \in Nat
      /\ P = 0 => prefix = << >>
  BY <1>3, BeforeIs DEF OfSign, OfBase
<1>5. PICK L \in Nat : L = Len(text)
  OBVIOUS
<1>6. PICK first \in Nat : first = S + P + 1
  BY <1>4
<1>7. PICK digits : digits = SubSeq(text, first, L)
  OBVIOUS
<1>8. /\ text = sign \o prefix \o digits /\ first <= L
      /\ \A k \in DOMAIN digits : Digit(digits[k], base) # {}
      /\ prefix = << >> => digits[1] # Zero
      /\ Value(digits, base) < LongLong
      /\ n = IF sign = <<Minus>> THEN -Value(digits, base) ELSE Value(digits, base)
  <2>1. first = Len(sign) + Len(prefix) + 1
    BY <1>2, <1>6
  <2>2. QED
    BY <1>1, <1>5, <1>7, <2>1, Zenon DEF SpelledBy
<1>9. PICK D \in Nat \ {0} : D = L - (S + P)
  BY <1>4, <1>6, <1>8
<1>10. first \in 1..L /\ L = S + P + D /\ L - first + 1 = D
  BY <1>4, <1>6, <1>8, <1>9
<1>11. /\ digits \in Seq(Octets) /\ Len(digits) = D /\ DOMAIN digits = 1..D
       /\ \A i \in first..L : text[i] = digits[i - first + 1]
  <2>1. EndingOf(text, L, first, D, digits)
    BY <1>5, <1>7, <1>10 DEF EndingOf
  <2>2. Ending(text, L, first, D, digits)
    BY <2>1, EndingIs, Zenon
  <2>3. QED
    BY <2>2 DEF Ending
<1>12. \A k \in 1..D : Digit(digits[k], base) # {}
  BY <1>8, <1>11
<1>13. P # 0 \/ digits[1] # Zero
  <2>1. CASE P = 0
    <3>1. prefix = << >>
      BY <1>4, <2>1
    <3>2. QED
      BY <1>8, <3>1
  <2>2. QED
    BY <2>1
<1>14. TextOf(text, L, sign, S, prefix, P, digits)
  BY <1>2, <1>4, <1>8, <1>10, <1>11, TextIs, Zenon
<1>15. PICK t : t = text \o Past
  OBVIOUS
<1>16. \A i \in 1..L : t[i] = text[i]
  <2>1. Past \in Seq(Octets)
    BY PastAssumption DEF Octets
  <2>2. PICK m \in Nat : m = Len(Past)
    BY <2>1
  <2>3. Joins(t, text, L, Past, m, Octets)
    BY <1>5, <1>15, <2>1, <2>2, Joined, Zenon
  <2>4. QED
    BY <2>3 DEF Joins
<1>17. StartsAt(t, L, first, base) /\ (t[1] = Minus <=> sign = <<Minus>>)
  <2>1. Parts(sign, S, prefix, P, base, digits, D, text, L, t, first)
    BY <1>3, <1>6, <1>9, <1>10, <1>11, <1>12, <1>13, <1>14, <1>16 DEF Parts
  <2>2. QED
    BY <2>1, StartsIs, Zenon
<1>18. \A i \in first..L : Digit(text[i], base) # {}
  <2> TAKE i \in first..L
  <2>1. i - first + 1 \in 1..D
    BY <1>6, <1>10
  <2>2. digits[i - first + 1] = text[i]
    BY <1>11
  <2>3. QED
    BY <1>12, <2>1, <2>2
<1>19. n = IF t[1] = Minus THEN -Value(digits, base) ELSE Value(digits, base)
  BY <1>8, <1>17
<1>20. QED
  <2>1. Past \in Seq(Octets)
    BY PastAssumption DEF Octets
  <2>2. NumberIn(text, Past, L, first, base, n)
    <3>1. base \in Bases
      BY <1>1 DEF Bases
    <3>2. QED
      BY <1>5, <1>7, <1>8, <1>10, <1>15, <1>17, <1>18, <1>19, <2>1, <3>1 DEF NumberIn
  <2>3. ParsedAs(text, Past, L, n)
    BY <2>2, NumberParsed, Zenon
  <2>4. QED
    BY <1>5, <2>3 DEF ParsedAs

-----------------------------------------------------------------------------
(* The filters of PNG *)

\* What was taken from a byte is added to it again.
LEMMA AddedBack == \A x \in Octets : \A p \in Octets : (((x - p) % 256) + p) % 256 = x
BY DEF Octets

\* The code's Paeth filter, where it has no wrap and no tie, is the predictor of PNG.
LEMMA PaethIs ==
    ASSUME NEW a \in Octets, NEW b \in Octets, NEW c \in Octets,
           a + b - c \in 0..255, a # c => b - c # 2 * (c - a)
    PROVE  Paeth(a, b, c) = PaethPredictor(a, b, c) /\ Paeth(a, b, c) \in Octets
<1>1. PICK p \in 0..255 : p = a + b - c
  OBVIOUS
<1>2. p % 256 = p
  OBVIOUS
<1>3. (a + b - c) % 256 = p
  BY <1>1, <1>2
<1> DEFINE far(x) == IF p < x THEN x - p ELSE p - x
           dist(x) == IF p > x THEN p - x ELSE x - p
           best == {x \in {a, b, c} : \A y \in {a, b, c} : dist(x) <= dist(y)}
<1>4. PICK fa, fb, fc \in Nat : fa = far(a) /\ fb = far(b) /\ fc = far(c)
  <2>1. far(a) \in Nat /\ far(b) \in Nat /\ far(c) \in Nat
    BY DEF Octets
  <2>2. QED
    BY <2>1
<1>5. dist(a) = fa /\ dist(b) = fb /\ dist(c) = fc
  BY <1>4 DEF Octets
<1>6. Paeth(a, b, c) = IF fa <= fb /\ fa <= fc THEN a ELSE IF fb < fc THEN b ELSE c
  BY <1>3, <1>4 DEF Paeth
<1>7. /\ a \in best <=> fa <= fb /\ fa <= fc
      /\ b \in best <=> fb <= fa /\ fb <= fc
  <2> HIDE DEF dist
  <2>1. QED
    BY <1>5
<1>8. PaethPredictor(a, b, c) = IF a \in best THEN a ELSE IF b \in best THEN b ELSE c
  BY <1>1 DEF PaethPredictor
<1>9. (fa <= fb /\ fa <= fc) \/ fb # fc
  BY <1>1, <1>4 DEF Octets
<1> HIDE DEF far, dist, best
<1>10. QED
  BY <1>6, <1>7, <1>8, <1>9

\* What a filter adds is what was taken.
TakenBy(f, a, b, c) ==
    CASE f = 0 -> 0 [] f = 1 -> a [] f = 2 -> b
      [] f = 3 -> (a + b) \div 2
      [] f = 4 -> PaethPredictor(a, b, c)

LEMMA AddedIs ==
    ASSUME NEW f \in 0..4, NEW a \in Octets, NEW b \in Octets, NEW c \in Octets,
           f = 4 => a + b - c \in 0..255 /\ (a # c => b - c # 2 * (c - a))
    PROVE  Added(f, a, b, c) = TakenBy(f, a, b, c) /\ Added(f, a, b, c) \in Octets
<1>1. CASE f = 0
  BY <1>1 DEF Added, TakenBy, Octets
<1>2. CASE f = 1
  BY <1>2 DEF Added, TakenBy
<1>3. CASE f = 2
  BY <1>3 DEF Added, TakenBy
<1>4. CASE f = 3
  <2>1. \A x, y \in 0..255 : (x + y) \div 2 \in 0..255
    OBVIOUS
  <2>2. (a + b) \div 2 \in Octets
    BY <2>1 DEF Octets
  <2>3. QED
    BY <1>4, <2>2 DEF Added, TakenBy
<1>5. CASE f = 4
  BY <1>5, PaethIs DEF Added, TakenBy
<1>6. QED
  BY <1>1, <1>2, <1>3, <1>4, <1>5

\* N bytes of pixels, in m rows of w
Image(h, x, w, m, N) ==
    /\ w \in Nat /\ m \in Nat /\ N \in Nat /\ N = w * m
    /\ w = chan * h.width /\ m = h.height /\ N = Size(h)
    /\ x \in [1..N -> Octets]

\* Byte n is byte k of row i.
PlaceAt(n, w, i, k) ==
    /\ n = w * (i - 1) + k
    /\ (n - 1) \div w = i - 1 /\ (n - 1) % w = k - 1

InRows(n, w, m) == w # 0 /\ \E i \in 1..m, k \in 1..w : PlaceAt(n, w, i, k)

LEMMA PlaceIn ==
    ASSUME NEW w \in Nat, NEW m \in Nat, NEW N \in Nat, N = w * m, NEW n \in 1..N
    PROVE  InRows(n, w, m)
<1>1. w # 0
  <2>1. \A y \in Nat : 0 * y = 0
    OBVIOUS
  <2>2. QED
    BY <2>1
<1>2. w \in Nat \ {0} /\ n \in 1..(w * m)
  BY <1>1
<1>3. PICK i \in 1..m, k \in 1..w : n = w * (i - 1) + k
  BY <1>2, Grouped
<1>0. PICK v : v = n - 1
  OBVIOUS
<1>4. PICK q \in Nat, r \in 0..(w - 1) : q = i - 1 /\ r = k - 1
  <2>1. i - 1 \in Nat /\ k - 1 \in 0..(w - 1)
    OBVIOUS
  <2>2. QED
    BY <2>1
<1>5. v = q * w + r
  <2>1. w * q = q * w /\ w * q \in Nat
    OBVIOUS
  <2>2. QED
    BY <1>0, <1>3, <1>4, <2>1
<1>6. v \div w = q /\ v % w = r
  BY <1>2, <1>5, DividedOnce
<1>7. QED
  BY <1>0, <1>1, <1>3, <1>4, <1>6 DEF PlaceAt, InRows

\* The bytes around byte n are among those in front of it.
LEMMA AroundIs ==
    ASSUME NEW h, NEW x, NEW w, NEW m, NEW N, Image(h, x, w, m, N), NEW n \in 1..N,
           NEW r, \A j \in 1..(n - 1) : r[j] = x[j]
    PROVE  /\ Around(h, r, n) = Around(h, x, n)
           /\ \E a, b, c \in Octets : Around(h, x, n) = <<a, b, c>>
<1>1. /\ w \in Nat /\ m \in Nat /\ N \in Nat /\ N = w * m /\ w = chan * h.width
      /\ \A j \in 1..N : x[j] \in Octets
  BY DEF Image
<1>2. w # 0
  BY <1>1, PlaceIn DEF InRows
<1>3. PICK i \in 1..m, k \in 1..w : PlaceAt(n, w, i, k)
  <2>1. InRows(n, w, m)
    BY <1>1, PlaceIn
  <2>2. QED
    BY <2>1, Zenon DEF InRows
<1>4. n = w * (i - 1) + k /\ (n - 1) % w = k - 1
  BY <1>3 DEF PlaceAt
<1>5. PICK up \in Nat : up = w * (i - 1) /\ (n > w => up >= w)
  <2>1. i - 1 \in Nat /\ w * (i - 1) \in Nat
    BY <1>1
  <2>2. CASE i = 1
    <3>1. w * (i - 1) = 0
      BY <1>1, <2>2
    <3>2. n = k
      BY <1>1, <1>4, <3>1
    <3>3. QED
      BY <1>1, <2>1, <3>2
  <2>3. CASE i # 1
    <3>1. PICK d \in Nat : d = i - 2
      BY <1>1, <2>3
    <3>2. w * (d + 1) = w * d + w /\ w * d \in Nat
      BY <1>1
    <3>3. i - 1 = d + 1
      BY <1>1, <3>1
    <3>4. QED
      BY <1>1, <2>1, <3>2, <3>3
  <2>4. QED
    BY <2>2, <2>3
<1>6. k \in Nat /\ n = up + k /\ n \in Nat
  BY <1>1, <1>4, <1>5
<1> DEFINE first == (n - 1) % w < chan
           top == n <= w
<1>7. first <=> k - 1 < 4
  BY <1>4 DEF chan
<1>8. ~first => n - chan \in 1..(n - 1)
  BY <1>5, <1>6, <1>7 DEF chan
<1>9. ~top => n - w \in 1..(n - 1)
  BY <1>1, <1>2, <1>6
<1>10. ~(first \/ top) => n - w - chan \in 1..(n - 1)
  BY <1>1, <1>2, <1>5, <1>6, <1>7 DEF chan
<1>11. \A j \in 1..(n - 1) : r[j] = x[j] /\ x[j] \in Octets
  BY <1>1
<1> HIDE DEF first, top
<1> DEFINE Three(s) == <<IF first THEN 0 ELSE s[n - chan], IF top THEN 0 ELSE s[n - w],
                      IF first \/ top THEN 0 ELSE s[n - w - chan]>>
<1>12. Around(h, r, n) = Three(r) /\ Around(h, x, n) = Three(x)
  BY <1>1, Zenon DEF Around, first, top
<1>13. PICK a : a = IF first THEN 0 ELSE x[n - chan]
  OBVIOUS
<1>14. PICK b : b = IF top THEN 0 ELSE x[n - w]
  OBVIOUS
<1>15. PICK c : c = IF first \/ top THEN 0 ELSE x[n - w - chan]
  OBVIOUS
<1>16. 0 \in Octets
  BY DEF Octets
<1>17. a \in Octets /\ a = IF first THEN 0 ELSE r[n - chan]
  BY <1>8, <1>11, <1>13, <1>16
<1>18. b \in Octets /\ b = IF top THEN 0 ELSE r[n - w]
  BY <1>9, <1>11, <1>14, <1>16
<1>19. c \in Octets /\ c = IF first \/ top THEN 0 ELSE r[n - w - chan]
  BY <1>10, <1>11, <1>15, <1>16
<1>20. Three(x) = <<a, b, c>> /\ Three(r) = <<a, b, c>>
  BY <1>13, <1>14, <1>15, <1>17, <1>18, <1>19
<1> HIDE DEF Three
<1>21. QED
  BY <1>12, <1>17, <1>18, <1>19, <1>20

\* Byte n of the pixels x is in source what a filter makes of it.
ByteFiltered(h, x, source, n) ==
    \E f \in 0..4, a, b, c \in Octets :
       /\ Around(h, x, n) = <<a, b, c>>
       /\ source[FilterAt(h, n)] = f
       /\ f = 4 => a + b - c \in 0..255 /\ (a # c => b - c # 2 * (c - a))
       /\ source[n + Row(h, n) + 1] = (x[n] - TakenBy(f, a, b, c)) % 256

\* one byte more of the pixels
OneMore(h, source, r, n) ==
    LET at == Around(h, r, n)
    IN Append(r, (source[n + Row(h, n) + 1]
                  + Added(source[FilterAt(h, n)], at[1], at[2], at[3])) % 256)

\* the first n bytes of the pixels
FirstBytes(r, n, x) == r \in Seq(Octets) /\ Len(r) = n /\ \A j \in 1..n : r[j] = x[j]

LEMMA AppendedIs ==
    ASSUME NEW r, NEW n \in Nat \ {0}, NEW x, FirstBytes(r, n - 1, x), x[n] \in Octets,
           NEW y, y = x[n]
    PROVE  FirstBytes(Append(r, y), n, x)
<1>1. r \in Seq(Octets) /\ Len(r) = n - 1 /\ y \in Octets
  BY DEF FirstBytes
<1>2. Append(r, y) \in Seq(Octets) /\ Len(Append(r, y)) = n
  BY <1>1
<1>3. ASSUME NEW j \in 1..n PROVE Append(r, y)[j] = x[j]
  <2>1. CASE j = n
    BY <1>1, <2>1
  <2>2. CASE j # n
    <3>1. j \in 1..(n - 1)
      BY <2>2
    <3>2. r[j] = x[j]
      BY <3>1 DEF FirstBytes
    <3>3. QED
      BY <1>1, <3>1, <3>2
  <2>3. QED
    BY <2>1, <2>2
<1>4. QED
  BY <1>2, <1>3 DEF FirstBytes

LEMMA OneMoreIs ==
    ASSUME NEW h, NEW x, NEW w, NEW m, NEW N, Image(h, x, w, m, N), NEW n \in 1..N,
           NEW source, ByteFiltered(h, x, source, n), NEW r, FirstBytes(r, n - 1, x)
    PROVE  FirstBytes(OneMore(h, source, r, n), n, x)
<1>1. PICK f \in 0..4, a, b, c \in Octets :
         /\ Around(h, x, n) = <<a, b, c>>
         /\ source[FilterAt(h, n)] = f
         /\ f = 4 => a + b - c \in 0..255 /\ (a # c => b - c # 2 * (c - a))
         /\ source[n + Row(h, n) + 1] = (x[n] - TakenBy(f, a, b, c)) % 256
  BY DEF ByteFiltered
<1>2. \A j \in 1..(n - 1) : r[j] = x[j]
  BY DEF FirstBytes
<1>3. Around(h, r, n) = <<a, b, c>>
  BY <1>1, <1>2, AroundIs
<1>4. PICK p \in Octets : p = Added(f, a, b, c) /\ p = TakenBy(f, a, b, c)
  BY <1>1, AddedIs
<1>5. N \in Nat /\ x[n] \in Octets
  BY DEF Image
<1>6. PICK y : y = (source[n + Row(h, n) + 1] + p) % 256
  OBVIOUS
<1>7. y = x[n]
  BY <1>1, <1>4, <1>5, <1>6, AddedBack
<1>8. OneMore(h, source, r, n) = Append(r, y)
  <2>1. PICK at : at = Around(h, r, n)
    OBVIOUS
  <2>2. at[1] = a /\ at[2] = b /\ at[3] = c
    BY <1>3, <2>1
  <2>3. OneMore(h, source, r, n)
        = Append(r, (source[n + Row(h, n) + 1]
                     + Added(source[FilterAt(h, n)], at[1], at[2], at[3])) % 256)
    BY <2>1, Zenon DEF OneMore
  <2>4. QED
    BY <1>1, <1>4, <1>6, <2>2, <2>3, Zenon
<1>9. n \in Nat \ {0}
  BY <1>5
<1>10. FirstBytes(Append(r, y), n, x)
  BY <1>5, <1>7, <1>9, AppendedIs
<1>11. QED
  BY <1>8, <1>10

LEMMA UnfilterIs ==
    ASSUME NEW h, h.supported, NEW x, NEW w, NEW m, NEW N, Image(h, x, w, m, N),
           NEW source, \A n \in 1..N : ByteFiltered(h, x, source, n)
    PROVE  png_unfilter(h, source) = {x}
<1>1. N \in Nat /\ N = Size(h) /\ x \in [1..N -> Octets]
  BY DEF Image
<1> DEFINE Is(g) == g = [n \in 0..N |-> IF n = 0 THEN << >> ELSE OneMore(h, source, g[n - 1], n)]
<1>2. ASSUME NEW n \in 1..N PROVE ~(source[FilterAt(h, n)] > 4)
  <2>1. PICK f \in 0..4 : source[FilterAt(h, n)] = f
    BY DEF ByteFiltered
  <2>2. QED
    BY <2>1
<1>3. PICK g0 : g0 = (CHOOSE g : Is(g)) /\ png_unfilter(h, source) = {g0[N]}
  <2>1. PICK g0 : g0 = (CHOOSE g : Is(g))
    OBVIOUS
  <2>2. png_unfilter(h, source) = {g0[N]}
    BY <1>1, <1>2, <2>1 DEF png_unfilter, OneMore
  <2>3. QED
    BY <2>1, <2>2
<1>4. ASSUME NEW g
      PROVE  Is(g) <=> (/\ g = [k \in 0..N |-> g[k]] /\ g[0] = << >>
                        /\ \A k \in 1..N : g[k] = OneMore(h, source, g[k - 1], k))
  <2>1. 0 \in 0..N /\ \A k \in 0..N : k = 0 \/ k \in 1..N
    BY <1>1
  <2>2. \A k \in 1..N : k \in 0..N /\ k # 0
    BY <1>1
  <2>3. QED
    BY <2>1, <2>2
<1> HIDE DEF Is
<1> DEFINE V == [k \in 0..N |-> {r \in Seq(Octets) : FirstBytes(r, k, x)}]
           step == [p \in (1..N) \X Seq(Octets) |-> OneMore(h, source, p[2], p[1])]
<1>5. \A k \in 1..N : \A r \in Seq(Octets) : step[<<k, r>>] = OneMore(h, source, r, k)
  OBVIOUS
<1>6. \A k \in 0..N : \A r : r \in V[k] <=> r \in Seq(Octets) /\ FirstBytes(r, k, x)
  OBVIOUS
<1>7. \A r, k : FirstBytes(r, k, x) => r \in Seq(Octets)
  BY DEF FirstBytes
<1>8. \A k \in 1..N : k \in 0..N /\ k - 1 \in 0..N
  BY <1>1
<1> HIDE DEF V, step
<1>9. ASSUME NEW k \in 1..N, NEW r \in V[k - 1]
      PROVE  OneMore(h, source, r, k) \in V[k] /\ step[<<k, r>>] = OneMore(h, source, r, k)
  <2>1. r \in Seq(Octets) /\ FirstBytes(r, k - 1, x)
    BY <1>6, <1>8
  <2>2. FirstBytes(OneMore(h, source, r, k), k, x)
    BY <2>1, OneMoreIs, Zenon
  <2>3. QED
    BY <1>5, <1>6, <1>7, <1>8, <2>1, <2>2
<1>10. Carry(step, N, V)
  BY <1>9 DEF Carry
<1>11. << >> \in V[0]
  <2>1. 0 \in 0..N
    BY <1>1
  <2>2. << >> \in Seq(Octets) /\ FirstBytes(<< >>, 0, x)
    BY DEF FirstBytes
  <2>3. QED
    BY <1>6, <2>1, <2>2
<1>12. PICK v : v = << >>
  OBVIOUS
<1>13. v \in V[0]
  BY <1>11, <1>12
<1>14. PICK f : f = [k \in 0..N |-> f[k]] /\ RecursIn(f, N, v, step, V)
  BY <1>1, <1>10, <1>13, RecursionIn, Zenon
<1>15. \A k \in 0..N : f[k] \in V[k]
  BY <1>1, <1>10, <1>13, <1>14, RecursInIs, Zenon
<1>16. Is(f)
  <2>1. \A k \in 1..N : f[k] = OneMore(h, source, f[k - 1], k)
    BY <1>8, <1>9, <1>14, <1>15 DEF RecursIn
  <2>2. QED
    BY <1>4, <1>12, <1>14, <2>1 DEF RecursIn
<1>17. Is(g0)
  BY <1>3, <1>16
<1>18. RecursIn(g0, N, v, step, V)
  BY <1>4, <1>9, <1>12, <1>17 DEF RecursIn
<1>19. \A k \in 0..N : g0[k] \in V[k]
  BY <1>1, <1>10, <1>13, <1>18, RecursInIs, Zenon
<1>20. N \in 0..N
  BY <1>1
<1>21. FirstBytes(g0[N], N, x)
  BY <1>6, <1>19, <1>20
<1>22. g0[N] = x
  <2>1. PICK r : r = g0[N]
    OBVIOUS
  <2>2. r \in Seq(Octets) /\ Len(r) = N /\ \A j \in 1..N : r[j] = x[j]
    BY <1>21, <2>1 DEF FirstBytes
  <2>3. r = [j \in 1..N |-> r[j]] /\ x = [j \in 1..N |-> x[j]]
    BY <1>1, <2>2
  <2>4. QED
    BY <2>1, <2>2, <2>3
<1>23. QED
  BY <1>3, <1>22

\* m rows of w bytes, each behind its filter
RowsOf(source, f, bytes, w, m) ==
    \A i \in 1..m : /\ source[(w + 1) * (i - 1) + 1] = f[i]
                    /\ \A k \in 1..w : source[(w + 1) * (i - 1) + 1 + k] = bytes[w * (i - 1) + k]

\* row i behind its filter
RowIs(row, i, f, bytes, w) ==
    /\ row \in Seq(Octets) /\ Len(row) = w + 1 /\ row[1] = f[i]
    /\ \A k \in 1..w : row[1 + k] = bytes[w * (i - 1) + k]

LEMMA RowsFlat ==
    ASSUME NEW w \in Nat, NEW m \in Nat, NEW f, NEW bytes, NEW seqs, seqs = [i \in 1..m |-> seqs[i]],
           \A i \in 1..m : RowIs(seqs[i], i, f, bytes, w)
    PROVE  RowsOf(FlattenSeq(seqs), f, bytes, w, m)
<1>1. /\ seqs \in Seq(Seq(Octets)) /\ Len(seqs) = m
      /\ \A i \in 1..m : Len(seqs[i]) = w + 1
  <2>1. \A i \in 1..m : seqs[i] \in Seq(Octets) /\ Len(seqs[i]) = w + 1
    BY DEF RowIs
  <2>2. PICK T : T = Seq(Octets)
    OBVIOUS
  <2>3. seqs \in [1..m -> T]
    BY <2>1, <2>2
  <2>4. seqs \in Seq(T) /\ Len(seqs) = m
    BY <2>3
  <2>5. QED
    BY <2>1, <2>2, <2>4
<1>2. PICK c \in Nat \ {0} : c = w + 1
  OBVIOUS
<1>3. PICK whole : whole = FlattenSeq(seqs)
  OBVIOUS
<1>4. Even(whole, seqs, m, c, Octets)
  BY <1>1, <1>2, <1>3, FlattenedEven
<1>5. ASSUME NEW i \in 1..m
      PROVE  /\ whole[c * (i - 1) + 1] = f[i]
             /\ \A k \in 1..w : whole[c * (i - 1) + 1 + k] = bytes[w * (i - 1) + k]
  <2>1. RowIs(seqs[i], i, f, bytes, w)
    OBVIOUS
  <2>2. \A j \in 1..c : whole[c * (i - 1) + j] = seqs[i][j]
    BY <1>4 DEF Even
  <2>3. 1 \in 1..c /\ \A k \in 1..w : 1 + k \in 1..c
    BY <1>2
  <2>4. PICK s \in Nat : s = c * (i - 1)
    <3>1. i - 1 \in Nat
      OBVIOUS
    <3>2. c * (i - 1) \in Nat
      BY <3>1
    <3>3. QED
      BY <3>2
  <2>5. \A j \in 1..c : whole[s + j] = seqs[i][j]
    BY <2>2, <2>4
  <2>6. \A k \in 1..w : whole[s + 1 + k] = seqs[i][1 + k]
    <3> TAKE k \in 1..w
    <3>1. s + 1 + k = s + (1 + k)
      OBVIOUS
    <3>2. QED
      BY <2>3, <2>5, <3>1
  <2>7. whole[s + 1] = seqs[i][1]
    BY <2>3, <2>5
  <2>8. QED
    BY <2>1, <2>4, <2>6, <2>7 DEF RowIs
<1>6. QED
  BY <1>2, <1>3, <1>5 DEF RowsOf

\* where the code finds a byte and its filter
Finds(h, n, m, source, f, bytes) ==
    /\ Row(h, n) + 1 \in 1..m
    /\ source[FilterAt(h, n)] = f[Row(h, n) + 1]
    /\ source[n + Row(h, n) + 1] = bytes[n]

LEMMA FoundAt ==
    ASSUME NEW h, NEW x, NEW w, NEW m, NEW N, Image(h, x, w, m, N), NEW n \in 1..N,
           NEW source, NEW f, NEW bytes, RowsOf(source, f, bytes, w, m)
    PROVE  Finds(h, n, m, source, f, bytes)
<1>1. w \in Nat /\ m \in Nat /\ N \in Nat /\ N = w * m /\ w = chan * h.width
  BY DEF Image
<1>2. InRows(n, w, m)
  BY <1>1, PlaceIn
<1>3. PICK i \in 1..m, k \in 1..w : PlaceAt(n, w, i, k)
  BY <1>2, Zenon DEF InRows
<1>4. PICK q \in Nat : q = i - 1
  OBVIOUS
<1>5. n = w * q + k /\ (n - 1) \div w = q
  BY <1>3, <1>4 DEF PlaceAt
<1>6. Row(h, n) = q
  BY <1>1, <1>5, Zenon DEF Row
<1>7. i = q + 1
  BY <1>4
<1>8. FilterAt(h, n) = q * (w + 1) + 1
  BY <1>1, <1>6 DEF FilterAt
<1>9. PICK s \in Nat : s = w * q
  <2>1. w * q \in Nat
    BY <1>1
  <2>2. QED
    BY <2>1
<1>10. (w + 1) * q = s + q /\ q * (w + 1) = s + q
  BY <1>1, <1>9
<1>11. source[s + q + 1] = f[i] /\ source[s + q + 1 + k] = bytes[s + k]
  BY <1>4, <1>9, <1>10 DEF RowsOf
<1>12. n + q + 1 = s + q + 1 + k /\ n = s + k
  BY <1>1, <1>5, <1>9
<1>13. QED
  BY <1>6, <1>7, <1>8, <1>10, <1>11, <1>12 DEF Finds

Within(w, N, i, k) == w * (i - 1) + k \in 1..N /\ (i - 1) * w + k = w * (i - 1) + k

LEMMA WithinRows ==
    ASSUME NEW w \in Nat, NEW m \in Nat, NEW N, N = w * m, NEW i \in 1..m, NEW k \in 1..w
    PROVE  Within(w, N, i, k)
<1>1. PICK q \in Nat : q = i - 1
  OBVIOUS
<1>2. PICK d \in Nat : m = q + 1 + d
  <2>1. m - i \in Nat /\ m = q + 1 + (m - i)
    BY <1>1
  <2>2. QED
    BY <2>1
<1>3. N = w * q + w + w * d
  BY <1>1, <1>2
<1>4. w * q \in Nat /\ w * d \in Nat /\ q * w = w * q
  OBVIOUS
<1>5. PICK a, b \in Nat : a = w * q /\ b = w * d
  BY <1>4
<1>6. N = a + w + b /\ q * w = a
  BY <1>3, <1>4, <1>5
<1>7. a + k \in 1..N
  BY <1>6
<1>8. QED
  BY <1>1, <1>5, <1>6, <1>7 DEF Within

LEMMA RowMade ==
    ASSUME NEW w \in Nat, NEW f \in Octets, NEW t \in [1..w -> Octets], NEW row, row = <<f>> \o t
    PROVE  row \in Seq(Octets) /\ Len(row) = w + 1 /\ row[1] = f /\ \A k \in 1..w : row[1 + k] = t[k]
<1>1. t \in Seq(Octets) /\ Len(t) = w
  OBVIOUS
<1>2. PICK s : s = <<f>>
  OBVIOUS
<1>3. s \in Seq(Octets) /\ Len(s) = 1 /\ s[1] = f
  BY <1>2
<1>4. Joins(row, s, 1, t, w, Octets)
  BY <1>1, <1>2, <1>3, Joined
<1>5. QED
  BY <1>3, <1>4 DEF Joins

\* a row i of the pixels that a filter leaves as it is, or any other
LEMMA RowHas ==
    ASSUME NEW w \in Nat, NEW m \in Nat, NEW N, N = w * m, NEW i \in 1..m, NEW filters,
           filters[i] \in Octets, NEW bytes \in [1..N -> Octets], NEW t, t \in [1..w -> Octets],
           \A k \in 1..w : t[k] = bytes[w * (i - 1) + k], NEW row, row = <<filters[i]>> \o t
    PROVE  RowIs(row, i, filters, bytes, w)
<1>1. PICK f \in Octets : f = filters[i]
  OBVIOUS
<1>2. row = <<f>> \o t
  BY <1>1
<1>3. row \in Seq(Octets) /\ Len(row) = w + 1 /\ row[1] = f /\ \A k \in 1..w : row[1 + k] = t[k]
  BY <1>2, RowMade
<1>4. QED
  BY <1>1, <1>3 DEF RowIs

LEMMA RowIn ==
    ASSUME NEW h, NEW x, NEW w, NEW m, NEW N, Image(h, x, w, m, N), NEW n \in 1..N
    PROVE  Row(h, n) + 1 \in 1..m
<1>1. w \in Nat /\ m \in Nat /\ N \in Nat /\ N = w * m /\ w = chan * h.width
  BY DEF Image
<1>2. InRows(n, w, m)
  BY <1>1, PlaceIn
<1>3. PICK i \in 1..m, k \in 1..w : PlaceAt(n, w, i, k)
  BY <1>2, Zenon DEF InRows
<1>4. (n - 1) \div w = i - 1
  BY <1>3 DEF PlaceAt
<1>5. Row(h, n) = i - 1
  BY <1>1, <1>4, Zenon DEF Row
<1>6. QED
  BY <1>5

LEMMA TakenIn ==
    ASSUME NEW f \in 0..4, NEW a \in Octets, NEW b \in Octets, NEW c \in Octets, NEW y \in Octets
    PROVE  (y - TakenBy(f, a, b, c)) % 256 \in Octets
<1>1. PaethPredictor(a, b, c) \in {a, b, c}
  BY DEF PaethPredictor
<1>2. PICK p \in Int : p = TakenBy(f, a, b, c)
  <2>1. PICK e \in Octets : e = PaethPredictor(a, b, c)
    BY <1>1
  <2>2. TakenBy(f, a, b, c) \in Int
    <3>1. TakenBy(f, a, b, c) \in {0, a, b, (a + b) \div 2, e}
      BY <2>1 DEF TakenBy
    <3>2. \A u, v \in Octets : u \in Int /\ (u + v) \div 2 \in Int
      BY DEF Octets
    <3>3. QED
      BY <3>1, <3>2
  <2>3. QED
    BY <2>2
<1>3. \A u \in Int : u % 256 \in 0..255
  OBVIOUS
<1>4. y - p \in Int
  BY DEF Octets
<1>5. QED
  BY <1>2, <1>3, <1>4 DEF Octets

\* a byte of the pixels with what its filter takes from it taken
FilteredByte(h, filters, x, n) ==
    LET at == Around(h, x, n)
    IN (x[n] - TakenBy(filters[Row(h, n) + 1], at[1], at[2], at[3])) % 256

TakesByte(h, filters, x, n) ==
    \E a, b, c \in Octets :
       /\ Around(h, x, n) = <<a, b, c>>
       /\ FilteredByte(h, filters, x, n) = (x[n] - TakenBy(filters[Row(h, n) + 1], a, b, c)) % 256

LEMMA FilteredByteIs ==
    ASSUME NEW h, NEW x, NEW w, NEW m, NEW N, Image(h, x, w, m, N), NEW filters \in [1..m -> 0..4],
           NEW n \in 1..N
    PROVE  FilteredByte(h, filters, x, n) \in Octets /\ TakesByte(h, filters, x, n)
<1>1. PICK y \in Octets : y = x[n]
  BY DEF Image
<1>2. PICK a, b, c \in Octets : Around(h, x, n) = <<a, b, c>>
  <2>1. \A j \in 1..(n - 1) : x[j] = x[j]
    OBVIOUS
  <2>2. QED
    BY <2>1, AroundIs
<1>3. PICK f \in 0..4 : f = filters[Row(h, n) + 1]
  <2>1. Row(h, n) + 1 \in 1..m
    BY RowIn
  <2>2. QED
    BY <2>1
<1>4. FilteredByte(h, filters, x, n) = (y - TakenBy(f, a, b, c)) % 256
  <2>1. PICK at : at = Around(h, x, n)
    OBVIOUS
  <2>2. at[1] = a /\ at[2] = b /\ at[3] = c
    BY <1>2, <2>1
  <2>3. FilteredByte(h, filters, x, n) = (x[n] - TakenBy(filters[Row(h, n) + 1], at[1], at[2], at[3])) % 256
    BY <2>1, Zenon DEF FilteredByte
  <2>4. QED
    BY <1>1, <1>3, <2>2, <2>3, Zenon
<1>5. (y - TakenBy(f, a, b, c)) % 256 \in Octets
  BY TakenIn
<1>6. QED
  BY <1>1, <1>2, <1>3, <1>4, <1>5 DEF TakesByte

LEMMA FilteredIs ==
    ASSUME NEW h, NEW x, NEW w, NEW m, NEW N, Image(h, x, w, m, N), NEW filters \in [1..m -> 0..4],
           NEW bytes, bytes = [n \in 1..N |-> FilteredByte(h, filters, x, n)]
    PROVE  RowsOf(Filtered(h, filters, x), filters, bytes, w, m)
<1>1. w \in Nat /\ m \in Nat /\ N = w * m /\ w = chan * h.width /\ m = h.height
  BY DEF Image
<1> DEFINE RowAfter(i) == [k \in 1..w |-> FilteredByte(h, filters, x, (i - 1) * w + k)]
<1>2. Filtered(h, filters, x)
      = FlattenSeq([i \in 1..h.height |->
                      <<filters[i]>> \o [k \in 1..(chan * h.width) |->
                                            FilteredByte(h, filters, x, (i - 1) * (chan * h.width) + k)]])
  BY Zenon DEF Filtered, FilteredByte, TakenBy
<1>3. Filtered(h, filters, x) = FlattenSeq([i \in 1..m |-> <<filters[i]>> \o RowAfter(i)])
  BY <1>1, <1>2, Zenon
<1>4. PICK seqs : seqs = [i \in 1..m |-> <<filters[i]>> \o RowAfter(i)]
  OBVIOUS
<1>5. bytes \in [1..N -> Octets]
  <2>1. \A n \in 1..N : FilteredByte(h, filters, x, n) \in Octets
    BY FilteredByteIs
  <2>2. QED
    BY <2>1
<1>6. ASSUME NEW i \in 1..m
      PROVE  RowIs(seqs[i], i, filters, bytes, w)
  <2>1. PICK t, row : t = RowAfter(i) /\ row = <<filters[i]>> \o t
    OBVIOUS
  <2>2. seqs[i] = row
    BY <1>4, <2>1
  <2>3. \A k \in 1..w : w * (i - 1) + k \in 1..N /\ (i - 1) * w + k = w * (i - 1) + k
    <3> TAKE k \in 1..w
    <3>1. Within(w, N, i, k)
      BY <1>1, WithinRows, Zenon
    <3>2. QED
      BY <3>1 DEF Within
  <2>4. \A k \in 1..w : t[k] = FilteredByte(h, filters, x, (i - 1) * w + k)
    BY <2>1
  <2>5. \A k \in 1..w : t[k] = bytes[w * (i - 1) + k]
    <3> TAKE k \in 1..w
    <3>1. PICK p \in 1..N : p = w * (i - 1) + k /\ p = (i - 1) * w + k
      BY <2>3
    <3>2. t[k] = FilteredByte(h, filters, x, p)
      BY <2>4, <3>1
    <3>3. bytes[p] = FilteredByte(h, filters, x, p)
      OBVIOUS
    <3>4. QED
      BY <3>1, <3>2, <3>3
  <2>6. t \in [1..w -> Octets]
    <3>1. t = [k \in 1..w |-> t[k]]
      BY <2>1
    <3>2. \A k \in 1..w : t[k] \in Octets
      BY <1>5, <2>3, <2>5
    <3>3. QED
      BY <3>1, <3>2
  <2>7. filters[i] \in Octets
    <3>1. filters[i] \in 0..4
      OBVIOUS
    <3>2. QED
      BY <3>1 DEF Octets
  <2>8. RowIs(row, i, filters, bytes, w)
    BY <1>1, <1>5, <2>1, <2>5, <2>6, <2>7, RowHas
  <2>9. QED
    BY <2>2, <2>8
<1>7. seqs = [i \in 1..m |-> seqs[i]]
  BY <1>4
<1>8. QED
  <2>1. RowsOf(FlattenSeq(seqs), filters, bytes, w, m)
    BY <1>1, <1>6, <1>7, RowsFlat, Zenon
  <2>2. QED
    BY <1>3, <1>4, <2>1

LEMMA ImageIs ==
    ASSUME NEW h, NEW filters, NEW x, Unfilterable(h, filters, x)
    PROVE  \E w, m, N : Image(h, x, w, m, N)
<1>1. h.width \in Nat /\ h.height \in Nat /\ x \in [1..Size(h) -> 0..255]
  BY DEF Unfilterable
<1>2. PICK a, m \in Nat : a = h.width /\ m = h.height
  BY <1>1
<1>3. PICK N : N = Size(h)
  OBVIOUS
<1>4. N = a * m * 4
  BY <1>2, <1>3 DEF Size, chan
<1>5. a * m \in Nat /\ 4 * a \in Nat
  OBVIOUS
<1>6. (4 * a) * m = (a * m) * 4
  OBVIOUS
<1>7. PICK w \in Nat : w = chan * h.width /\ w = 4 * a
  BY <1>2, <1>5 DEF chan
<1>8. N \in Nat /\ N = w * m
  BY <1>4, <1>5, <1>6, <1>7
<1>9. Image(h, x, w, m, N)
  BY <1>1, <1>2, <1>3, <1>7, <1>8 DEF Image, Octets
<1>10. QED
  BY <1>9

\* What png_filter_dumb makes are the rows as they are.
LEMMA DumbIs ==
    ASSUME NEW h, h.supported, NEW x, NEW w, NEW m, NEW N, Image(h, x, w, m, N),
           NEW none, none = [i \in 1..m |-> 0]
    PROVE  \E source : png_filter_dumb(h, x) = {source} /\ RowsOf(source, none, x, w, m)
<1>1. /\ w \in Nat /\ m \in Nat /\ N \in Nat /\ N = w * m /\ w = chan * h.width /\ m = h.height
      /\ N = Size(h) /\ x \in [1..N -> Octets]
  BY DEF Image
<1> DEFINE RowAt(i) == SubSeq(x, (i - 1) * w + 1, i * w)
<1>2. x \in Seq(Octets) /\ Len(x) = N
  BY <1>1
<1>3. ~(~h.supported \/ Len(x) < Size(h))
  BY <1>1, <1>2
<1>4. png_filter_dumb(h, x) = {FlattenSeq([i \in 1..h.height |->
                                 <<0>> \o SubSeq(x, (i - 1) * (chan * h.width) + 1, i * (chan * h.width))])}
  BY <1>3, Zenon DEF png_filter_dumb
<1>5. png_filter_dumb(h, x) = {FlattenSeq([i \in 1..m |-> <<0>> \o RowAt(i)])}
  BY <1>1, <1>4, Zenon
<1>6. PICK seqs : seqs = [i \in 1..m |-> <<0>> \o RowAt(i)]
  OBVIOUS
<1>7. ASSUME NEW i \in 1..m
      PROVE  RowIs(seqs[i], i, none, x, w)
  <2>1. PICK t, row : t = RowAt(i) /\ row = <<none[i]>> \o t
    OBVIOUS
  <2>2. none[i] = 0
    OBVIOUS
  <2>3. seqs[i] = row
    BY <1>6, <2>1, <2>2
  <2>4. \A k \in 1..w : w * (i - 1) + k \in 1..N /\ (i - 1) * w + k = w * (i - 1) + k
    <3> TAKE k \in 1..w
    <3>1. Within(w, N, i, k)
      BY <1>1, WithinRows, Zenon
    <3>2. QED
      BY <3>1 DEF Within
  <2>5. PICK q \in Nat : q = i - 1
    OBVIOUS
  <2>6. PICK s \in Nat : s = q * w /\ i * w = s + w
    <3>1. q * w \in Nat /\ (q + 1) * w = q * w + w
      BY <1>1
    <3>2. i = q + 1
      BY <2>5
    <3>3. QED
      BY <3>1, <3>2
  <2>7. t = SubSeq(x, s + 1, s + w)
    BY <2>1, <2>5, <2>6
  <2>8. t = [k \in 1..w |-> x[s + k]]
    <3>1. SubSeq(x, s + 1, s + w) = [k \in 1..w |-> x[s + k]]
      <4>1. /\ DOMAIN SubSeq(x, s + 1, s + w) = 1..w
            /\ \A k \in 1..w : SubSeq(x, s + 1, s + w)[k] = x[s + k]
        <5>0. w \in Nat
          BY <1>1
        <5>1. (s + w) - (s + 1) + 1 = w
          BY <5>0
        <5>2. SubSeq(x, s + 1, s + w) = [k \in 1..((s + w) - (s + 1) + 1) |-> x[k + (s + 1) - 1]]
          BY <1>1 DEF SubSeq
        <5>3. \A k \in 1..w : k + (s + 1) - 1 = s + k
          BY <1>1
        <5>4. QED
          BY <5>1, <5>2, <5>3
      <4>2. QED
        BY <1>1, <4>1
    <3>2. QED
      BY <2>7, <3>1
  <2>9. \A k \in 1..w : t[k] = x[w * (i - 1) + k] /\ t[k] \in Octets
    <3> TAKE k \in 1..w
    <3>1. PICK p \in 1..N : p = w * (i - 1) + k /\ p = (i - 1) * w + k
      BY <2>4
    <3>2. t[k] = x[p]
      BY <2>5, <2>6, <2>8, <3>1
    <3>3. x[p] \in Octets
      BY <1>1
    <3>4. QED
      BY <3>1, <3>2, <3>3
  <2>10. t \in [1..w -> Octets]
    BY <2>8, <2>9
  <2>11. none[i] \in Octets
    BY <2>2 DEF Octets
  <2>12. RowIs(row, i, none, x, w)
    BY <1>1, <2>1, <2>9, <2>10, <2>11, RowHas
  <2>13. QED
    BY <2>3, <2>12
<1>8. seqs = [i \in 1..m |-> seqs[i]]
  BY <1>6
<1>9. RowsOf(FlattenSeq(seqs), none, x, w, m)
  BY <1>1, <1>7, <1>8, RowsFlat, Zenon
<1>10. QED
  BY <1>5, <1>6, <1>9

\* Rows of source as they are or filtered are read back.
LEMMA DumbBack ==
    ASSUME NEW h, NEW x, NEW w, NEW m, NEW N, Image(h, x, w, m, N),
           NEW none, none = [i \in 1..m |-> 0], NEW source, RowsOf(source, none, x, w, m)
    PROVE  \A n \in 1..N : ByteFiltered(h, x, source, n)
<1> SUFFICES ASSUME NEW n \in 1..N PROVE ByteFiltered(h, x, source, n)
  OBVIOUS
<1>1. PICK a, b, c \in Octets : Around(h, x, n) = <<a, b, c>>
  <2>1. \A j \in 1..(n - 1) : x[j] = x[j]
    OBVIOUS
  <2>2. QED
    BY <2>1, AroundIs
<1>2. /\ Row(h, n) + 1 \in 1..m
      /\ source[FilterAt(h, n)] = none[Row(h, n) + 1]
      /\ source[n + Row(h, n) + 1] = x[n]
  <2>1. Finds(h, n, m, source, none, x)
    BY FoundAt, Zenon
  <2>2. QED
    BY <2>1 DEF Finds
<1>3. source[FilterAt(h, n)] = 0
  BY <1>2
<1>4. PICK f \in 0..4 : f = 0
  OBVIOUS
<1>5. TakenBy(f, a, b, c) = 0
  BY <1>4 DEF TakenBy
<1>6. (x[n] - TakenBy(f, a, b, c)) % 256 = x[n]
  <2>1. PICK y \in Octets : y = x[n]
    BY DEF Image
  <2>2. (y - 0) % 256 = y
    BY DEF Octets
  <2>3. QED
    BY <1>5, <2>1, <2>2
<1>7. QED
  BY <1>1, <1>2, <1>3, <1>4, <1>6 DEF ByteFiltered

LEMMA FilteredBack ==
    ASSUME NEW h, NEW x, NEW w, NEW m, NEW N, Image(h, x, w, m, N), NEW filters \in [1..m -> 0..4],
           4 \in {filters[i] : i \in DOMAIN filters} => NoWrap(h, x) /\ NoTie(h, x),
           NEW bytes, bytes = [n \in 1..N |-> FilteredByte(h, filters, x, n)],
           NEW source, RowsOf(source, filters, bytes, w, m)
    PROVE  \A n \in 1..N : ByteFiltered(h, x, source, n)
<1> SUFFICES ASSUME NEW n \in 1..N PROVE ByteFiltered(h, x, source, n)
  OBVIOUS
<1>1. PICK a, b, c \in Octets :
         /\ Around(h, x, n) = <<a, b, c>>
         /\ FilteredByte(h, filters, x, n) = (x[n] - TakenBy(filters[Row(h, n) + 1], a, b, c)) % 256
  <2>1. TakesByte(h, filters, x, n)
    BY FilteredByteIs
  <2>2. QED
    BY <2>1 DEF TakesByte
<1>2. /\ Row(h, n) + 1 \in 1..m
      /\ source[FilterAt(h, n)] = filters[Row(h, n) + 1]
      /\ source[n + Row(h, n) + 1] = bytes[n]
  <2>1. Finds(h, n, m, source, filters, bytes)
    BY FoundAt, Zenon
  <2>2. QED
    BY <2>1 DEF Finds
<1>3. PICK f \in 0..4 : f = filters[Row(h, n) + 1]
  BY <1>2
<1>4. source[n + Row(h, n) + 1] = (x[n] - TakenBy(f, a, b, c)) % 256
  BY <1>1, <1>2, <1>3
<1>5. f = 4 => a + b - c \in 0..255 /\ (a # c => b - c # 2 * (c - a))
  <2> SUFFICES ASSUME f = 4 PROVE a + b - c \in 0..255 /\ (a # c => b - c # 2 * (c - a))
    OBVIOUS
  <2>1. 4 \in {filters[i] : i \in DOMAIN filters}
    BY <1>2, <1>3
  <2>2. n \in 1..Size(h)
    BY DEF Image
  <2>3. PICK at : at = Around(h, x, n)
    OBVIOUS
  <2>4. at[1] = a /\ at[2] = b /\ at[3] = c
    BY <1>1, <2>3
  <2>5. at[1] + at[2] - at[3] \in 0..255
    BY <2>1, <2>2, <2>3, Zenon DEF NoWrap
  <2>6. at[1] # at[3] => at[2] - at[3] # 2 * (at[3] - at[1])
    BY <2>1, <2>2, <2>3, Zenon DEF NoTie
  <2>7. QED
    BY <2>4, <2>5, <2>6
<1>6. QED
  BY <1>1, <1>2, <1>3, <1>4, <1>5 DEF ByteFiltered

\* the rows of png_filter_dumb, or of another program with the filters it names
RowsMade(h, filters, x) ==
    IF filters = << >> THEN png_filter_dumb(h, x) ELSE {Filtered(h, filters, x)}

\* png_unfilter gives the pixels back of what another program filtered, row by row with
\* any filters, and of what png_filter_dumb makes; of the Paeth filter where no sum
\* leaves a byte and no tie is between the bytes above (tools/images.h).
THEOREM RowsUndone ==
    ASSUME NEW h, NEW filters, NEW x, Unfilterable(h, filters, x)
    PROVE  \E source : RowsMade(h, filters, x) = {source} /\ png_unfilter(h, source) = {x}
<1>1. PICK w, m, N : Image(h, x, w, m, N)
  BY ImageIs
<1>2. h.supported /\ m = h.height
  BY <1>1 DEF Unfilterable, Image
<1>3. CASE filters = << >>
  <2>1. PICK none : none = [i \in 1..m |-> 0]
    OBVIOUS
  <2>2. PICK source : png_filter_dumb(h, x) = {source} /\ RowsOf(source, none, x, w, m)
    BY <1>1, <1>2, <2>1, DumbIs
  <2>3. \A n \in 1..N : ByteFiltered(h, x, source, n)
    BY <1>1, <2>1, <2>2, DumbBack
  <2>4. png_unfilter(h, source) = {x}
    BY <1>1, <1>2, <2>3, UnfilterIs
  <2>5. QED
    BY <1>3, <2>2, <2>4 DEF RowsMade
<1>4. CASE filters # << >>
  <2>1. /\ filters \in [1..m -> 0..4]
        /\ 4 \in {filters[i] : i \in DOMAIN filters} => NoWrap(h, x) /\ NoTie(h, x)
    BY <1>2, <1>4 DEF Unfilterable
  <2>2. PICK bytes : bytes = [n \in 1..N |-> FilteredByte(h, filters, x, n)]
    OBVIOUS
  <2>3. PICK source : source = Filtered(h, filters, x)
    OBVIOUS
  <2>4. RowsOf(source, filters, bytes, w, m)
    BY <1>1, <2>1, <2>2, <2>3, FilteredIs
  <2>5. \A n \in 1..N : ByteFiltered(h, x, source, n)
    BY <1>1, <2>1, <2>2, <2>4, FilteredBack
  <2>6. png_unfilter(h, source) = {x}
    BY <1>1, <1>2, <2>5, UnfilterIs
  <2>7. QED
    BY <1>4, <2>3, <2>6 DEF RowsMade
<1>5. QED
  BY <1>3, <1>4

-----------------------------------------------------------------------------
(* The codes of inflate's tables *)

PowersTo15 == \A k \in 0..15 : 2 ^ k = PowerOf2[k]
LEMMA PowersMatch == PowersTo15
<1>1. PowerOf2[0] = 1 /\ \A n \in Nat \ {0} : PowerOf2[n] = 2 * PowerOf2[n - 1]
  <2>1. ASSUME NEW n \in Nat \ {0}
        PROVE  PowerOf2[n] = 2 * PowerOf2[n - 1]
    <3>1. n - 1 \in Nat /\ (n - 1) + 1 = n
      OBVIOUS
    <3>2. PowerOf2[(n - 1) + 1] = 2 * PowerOf2[n - 1]
      BY <3>1, PowersOf2
    <3>3. QED
      BY <3>1, <3>2
  <2>2. QED
    BY <2>1, PowersOf2
<1>2. PowerOf2[1] = 2 /\ PowerOf2[2] = 4 /\ PowerOf2[3] = 8 /\ PowerOf2[4] = 16 /\ PowerOf2[5] = 32
  BY <1>1
<1>3. PowerOf2[6] = 64 /\ PowerOf2[7] = 128 /\ PowerOf2[8] = 256 /\ PowerOf2[9] = 512 /\ PowerOf2[10] = 1024
  BY <1>1, <1>2
<1>4. PowerOf2[11] = 2048 /\ PowerOf2[12] = 4096 /\ PowerOf2[13] = 8192 /\ PowerOf2[14] = 16384 /\ PowerOf2[15] = 32768
  BY <1>1, <1>3
<1>5. SUFFICES ASSUME NEW k \in 0..15 PROVE 2 ^ k = PowerOf2[k]
  BY DEF PowersTo15
<1>6. CASE k = 0
  BY <1>1, <1>6, PowersAre DEF Powers
<1>7. CASE k = 1
  BY <1>2, <1>7, PowersAre DEF Powers
<1>8. CASE k = 2
  BY <1>2, <1>8, PowersAre DEF Powers
<1>9. CASE k = 3
  BY <1>2, <1>9, PowersAre DEF Powers
<1>10. CASE k = 4
  BY <1>2, <1>10, PowersAre DEF Powers
<1>11. CASE k = 5
  BY <1>2, <1>11, PowersAre DEF Powers
<1>12. CASE k = 6
  BY <1>3, <1>12, PowersAre DEF Powers
<1>13. CASE k = 7
  BY <1>3, <1>13, PowersAre DEF Powers
<1>14. CASE k = 8
  BY <1>3, <1>14, PowersAre DEF Powers
<1>15. CASE k = 9
  BY <1>3, <1>15, MorePowersAre DEF MorePowers
<1>16. CASE k = 10
  BY <1>3, <1>16, MorePowersAre DEF MorePowers
<1>17. CASE k = 11
  BY <1>4, <1>17, MorePowersAre DEF MorePowers
<1>18. CASE k = 12
  BY <1>4, <1>18, MorePowersAre DEF MorePowers
<1>19. CASE k = 13
  BY <1>4, <1>19, MorePowersAre DEF MorePowers
<1>20. CASE k = 14
  BY <1>4, <1>20, MorePowersAre DEF MorePowers
<1>21. CASE k = 15
  BY <1>4, <1>21, MorePowersAre DEF MorePowers
<1>22. QED
  BY <1>6, <1>7, <1>8, <1>9, <1>10, <1>11, <1>12, <1>13, <1>14, <1>15, <1>16, <1>17, <1>18, <1>19, <1>20, <1>21

\* lengths of n symbols, and how much of the room of 15 bits the code of one takes
LensOf(lens, n) == n \in Nat /\ lens \in [1..n -> 0..15]
Coded(lens, n, s) == s \in 1..n /\ lens[s] # 0
Weight(lens, s) == IF lens[s] = 0 THEN 0 ELSE PowerOf2[15 - lens[s]]

LEMMA LenIs ==
    ASSUME NEW lens, NEW n, LensOf(lens, n), NEW s \in 1..n
    PROVE  lens[s] \in 0..15 /\ lens[s] \in Nat /\ lens[s] <= 15 /\ 15 - lens[s] \in Nat
<1>1. lens[s] \in 0..15
  BY DEF LensOf
<1>2. QED
  BY <1>1

LEMMA WeightIs ==
    ASSUME NEW lens, NEW n, LensOf(lens, n), NEW s \in 1..n
    PROVE  /\ Weight(lens, s) \in Nat /\ Weight(lens, s) \in Int
           /\ lens[s] # 0 => Weight(lens, s) \in Nat \ {0} /\ Weight(lens, s) = PowerOf2[15 - lens[s]]
<1>1. 15 - lens[s] \in Nat
  BY LenIs
<1>2. PowerOf2[15 - lens[s]] \in Nat \ {0}
  BY <1>1, PowersPositive
<1>3. QED
  BY <1>2 DEF Weight

\* Symbols are in an order.
LEMMA PrecedesIs ==
    ASSUME NEW lens, NEW n, LensOf(lens, n), NEW s \in 1..n, NEW t \in 1..n
    PROVE  /\ Precedes(lens, t, s) => lens[t] # 0 /\ lens[t] <= lens[s] /\ ~Precedes(lens, s, t) /\ t # s
           /\ lens[t] # 0 /\ lens[s] # 0 /\ s # t => Precedes(lens, t, s) \/ Precedes(lens, s, t)
           /\ \A u \in 1..n : Precedes(lens, u, t) /\ Precedes(lens, t, s) => Precedes(lens, u, s)
<1>1. lens[s] \in Nat /\ lens[t] \in Nat /\ \A u \in 1..n : lens[u] \in Nat
  BY LenIs
<1>2. s \in Nat /\ t \in Nat /\ \A u \in 1..n : u \in Nat
  BY DEF LensOf
<1>3. QED
  BY <1>1, <1>2 DEF Precedes

\* the room that the codes in front of one take, symbol by symbol
EarlierRooms(lens, n, s) == [t \in 1..n |-> IF Precedes(lens, t, s) THEN Weight(lens, t) ELSE 0]
EarlierRoom(lens, n, s) == SumOf(EarlierRooms(lens, n, s))

LEMMA EarlierRoomsAre ==
    ASSUME NEW lens, NEW n, LensOf(lens, n), NEW s \in 1..n
    PROVE  /\ EarlierRooms(lens, n, s) \in [1..n -> Int]
           /\ \A t \in 1..n : EarlierRooms(lens, n, s)[t] = IF Precedes(lens, t, s) THEN Weight(lens, t) ELSE 0
<1>1. \A t \in 1..n : Weight(lens, t) \in Int
  BY WeightIs
<1>2. QED
  BY <1>1 DEF EarlierRooms

\* What comes first has its room in front of the other.
LEMMA RoomNext ==
    ASSUME NEW lens, NEW n, LensOf(lens, n), NEW s \in 1..n, NEW t \in 1..n, Precedes(lens, t, s)
    PROVE  EarlierRoom(lens, n, t) + Weight(lens, t) <= EarlierRoom(lens, n, s)
<1>0. n \in Nat
  BY DEF LensOf
<1>1. PICK a : a = EarlierRooms(lens, n, t)
  OBVIOUS
<1>2. PICK b : b = [u \in 1..n |-> IF u = t THEN Weight(lens, t) ELSE 0]
  OBVIOUS
<1>3. PICK d : d = EarlierRooms(lens, n, s)
  OBVIOUS
<1>4. a \in [1..n -> Int] /\ \A u \in 1..n : a[u] = IF Precedes(lens, u, t) THEN Weight(lens, u) ELSE 0
  BY <1>1, EarlierRoomsAre
<1>5. d \in [1..n -> Int] /\ \A u \in 1..n : d[u] = IF Precedes(lens, u, s) THEN Weight(lens, u) ELSE 0
  BY <1>3, EarlierRoomsAre
<1>6. Weight(lens, t) \in Nat /\ Weight(lens, t) \in Int
  BY WeightIs
<1>7. b \in [1..n -> Int] /\ OnlyAt(b, t, Weight(lens, t), n)
  BY <1>2, <1>6 DEF OnlyAt
<1>8. PICK c : c = [u \in 1..n |-> a[u] + b[u]]
  OBVIOUS
<1>9. c \in [1..n -> Int] /\ PairSums(a, b, c, n)
  BY <1>4, <1>7, <1>8 DEF PairSums
<1>10. NoMore(c, d, n)
  <2> SUFFICES ASSUME NEW u \in 1..n PROVE c[u] <= d[u]
    BY DEF NoMore
  <2>1. Weight(lens, u) \in Nat
    BY WeightIs
  <2>2. c[u] = a[u] + b[u] /\ b[u] = IF u = t THEN Weight(lens, t) ELSE 0
    BY <1>2, <1>8
  <2>3. Precedes(lens, u, t) => Precedes(lens, u, s) /\ u # t
    BY PrecedesIs
  <2>4. CASE Precedes(lens, u, t)
    BY <1>4, <1>5, <2>1, <2>2, <2>3, <2>4
  <2>5. CASE ~Precedes(lens, u, t) /\ u = t
    BY <1>4, <1>5, <2>1, <2>2, <2>5
  <2>6. CASE ~Precedes(lens, u, t) /\ u # t
    BY <1>4, <1>5, <2>1, <2>2, <2>6
  <2>7. QED
    BY <2>4, <2>5, <2>6
<1>11. SumOf(b) = Weight(lens, t)
  BY <1>0, <1>6, <1>7, SumOne
<1>12. SumOf(c) = SumOf(a) + SumOf(b)
  BY <1>0, <1>4, <1>7, <1>9, SumAdd
<1>13. SumOf(c) <= SumOf(d)
  BY <1>0, <1>5, <1>9, <1>10, SumMost
<1>14. QED
  BY <1>1, <1>3, <1>11, <1>12, <1>13 DEF EarlierRoom

\* No code goes beyond the room.
LEMMA RoomLast ==
    ASSUME NEW lens, NEW n, LensOf(lens, n), CodesFit(lens), NEW s \in 1..n
    PROVE  EarlierRoom(lens, n, s) + Weight(lens, s) <= PowerOf2[15]
<1>0. n \in Nat /\ DOMAIN lens = 1..n
  BY DEF LensOf
<1>1. PICK a : a = EarlierRooms(lens, n, s)
  OBVIOUS
<1>2. PICK b : b = [u \in 1..n |-> IF u = s THEN Weight(lens, s) ELSE 0]
  OBVIOUS
<1>3. PICK d : d = [u \in 1..n |-> Weight(lens, u)]
  OBVIOUS
<1>4. a \in [1..n -> Int] /\ \A u \in 1..n : a[u] = IF Precedes(lens, u, s) THEN Weight(lens, u) ELSE 0
  BY <1>1, EarlierRoomsAre
<1>5. d \in [1..n -> Int] /\ \A u \in 1..n : d[u] = Weight(lens, u)
  <2>1. \A u \in 1..n : Weight(lens, u) \in Int
    BY WeightIs
  <2>2. QED
    BY <1>3, <2>1
<1>6. Weight(lens, s) \in Nat /\ Weight(lens, s) \in Int
  BY WeightIs
<1>7. b \in [1..n -> Int] /\ OnlyAt(b, s, Weight(lens, s), n)
  BY <1>2, <1>6 DEF OnlyAt
<1>8. PICK c : c = [u \in 1..n |-> a[u] + b[u]]
  OBVIOUS
<1>9. c \in [1..n -> Int] /\ PairSums(a, b, c, n)
  BY <1>4, <1>7, <1>8 DEF PairSums
<1>10. NoMore(c, d, n)
  <2> SUFFICES ASSUME NEW u \in 1..n PROVE c[u] <= d[u]
    BY DEF NoMore
  <2>1. Weight(lens, u) \in Nat /\ d[u] = Weight(lens, u)
    BY <1>5, WeightIs
  <2>2. c[u] = a[u] + b[u] /\ b[u] = IF u = s THEN Weight(lens, s) ELSE 0
    BY <1>2, <1>8
  <2>3. Precedes(lens, u, s) => u # s
    BY PrecedesIs
  <2>4. CASE Precedes(lens, u, s)
    BY <1>4, <2>1, <2>2, <2>3, <2>4
  <2>5. CASE ~Precedes(lens, u, s) /\ u = s
    BY <1>4, <2>1, <2>2, <2>5
  <2>6. CASE ~Precedes(lens, u, s) /\ u # s
    BY <1>4, <2>1, <2>2, <2>6
  <2>7. QED
    BY <2>4, <2>5, <2>6
<1>11. SumOf(b) = Weight(lens, s)
  BY <1>0, <1>6, <1>7, SumOne
<1>12. SumOf(c) = SumOf(a) + SumOf(b)
  BY <1>0, <1>4, <1>7, <1>9, SumAdd
<1>13. SumOf(c) <= SumOf(d)
  BY <1>0, <1>5, <1>9, <1>10, SumMost
<1>14. SumOf(d) <= PowerOf2[15]
  <2>1. 2 ^ 15 = PowerOf2[15]
    <3>1. 15 \in 0..15
      OBVIOUS
    <3>2. QED
      BY <3>1, PowersMatch DEF PowersTo15
  <2>2. \A u \in 1..n : (IF lens[u] = 0 THEN 0 ELSE 2 ^ (15 - lens[u])) = Weight(lens, u)
    <3> TAKE u \in 1..n
    <3>1. lens[u] \in 0..15
      BY LenIs
    <3>2. PICK k \in 0..15 : k = 15 - lens[u]
      BY <3>1
    <3>3. 2 ^ k = PowerOf2[k]
      BY PowersMatch DEF PowersTo15
    <3>4. QED
      BY <3>2, <3>3 DEF Weight
  <2>3. [u \in DOMAIN lens |-> IF lens[u] = 0 THEN 0 ELSE 2 ^ (15 - lens[u])] = d
    BY <1>0, <1>3, <2>2
  <2>4. PICK top : top = 2 ^ 15
    OBVIOUS
  <2>5. SumOf(d) <= top
    BY <2>3, <2>4 DEF CodesFit
  <2>6. QED
    BY <2>1, <2>4, <2>5
<1>15. EarlierRoom(lens, n, s) = SumOf(a)
  BY <1>1 DEF EarlierRoom
<1>16. SumOf(a) \in Int /\ SumOf(b) \in Int /\ SumOf(c) \in Int /\ SumOf(d) \in Int /\ PowerOf2[15] \in Int
  <2>1. 15 \in Nat
    OBVIOUS
  <2>2. PowerOf2[15] \in Int
    BY <2>1, PowersPositive
  <2>3. \A x \in [1..n -> Int] : SumOf(x) \in Int
    <3> TAKE x \in [1..n -> Int]
    <3>1. PICK f : Adds(f, x, n)
      BY <1>0, AddsUp
    <3>2. QED
      BY <1>0, <3>1 DEF Adds
  <2>4. QED
    BY <1>4, <1>5, <1>7, <1>9, <2>2, <2>3
<1>17. QED
  BY <1>11, <1>12, <1>13, <1>14, <1>15, <1>16

\* the number that RFC 1951 gives a symbol
Canons(lens, n, s) == [t \in 1..n |-> IF Precedes(lens, t, s) THEN PowerOf2[lens[s] - lens[t]] ELSE 0]
Canon(lens, n, s) == SumOf(Canons(lens, n, s))

LEMMA CanonsAre ==
    ASSUME NEW lens, NEW n, LensOf(lens, n), NEW s \in 1..n
    PROVE  /\ Canons(lens, n, s) \in [1..n -> Int] /\ AllNat(Canons(lens, n, s), n)
           /\ \A t \in 1..n : Canons(lens, n, s)[t] = IF Precedes(lens, t, s) THEN PowerOf2[lens[s] - lens[t]] ELSE 0
           /\ Canon(lens, n, s) \in Nat
<1>0. n \in Nat
  BY DEF LensOf
<1>1. \A t \in 1..n : (IF Precedes(lens, t, s) THEN PowerOf2[lens[s] - lens[t]] ELSE 0) \in Nat
  <2> TAKE t \in 1..n
  <2>1. CASE Precedes(lens, t, s)
    <3>1. lens[t] \in Nat /\ lens[s] \in Nat /\ lens[t] <= lens[s]
      BY <2>1, LenIs, PrecedesIs
    <3>2. PICK k \in Nat : k = lens[s] - lens[t]
      BY <3>1
    <3>3. PowerOf2[k] \in Nat
      BY PowersPositive
    <3>4. QED
      BY <2>1, <3>2, <3>3
  <2>2. QED
    BY <2>1
<1>2. PICK a : a = Canons(lens, n, s)
  OBVIOUS
<1>3. a \in [1..n -> Int] /\ \A t \in 1..n : a[t] = IF Precedes(lens, t, s) THEN PowerOf2[lens[s] - lens[t]] ELSE 0
  BY <1>1, <1>2 DEF Canons
<1>4. AllNat(a, n)
  BY <1>1, <1>3 DEF AllNat
<1>5. SumOf(a) \in Nat
  BY <1>0, <1>3, <1>4, SumNatural
<1>6. QED
  BY <1>2, <1>3, <1>4, <1>5 DEF Canon

\* It leaves off where the room of those in front does.
LEMMA CanonRoom ==
    ASSUME NEW lens, NEW n, LensOf(lens, n), NEW s \in 1..n, lens[s] # 0
    PROVE  EarlierRoom(lens, n, s) = Canon(lens, n, s) * Weight(lens, s)
<1>0. n \in Nat
  BY DEF LensOf
<1>1. PICK w \in Int : w = Weight(lens, s) /\ w = PowerOf2[15 - lens[s]]
  BY WeightIs
<1>2. PICK a : a = Canons(lens, n, s)
  OBVIOUS
<1>3. PICK b : b = EarlierRooms(lens, n, s)
  OBVIOUS
<1>4. a \in [1..n -> Int] /\ \A t \in 1..n : a[t] = IF Precedes(lens, t, s) THEN PowerOf2[lens[s] - lens[t]] ELSE 0
  BY <1>2, CanonsAre
<1>5. b \in [1..n -> Int] /\ \A t \in 1..n : b[t] = IF Precedes(lens, t, s) THEN Weight(lens, t) ELSE 0
  BY <1>3, EarlierRoomsAre
<1>6. Multiplied(a, w, b, n)
  <2> SUFFICES ASSUME NEW t \in 1..n PROVE b[t] = a[t] * w
    BY DEF Multiplied
  <2>1. CASE Precedes(lens, t, s)
    <3>1. /\ lens[t] \in Nat /\ lens[s] \in Nat /\ lens[t] <= lens[s] /\ lens[s] <= 15 /\ lens[t] # 0
      BY <2>1, LenIs, PrecedesIs
    <3>2. PICK i, j \in Nat : i = lens[s] - lens[t] /\ j = 15 - lens[s] /\ i + j = 15 - lens[t]
      BY <3>1
    <3>3. PowerOf2[i + j] = PowerOf2[i] * PowerOf2[j]
      BY PowersAdd
    <3>4. b[t] = PowerOf2[i + j] /\ a[t] = PowerOf2[i] /\ w = PowerOf2[j]
      BY <1>1, <1>4, <1>5, <2>1, <3>1, <3>2 DEF Weight
    <3>5. QED
      BY <3>3, <3>4
  <2>2. CASE ~Precedes(lens, t, s)
    BY <1>4, <1>5, <2>2
  <2>3. QED
    BY <2>1, <2>2
<1>7. SumOf(b) = SumOf(a) * w
  BY <1>0, <1>4, <1>5, <1>6, SumTimes
<1>8. QED
  BY <1>1, <1>2, <1>3, <1>7 DEF EarlierRoom, Canon

\* next_code[i]: what the codes of fewer than i bits leave, of i bits
NextRooms(lens, n, i) == [t \in 1..n |-> IF lens[t] # 0 /\ lens[t] < i THEN PowerOf2[i - lens[t]] ELSE 0]
NextRoom(lens, n, i) == SumOf(NextRooms(lens, n, i))

LEMMA NextRoomsAre ==
    ASSUME NEW lens, NEW n, LensOf(lens, n), NEW i \in 0..15
    PROVE  /\ NextRooms(lens, n, i) \in [1..n -> Int] /\ NextRoom(lens, n, i) \in Nat
           /\ \A t \in 1..n : NextRooms(lens, n, i)[t] = IF lens[t] # 0 /\ lens[t] < i THEN PowerOf2[i - lens[t]] ELSE 0
<1>0. n \in Nat
  BY DEF LensOf
<1>1. \A t \in 1..n : (IF lens[t] # 0 /\ lens[t] < i THEN PowerOf2[i - lens[t]] ELSE 0) \in Nat
  <2> TAKE t \in 1..n
  <2>1. CASE lens[t] # 0 /\ lens[t] < i
    <3>1. lens[t] \in Nat
      BY LenIs
    <3>2. PICK k \in Nat : k = i - lens[t]
      BY <2>1, <3>1
    <3>3. PowerOf2[k] \in Nat
      BY PowersPositive
    <3>4. QED
      BY <2>1, <3>2, <3>3
  <2>2. QED
    BY <2>1
<1>2. PICK a : a = NextRooms(lens, n, i)
  OBVIOUS
<1>3. a \in [1..n -> Int] /\ \A t \in 1..n : a[t] = IF lens[t] # 0 /\ lens[t] < i THEN PowerOf2[i - lens[t]] ELSE 0
  BY <1>1, <1>2 DEF NextRooms
<1>4. AllNat(a, n)
  BY <1>1, <1>3 DEF AllNat
<1>5. SumOf(a) \in Nat
  BY <1>0, <1>3, <1>4, SumNatural
<1>6. QED
  BY <1>2, <1>3, <1>5 DEF NextRoom

LEMMA NextRoomFirst ==
    ASSUME NEW lens, NEW n, LensOf(lens, n)
    PROVE  NextRoom(lens, n, 0) = 0
<1>0. n \in Nat /\ 0 \in 0..15
  BY DEF LensOf
<1>1. PICK a : a = NextRooms(lens, n, 0)
  OBVIOUS
<1>2. a \in [1..n -> Int] /\ \A t \in 1..n : a[t] = IF lens[t] # 0 /\ lens[t] < 0 THEN PowerOf2[0 - lens[t]] ELSE 0
  BY <1>0, <1>1, NextRoomsAre
<1>3. \A t \in 1..n : ~(lens[t] < 0)
  BY LenIs
<1>4. OnesOf(a, {}, n)
  BY <1>2, <1>3 DEF OnesOf
<1>5. SumOf(a) = Cardinality({} \cap (1..n))
  BY <1>0, <1>2, <1>4, SumCount
<1>6. {} \cap (1..n) = {}
  OBVIOUS
<1>7. QED
  BY <1>1, <1>5, <1>6, FS_EmptySet DEF NextRoom

LEMMA CountsIs ==
    ASSUME NEW lens, NEW n, LensOf(lens, n), NEW b \in Nat
    PROVE  \E c \in [1..n -> Int] : /\ SumOf(c) = counts(lens, b)
                                    /\ \A t \in 1..n : c[t] = IF b # 0 /\ lens[t] = b THEN 1 ELSE 0
<1>0. n \in Nat /\ DOMAIN lens = 1..n
  BY DEF LensOf
<1>1. PICK P : P = {t \in 1..n : b # 0 /\ lens[t] = b}
  OBVIOUS
<1>2. PICK c : c = [t \in 1..n |-> IF b # 0 /\ lens[t] = b THEN 1 ELSE 0]
  OBVIOUS
<1>3. c \in [1..n -> Int] /\ OnesOf(c, P, n)
  BY <1>1, <1>2 DEF OnesOf
<1>4. SumOf(c) = Cardinality(P \cap (1..n))
  BY <1>0, <1>3, SumCount
<1>5. P \cap (1..n) = P
  BY <1>1
<1>6. Cardinality(P) = counts(lens, b)
  <2>1. CASE b = 0
    <3>1. P = {}
      BY <1>1, <2>1
    <3>2. QED
      BY <2>1, <3>1, FS_EmptySet DEF counts
  <2>2. CASE b # 0
    <3>1. P = {t \in DOMAIN lens : lens[t] = b}
      BY <1>0, <1>1, <2>2
    <3>2. QED
      BY <2>2, <3>1 DEF counts
  <2>3. QED
    BY <2>1, <2>2
<1>7. QED
  BY <1>2, <1>3, <1>4, <1>5, <1>6

LEMMA NextRoomOn ==
    ASSUME NEW lens, NEW n, LensOf(lens, n), NEW i \in 1..15
    PROVE  NextRoom(lens, n, i) = (NextRoom(lens, n, i - 1) + counts(lens, i - 1)) * 2
<1>0. n \in Nat
  BY DEF LensOf
<1>1. PICK j \in 0..15 : j = i - 1 /\ i = j + 1 /\ j \in Nat
  OBVIOUS
<1>2. PICK a : a = NextRooms(lens, n, j)
  OBVIOUS
<1>3. PICK d : d = NextRooms(lens, n, i)
  OBVIOUS
<1>4. PICK c \in [1..n -> Int] : /\ SumOf(c) = counts(lens, j)
                                 /\ \A t \in 1..n : c[t] = IF j # 0 /\ lens[t] = j THEN 1 ELSE 0
  BY <1>1, CountsIs
<1>5. a \in [1..n -> Int] /\ \A t \in 1..n : a[t] = IF lens[t] # 0 /\ lens[t] < j THEN PowerOf2[j - lens[t]] ELSE 0
  BY <1>2, NextRoomsAre
<1>6. i \in 0..15
  OBVIOUS
<1>7. d \in [1..n -> Int] /\ \A t \in 1..n : d[t] = IF lens[t] # 0 /\ lens[t] < i THEN PowerOf2[i - lens[t]] ELSE 0
  BY <1>3, <1>6, NextRoomsAre
<1>8. PICK e : e = [t \in 1..n |-> a[t] + c[t]]
  OBVIOUS
<1>9. e \in [1..n -> Int] /\ PairSums(a, c, e, n)
  BY <1>4, <1>5, <1>8 DEF PairSums
<1>10. Multiplied(e, 2, d, n)
  <2> SUFFICES ASSUME NEW t \in 1..n PROVE d[t] = e[t] * 2
    BY DEF Multiplied
  <2>1. PICK l \in Nat : l = lens[t]
    BY LenIs
  <2>2. e[t] = a[t] + c[t]
    BY <1>8
  <2>3. CASE l # 0 /\ l < j
    <3>0. j - l \in Nat
      BY <1>1, <2>1, <2>3
    <3>1. PICK k \in Nat : k = j - l /\ k + 1 = i - l
      BY <1>1, <2>1, <3>0
    <3>2. PowerOf2[k + 1] = 2 * PowerOf2[k] /\ PowerOf2[k] \in Nat
      BY PowersOf2
    <3>3. a[t] = PowerOf2[k] /\ c[t] = 0 /\ d[t] = PowerOf2[k + 1]
      BY <1>1, <1>4, <1>5, <1>7, <2>1, <2>3, <3>1
    <3>4. QED
      BY <2>2, <3>2, <3>3
  <2>4. CASE l # 0 /\ l = j
    <3>1. PowerOf2[1] = 2
      <4>1. 0 \in Nat /\ 0 + 1 = 1
        OBVIOUS
      <4>2. PowerOf2[0] = 1 /\ PowerOf2[0 + 1] = 2 * PowerOf2[0]
        BY <4>1, PowersOf2
      <4>3. QED
        BY <4>1, <4>2
    <3>2. i - l = 1 /\ l < i /\ ~(l < j) /\ j # 0
      BY <1>1, <2>1, <2>4
    <3>3. a[t] = 0 /\ c[t] = 1 /\ d[t] = PowerOf2[1]
      BY <1>4, <1>5, <1>7, <2>1, <2>4, <3>2
    <3>4. QED
      BY <2>2, <3>1, <3>3
  <2>5. CASE ~(l # 0 /\ l <= j)
    <3>1. ~(l # 0 /\ l < j) /\ ~(j # 0 /\ l = j) /\ ~(l # 0 /\ l < i)
      BY <1>1, <2>1, <2>5
    <3>2. a[t] = 0 /\ c[t] = 0 /\ d[t] = 0
      BY <1>4, <1>5, <1>7, <2>1, <3>1
    <3>3. QED
      BY <2>2, <3>2
  <2>6. QED
    BY <1>1, <2>1, <2>3, <2>4, <2>5
<1>11. SumOf(e) = SumOf(a) + SumOf(c)
  BY <1>0, <1>4, <1>5, <1>9, SumAdd
<1>12. 2 \in Int
  OBVIOUS
<1>13. SumOf(d) = SumOf(e) * 2
  BY <1>0, <1>7, <1>9, <1>10, <1>12, SumTimes
<1>14. QED
  BY <1>1, <1>2, <1>3, <1>4, <1>11, <1>13 DEF NextRoom

LEMMA NextCodeIs ==
    ASSUME NEW lens, NEW n, LensOf(lens, n), NEW b \in 0..15
    PROVE  next_code(lens, b) = NextRoom(lens, n, b)
<1> DEFINE Is(h) == h = [i \in 0..b |-> IF i = 0 THEN 0 ELSE (h[i - 1] + counts(lens, i - 1)) * 2]
<1>1. PICK h : h = (CHOOSE g : Is(g)) /\ next_code(lens, b) = h[b]
  BY DEF next_code
<1>2. ASSUME NEW g
      PROVE  Is(g) <=> (/\ g = [i \in 0..b |-> g[i]] /\ g[0] = 0
                        /\ \A i \in 1..b : g[i] = (g[i - 1] + counts(lens, i - 1)) * 2)
  <2>1. 0 \in 0..b /\ \A i \in 0..b : i = 0 \/ i \in 1..b
    OBVIOUS
  <2>2. \A i \in 1..b : i \in 0..b /\ i # 0
    OBVIOUS
  <2>3. QED
    BY <2>1, <2>2
<1> HIDE DEF Is
<1>3. PICK f : f = [i \in 0..b |-> NextRoom(lens, n, i)]
  OBVIOUS
<1>4. \A i \in 0..b : f[i] = NextRoom(lens, n, i)
  BY <1>3
<1>5. Is(f)
  <2>1. f = [i \in 0..b |-> f[i]]
    BY <1>3
  <2>2. f[0] = 0
    BY <1>4, NextRoomFirst
  <2>3. ASSUME NEW i \in 1..b
        PROVE  f[i] = (f[i - 1] + counts(lens, i - 1)) * 2
    <3>1. i \in 1..15 /\ i \in 0..b /\ i - 1 \in 0..b
      OBVIOUS
    <3>2. NextRoom(lens, n, i) = (NextRoom(lens, n, i - 1) + counts(lens, i - 1)) * 2
      BY <3>1, NextRoomOn
    <3>3. QED
      BY <1>4, <3>1, <3>2
  <2>4. QED
    BY <1>2, <2>1, <2>2, <2>3
<1>6. Is(h)
  BY <1>1, <1>5
<1>7. h[0] = 0 /\ \A i \in 1..b : h[i] = (h[i - 1] + counts(lens, i - 1)) * 2
  BY <1>2, <1>6
<1> DEFINE R == {i \in 0..b : h[i] = NextRoom(lens, n, i)}
<1>8. 0 \in R
  BY <1>7, NextRoomFirst
<1>9. ASSUME NEW i \in 1..b, i - 1 \in R
      PROVE  i \in R
  <2>1. i \in 1..15 /\ i \in 0..b
    OBVIOUS
  <2>2. h[i] = (h[i - 1] + counts(lens, i - 1)) * 2
    BY <1>7
  <2>3. NextRoom(lens, n, i) = (NextRoom(lens, n, i - 1) + counts(lens, i - 1)) * 2
    BY <2>1, NextRoomOn
  <2>4. h[i - 1] = NextRoom(lens, n, i - 1)
    BY <1>9
  <2>5. QED
    BY <2>1, <2>2, <2>3, <2>4
<1> HIDE DEF R
<1>10. b \in Nat /\ b \in 0..b
  OBVIOUS
<1>11. \A i \in 0..b : i \in R
  BY <1>8, <1>9, <1>10, InductUpTo
<1>12. QED
  BY <1>1, <1>10, <1>11 DEF R

\* What next_code comes to at a symbol is the number that RFC 1951 gives it.
LEMMA CodeIs ==
    ASSUME NEW lens, NEW n, LensOf(lens, n), NEW s \in 1..n, lens[s] # 0
    PROVE  Code(lens, s) = Canon(lens, n, s)
<1>0. n \in Nat
  BY DEF LensOf
<1>1. PICK l \in 0..15 : l = lens[s] /\ l # 0
  BY LenIs
<1>2. PICK a : a = NextRooms(lens, n, l)
  OBVIOUS
<1>3. PICK P : P = {t \in 1..(s - 1) : lens[t] = l}
  OBVIOUS
<1>4. PICK c : c = [t \in 1..n |-> IF t \in P THEN 1 ELSE 0]
  OBVIOUS
<1>5. PICK d : d = Canons(lens, n, s)
  OBVIOUS
<1>6. a \in [1..n -> Int] /\ \A t \in 1..n : a[t] = IF lens[t] # 0 /\ lens[t] < l THEN PowerOf2[l - lens[t]] ELSE 0
  BY <1>2, NextRoomsAre
<1>7. c \in [1..n -> Int] /\ OnesOf(c, P, n) /\ \A t \in 1..n : c[t] = IF t \in P THEN 1 ELSE 0
  BY <1>4 DEF OnesOf
<1>8. d \in [1..n -> Int] /\ \A t \in 1..n : d[t] = IF Precedes(lens, t, s) THEN PowerOf2[l - lens[t]] ELSE 0
  BY <1>1, <1>5, CanonsAre
<1>9. PairSums(a, c, d, n)
  <2> SUFFICES ASSUME NEW t \in 1..n PROVE d[t] = a[t] + c[t]
    BY DEF PairSums
  <2>1. PICK m \in Nat : m = lens[t]
    BY LenIs
  <2>2. t \in P <=> (m = l /\ t < s)
    BY <1>0, <1>3, <2>1
  <2>3. Precedes(lens, t, s) <=> (m # 0 /\ (m < l \/ (m = l /\ t < s)))
    BY <1>1, <2>1 DEF Precedes
  <2>4. CASE m # 0 /\ m < l
    <3>1. ~(t \in P) /\ Precedes(lens, t, s)
      BY <1>1, <2>1, <2>2, <2>3, <2>4
    <3>2. PICK k \in Nat : k = l - m
      BY <1>1, <2>1, <2>4
    <3>3. a[t] = PowerOf2[k] /\ c[t] = 0 /\ d[t] = PowerOf2[k] /\ PowerOf2[k] \in Nat
      BY <1>6, <1>7, <1>8, <2>1, <2>4, <3>1, <3>2, PowersPositive
    <3>4. QED
      BY <3>3
  <2>5. CASE m # 0 /\ m = l /\ t < s
    <3>1. t \in P /\ Precedes(lens, t, s) /\ ~(m < l) /\ l - m = 0
      BY <1>1, <2>1, <2>2, <2>3, <2>5
    <3>2. a[t] = 0 /\ c[t] = 1 /\ d[t] = PowerOf2[0]
      BY <1>6, <1>7, <1>8, <2>1, <3>1
    <3>3. PowerOf2[0] = 1
      BY PowersOf2
    <3>4. QED
      BY <3>2, <3>3
  <2>6. CASE ~(m # 0 /\ (m < l \/ (m = l /\ t < s)))
    <3>1. ~(t \in P) /\ ~Precedes(lens, t, s) /\ ~(m # 0 /\ m < l)
      BY <1>1, <2>1, <2>2, <2>3, <2>6
    <3>2. a[t] = 0 /\ c[t] = 0 /\ d[t] = 0
      BY <1>6, <1>7, <1>8, <2>1, <3>1
    <3>3. QED
      BY <3>2
  <2>7. QED
    BY <2>4, <2>5, <2>6
<1>10. SumOf(d) = SumOf(a) + SumOf(c)
  BY <1>0, <1>6, <1>7, <1>8, <1>9, SumAdd
<1>11. SumOf(c) = Cardinality(P \cap (1..n))
  BY <1>0, <1>7, SumCount
<1>12. P \cap (1..n) = P
  BY <1>0, <1>3
<1>13. SumOf(a) = next_code(lens, l)
  BY <1>2, NextCodeIs DEF NextRoom
<1>14. Code(lens, s) = next_code(lens, l) + Cardinality(P)
  BY <1>1, <1>3 DEF Code
<1>15. QED
  BY <1>5, <1>10, <1>11, <1>12, <1>13, <1>14 DEF Canon

\* v is the number of the first m bits of x, the first the lowest
Spelt(v, m, x) == v \in Nat /\ v < PowerOf2[m] /\ \A i \in 1..m : NthBit(v, i - 1) = x[i]
Alike(x, y, m) == \A i \in 1..m : x[i] = y[i]

LEMMA BitIsIt == \A v \in Bits : NthBit(v, 0) = v /\ v < PowerOf2[1] /\ v \in Nat
<1>1. PowerOf2[0] = 1 /\ PowerOf2[1] = 2
  <2>1. 0 \in Nat /\ 0 + 1 = 1
    OBVIOUS
  <2>2. PowerOf2[0] = 1 /\ PowerOf2[0 + 1] = 2 * PowerOf2[0]
    BY <2>1, PowersOf2
  <2>3. QED
    BY <2>1, <2>2
<1>2. (0 \div 1) % 2 = 0 /\ (1 \div 1) % 2 = 1
  OBVIOUS
<1>3. QED
  BY <1>1, <1>2 DEF NthBit, Bits

LEMMA OneBitOn ==
    ASSUME NEW m \in Nat, NEW x, NEW v, Spelt(v, m, x), x[m + 1] \in Bits
    PROVE  Spelt(v + x[m + 1] * PowerOf2[m], m + 1, x)
<1>1. v \in Nat /\ v < PowerOf2[m] /\ \A i \in 1..m : NthBit(v, i - 1) = x[i]
  BY DEF Spelt
<1>2. PICK b \in Bits : b = x[m + 1]
  OBVIOUS
<1>3. b \in Nat /\ NthBit(b, 0) = b /\ b < PowerOf2[1]
  BY BitIsIt
<1>4. PICK w : w = v + b * PowerOf2[m]
  OBVIOUS
<1>5. /\ w \in Nat
      /\ \A i \in Nat : i < m => NthBit(w, i) = NthBit(v, i)
      /\ \A i \in Nat : NthBit(w, m + i) = NthBit(b, i)
  <2>1. v \in Nat /\ v < PowerOf2[m]
    BY <1>1
  <2>2. v + b * PowerOf2[m] \in Nat
    BY <1>3, <2>1, BitsJoined
  <2>3. \A i \in Nat : i < m => NthBit(v + b * PowerOf2[m], i) = NthBit(v, i)
    BY <1>3, <2>1, BitsJoined
  <2>4. \A i \in Nat : NthBit(v + b * PowerOf2[m], m + i) = NthBit(b, i)
    BY <1>3, <2>1, BitsJoined
  <2>5. QED
    BY <1>4, <2>2, <2>3, <2>4, Zenon
<1>6. w < PowerOf2[m + 1]
  <2>1. 1 \in Nat
    OBVIOUS
  <2>2. QED
    BY <1>1, <1>3, <1>4, <2>1, JoinedBelow
<1>7. \A i \in 1..(m + 1) : NthBit(w, i - 1) = x[i]
  <2> TAKE i \in 1..(m + 1)
  <2>1. CASE i = m + 1
    <3>1. i - 1 = m + 0 /\ 0 \in Nat
      BY <2>1
    <3>2. NthBit(w, m + 0) = NthBit(b, 0)
      BY <1>5, <3>1
    <3>3. QED
      BY <1>2, <1>3, <2>1, <3>1, <3>2
  <2>2. CASE i # m + 1
    <3>1. i \in 1..m /\ i - 1 \in Nat /\ i - 1 < m
      BY <2>2
    <3>2. QED
      BY <1>1, <1>5, <3>1
  <2>3. QED
    BY <2>1, <2>2
<1>8. QED
  BY <1>2, <1>4, <1>5, <1>6, <1>7 DEF Spelt

\* Numbers of m bits are the same where their bits are.
Matching(v, w, m) == \A i \in 0..(m - 1) : NthBit(v, i) = NthBit(w, i)
Small(m) == {v \in Nat : v < PowerOf2[m]}

LEMMA SmallHalf ==
    ASSUME NEW m \in Nat, NEW v \in Small(m + 1)
    PROVE  /\ v \in Nat /\ v \div 2 \in Small(m) /\ v = 2 * (v \div 2) + NthBit(v, 0) /\ v \div 2 \in Nat
           /\ \A i \in 0..(m - 1) : NthBit(v \div 2, i) = NthBit(v, i + 1) /\ i + 1 \in 0..m
<1>1. v \in Nat /\ v < PowerOf2[m + 1] /\ PowerOf2[m + 1] = 2 * PowerOf2[m]
  BY PowersOf2 DEF Small
<1>2. PICK p \in Nat : p = PowerOf2[m]
  BY PowersPositive
<1>3. PowerOf2[0] = 1 /\ PowerOf2[1] = 2
  <2>1. 0 \in Nat /\ 0 + 1 = 1
    OBVIOUS
  <2>2. PowerOf2[0] = 1 /\ PowerOf2[0 + 1] = 2 * PowerOf2[0]
    BY <2>1, PowersOf2
  <2>3. QED
    BY <2>1, <2>2
<1>4. PICK h \in Nat : h = v \div 2 /\ v = 2 * h + (v % 2)
  BY <1>1
<1>5. v \div 1 = v
  BY <1>1
<1>6. NthBit(v, 0) = v % 2
  BY <1>3, <1>5 DEF NthBit
<1>7. v % 2 \in {0, 1}
  BY <1>1
<1>8. h < p
  BY <1>1, <1>2, <1>4, <1>7
<1>9. \A i \in 0..(m - 1) : NthBit(v \div 2, i) = NthBit(v, i + 1)
  <2> TAKE i \in 0..(m - 1)
  <2>1. i \in Nat /\ 1 \in Nat /\ 1 + i = i + 1
    OBVIOUS
  <2>2. NthBit(v \div PowerOf2[1], i) = NthBit(v, 1 + i)
    BY <1>1, <2>1, BitsAbove
  <2>3. QED
    BY <1>3, <2>1, <2>2
<1>10. \A i \in 0..(m - 1) : i + 1 \in 0..m
  OBVIOUS
<1>11. QED
  BY <1>1, <1>2, <1>4, <1>6, <1>8, <1>9, <1>10 DEF Small

LEMMA MatchedSame ==
    ASSUME NEW m \in Nat
    PROVE  \A v, w \in Small(m) : Matching(v, w, m) => v = w
<1> DEFINE R == {k \in Nat : \A v, w \in Small(k) : Matching(v, w, k) => v = w}
<1>1. 0 \in R
  <2>1. PowerOf2[0] = 1
    BY PowersOf2
  <2>2. \A v \in Small(0) : v = 0
    BY <2>1 DEF Small
  <2>3. QED
    BY <2>2
<1>2. ASSUME NEW k \in Nat, k \in R
      PROVE  k + 1 \in R
  <2>0. k + 1 \in Nat
    OBVIOUS
  <2>1. SUFFICES ASSUME NEW v \in Small(k + 1), NEW w \in Small(k + 1), Matching(v, w, k + 1)
                 PROVE  v = w
    BY <2>0
  <2>2. PICK x : x = v \div 2
    OBVIOUS
  <2>3. PICK y : y = w \div 2
    OBVIOUS
  <2>4. /\ x \in Small(k) /\ v = 2 * x + NthBit(v, 0)
        /\ \A i \in 0..(k - 1) : NthBit(x, i) = NthBit(v, i + 1) /\ i + 1 \in 0..k
    BY <2>2, SmallHalf
  <2>5. /\ y \in Small(k) /\ w = 2 * y + NthBit(w, 0)
        /\ \A i \in 0..(k - 1) : NthBit(y, i) = NthBit(w, i + 1)
    BY <2>3, SmallHalf
  <2>6. \A i \in 0..k : NthBit(v, i) = NthBit(w, i)
    <3>1. (k + 1) - 1 = k
      OBVIOUS
    <3>2. QED
      BY <2>1, <3>1 DEF Matching
  <2>7. Matching(x, y, k)
    BY <2>4, <2>5, <2>6 DEF Matching
  <2>8. x = y
    BY <1>2, <2>4, <2>5, <2>7
  <2>9. 0 \in 0..k
    OBVIOUS
  <2>10. NthBit(v, 0) = NthBit(w, 0)
    BY <2>6, <2>9
  <2>11. QED
    BY <2>4, <2>5, <2>8, <2>10, Zenon
<1> HIDE DEF R
<1>3. Nat \subseteq R
  BY <1>1, <1>2, Induct
<1>4. QED
  BY <1>3 DEF R

LEMMA SpeltSame ==
    ASSUME NEW m \in Nat, NEW x, NEW y, NEW v, Spelt(v, m, x), NEW w, Spelt(w, m, y)
    PROVE  v = w <=> Alike(x, y, m)
<1>1. v \in Small(m) /\ w \in Small(m)
  BY DEF Spelt, Small
<1>2. \A i \in 1..m : NthBit(v, i - 1) = x[i] /\ NthBit(w, i - 1) = y[i]
  BY DEF Spelt
<1>3. ASSUME Alike(x, y, m)
      PROVE  v = w
  <2>1. Matching(v, w, m)
    <3> SUFFICES ASSUME NEW i \in 0..(m - 1) PROVE NthBit(v, i) = NthBit(w, i)
      BY DEF Matching
    <3>1. PICK j \in 1..m : j = i + 1 /\ j - 1 = i
      OBVIOUS
    <3>2. QED
      BY <1>2, <1>3, <3>1 DEF Alike
  <2>2. QED
    BY <1>1, <2>1, MatchedSame
<1>4. ASSUME v = w
      PROVE  Alike(x, y, m)
  BY <1>2, <1>4 DEF Alike
<1>5. QED
  BY <1>3, <1>4

\* (acc & ((1<<b) -1)) is the number of the next b bits.
LEMMA LowIs ==
    ASSUME NEW b \in 0..15, NEW x, \A i \in 1..b : x[i] \in Bits
    PROVE  Spelt(Low(x, b), b, x)
<1>0. b \in Nat
  OBVIOUS
<1>1. PICK s : s = [i \in 1..b |-> x[i] * PowerOf2[i - 1]]
  OBVIOUS
<1>2. \A i \in 1..b : x[i] * 2 ^ (i - 1) = x[i] * PowerOf2[i - 1]
  <2> TAKE i \in 1..b
  <2>1. PICK k \in 0..15 : k = i - 1
    OBVIOUS
  <2>2. 2 ^ k = PowerOf2[k]
    BY PowersMatch DEF PowersTo15
  <2>3. QED
    BY <2>1, <2>2
<1>3. Low(x, b) = SumOf(s)
  <2>1. [i \in 1..b |-> x[i] * 2 ^ (i - 1)] = s
    BY <1>1, <1>2
  <2>2. QED
    BY <2>1 DEF Low
<1>4. s \in [1..b -> Int]
  <2>1. \A i \in 1..b : x[i] * PowerOf2[i - 1] \in Int
    <3> TAKE i \in 1..b
    <3>1. i - 1 \in Nat
      OBVIOUS
    <3>2. x[i] \in Nat /\ PowerOf2[i - 1] \in Nat
      BY <3>1, BitIsIt, PowersPositive
    <3>3. QED
      BY <3>2
  <2>2. QED
    BY <1>1, <2>1
<1>5. PICK f : Adds(f, s, b)
  BY <1>0, <1>4, AddsUp
<1> DEFINE R == {k \in 0..b : Spelt(f[k], k, x)}
<1>6. 0 \in R
  <2>1. f[0] = 0 /\ PowerOf2[0] = 1
    BY <1>5, AddsFrom, PowersOf2
  <2>2. 0 \in Nat /\ 0 < 1 /\ 0 \in 0..b /\ \A i \in 1..0 : FALSE
    OBVIOUS
  <2>3. Spelt(f[0], 0, x)
    BY <2>1, <2>2 DEF Spelt
  <2>4. QED
    BY <2>2, <2>3
<1>7. ASSUME NEW k \in 1..b, k - 1 \in R
      PROVE  k \in R
  <2>1. PICK m \in Nat : m = k - 1 /\ k = m + 1
    OBVIOUS
  <2>2. Spelt(f[m], m, x) /\ x[m + 1] \in Bits
    BY <1>7, <2>1
  <2>3. Spelt(f[m] + x[m + 1] * PowerOf2[m], m + 1, x)
    BY <2>2, OneBitOn
  <2>4. AddsAt(f, s, k)
    BY <1>0, <1>4, <1>5, AddsIs, Zenon
  <2>5. f[k] = f[m] + x[m + 1] * PowerOf2[m]
    BY <1>1, <2>1, <2>4 DEF AddsAt
  <2>6. Spelt(f[k], k, x) /\ k \in 0..b
    BY <2>1, <2>3, <2>5
  <2>7. QED
    BY <2>6
<1> HIDE DEF R
<1>8. \A k \in 0..b : k \in R
  BY <1>0, <1>6, <1>7, InductUpTo
<1>9. b \in 0..b
  OBVIOUS
<1>10. QED
  BY <1>3, <1>5, <1>8, <1>9 DEF R, Adds

\* the k lowest bits of a code, the other way around, and what is above them
Reversal(c, k) == [i \in 1..k |-> NthBit(c, k - i)]
TurnsInto(d, c, k) == d \in [val : Nat, code : Nat] /\ Spelt(d.val, k, Reversal(c, k)) /\ d.code = c \div PowerOf2[k]
TurnOn(d) == [val |-> 2 * d.val + (d.code % 2), code |-> d.code \div 2]

UpBy(w, a, b, s) ==
    /\ w \in Nat
    /\ \A i \in Nat : i < s => NthBit(w, i) = NthBit(a, i)
    /\ \A i \in Nat : NthBit(w, s + i) = NthBit(b, i)
LEMMA BitsUp ==
    ASSUME NEW s \in Nat, NEW a \in Nat, a < PowerOf2[s], NEW b \in Nat
    PROVE  UpBy(a + b * PowerOf2[s], a, b, s)
<1>1. a + b * PowerOf2[s] \in Nat
  BY BitsJoined
<1>2. \A i \in Nat : i < s => NthBit(a + b * PowerOf2[s], i) = NthBit(a, i)
  BY BitsJoined
<1>3. \A i \in Nat : NthBit(a + b * PowerOf2[s], s + i) = NthBit(b, i)
  BY BitsJoined
<1>4. QED
  BY <1>1, <1>2, <1>3 DEF UpBy

LEMMA ReversedOn ==
    ASSUME NEW c \in Nat, NEW k \in Nat, NEW d, TurnsInto(d, c, k)
    PROVE  TurnsInto(TurnOn(d), c, k + 1)
<1>1. /\ d \in [val : Nat, code : Nat] /\ d.code = c \div PowerOf2[k]
      /\ d.val \in Nat /\ d.val < PowerOf2[k] /\ \A i \in 1..k : NthBit(d.val, i - 1) = Reversal(c, k)[i]
  BY DEF TurnsInto, Spelt
<1>2. PICK v \in Nat, u \in Nat : v = d.val /\ u = d.code
  BY <1>1
<1>3. PICK b \in Bits : b = u % 2 /\ b = NthBit(c, k)
  <2>1. u % 2 \in Bits
    BY DEF Bits
  <2>2. u % 2 = NthBit(c, k)
    BY <1>1, <1>2 DEF NthBit
  <2>3. QED
    BY <2>1, <2>2
<1>4. PICK w : w = 2 * v + b
  OBVIOUS
<1>5. b \in Nat /\ NthBit(b, 0) = b /\ b < PowerOf2[1]
  BY BitIsIt
<1>6. PowerOf2[1] = 2 /\ PowerOf2[k + 1] = PowerOf2[k] * 2 /\ PowerOf2[k] \in Nat \ {0} /\ 1 \in Nat
  <2>1. 0 \in Nat /\ 0 + 1 = 1
    OBVIOUS
  <2>2. PowerOf2[0] = 1 /\ PowerOf2[0 + 1] = 2 * PowerOf2[0] /\ PowerOf2[k + 1] = 2 * PowerOf2[k]
    BY <2>1, PowersOf2
  <2>3. PowerOf2[k] \in Nat \ {0}
    BY PowersPositive
  <2>4. QED
    BY <2>1, <2>2, <2>3
<1>7. /\ w \in Nat
      /\ \A i \in Nat : i < 1 => NthBit(w, i) = NthBit(b, i)
      /\ \A i \in Nat : NthBit(w, 1 + i) = NthBit(v, i)
  <2>1. w = b + v * PowerOf2[1]
    BY <1>4, <1>5, <1>6
  <2>2. 1 \in Nat
    OBVIOUS
  <2>3. UpBy(b + v * PowerOf2[1], b, v, 1)
    BY <1>2, <1>5, <2>2, BitsUp
  <2>4. UpBy(w, b, v, 1)
    BY <2>1, <2>3
  <2>5. QED
    BY <2>4 DEF UpBy
<1>8. w < PowerOf2[k + 1]
  <2>1. PICK p \in Nat : p = PowerOf2[k]
    BY <1>6
  <2>2. v < p /\ b < 2
    BY <1>1, <1>2, <1>5, <1>6, <2>1
  <2>3. w < p * 2
    BY <1>4, <1>5, <2>2
  <2>4. QED
    BY <1>6, <2>1, <2>3
<1>9. \A i \in 1..(k + 1) : NthBit(w, i - 1) = Reversal(c, k + 1)[i]
  <2> TAKE i \in 1..(k + 1)
  <2>1. Reversal(c, k + 1)[i] = NthBit(c, k + 1 - i)
    BY DEF Reversal
  <2>2. CASE i = 1
    <3>1. k + 1 - i = k /\ i - 1 = 0 /\ 0 \in Nat /\ 0 < 1
      BY <2>2
    <3>2. NthBit(w, 0) = NthBit(b, 0)
      BY <1>7, <3>1
    <3>3. QED
      BY <1>3, <1>5, <2>1, <3>1, <3>2
  <2>3. CASE i # 1
    <3>1. PICK j \in 1..k : i = j + 1
      <4>1. i - 1 \in 1..k /\ i = (i - 1) + 1
        BY <2>3
      <4>2. QED
        BY <4>1
    <3>2. j - 1 \in Nat /\ i - 1 = 1 + (j - 1) /\ k + 1 - i = k - j
      BY <3>1
    <3>3. NthBit(w, 1 + (j - 1)) = NthBit(v, j - 1)
      BY <1>7, <3>2
    <3>4. NthBit(v, j - 1) = NthBit(c, k - j)
      BY <1>1, <1>2 DEF Reversal
    <3>5. QED
      BY <2>1, <3>2, <3>3, <3>4
  <2>4. QED
    BY <2>2, <2>3
<1>10. TurnOn(d) = [val |-> w, code |-> u \div 2] /\ u \div 2 \in Nat
  BY <1>2, <1>3, <1>4 DEF TurnOn
<1>11. u \div 2 = c \div PowerOf2[k + 1]
  <2>1. PICK p \in Nat \ {0} : p = PowerOf2[k]
    BY <1>6
  <2>2. PICK q \in Nat \ {0} : q = PowerOf2[k + 1] /\ q = p * 2
    BY <1>6, <2>1
  <2>3. PICK two \in Nat \ {0} : two = 2
    OBVIOUS
  <2>4. (c \div p) \div 2 = c \div q
    <3>1. q = p * two
      BY <2>2, <2>3
    <3>2. (c \div p) \div two = c \div q
      BY <2>1, <2>2, <2>3, <3>1, DividedTwice
    <3>3. QED
      BY <2>3, <3>2
  <2>5. QED
    BY <1>1, <1>2, <2>1, <2>2, <2>4
<1>12. PICK e : e = TurnOn(d)
  OBVIOUS
<1>13. e \in [val : Nat, code : Nat] /\ e.val = w /\ e.code = c \div PowerOf2[k + 1]
  BY <1>7, <1>10, <1>11, <1>12
<1>14. Spelt(w, k + 1, Reversal(c, k + 1))
  BY <1>7, <1>8, <1>9 DEF Spelt
<1>15. QED
  BY <1>12, <1>13, <1>14 DEF TurnsInto

\* The reversed code is the number of the same bits the other way around.
LEMMA MirroredIs ==
    ASSUME NEW c \in Nat, NEW b \in Nat
    PROVE  Spelt(Mirrored(c, b), b, Reversal(c, b))
<1> DEFINE Is(h) == h = [k \in 0..b |->
                           IF k = 0 THEN [val |-> 0, code |-> c]
                           ELSE LET d == h[k - 1]
                                IN [val |-> 2 * d.val + (d.code % 2), code |-> d.code \div 2]]
<1>1. PICK h : h = (CHOOSE g : Is(g)) /\ Mirrored(c, b) = h[b].val
  BY DEF Mirrored
<1>2. PICK first : first = [val |-> 0, code |-> c]
  OBVIOUS
<1>3. ASSUME NEW g
      PROVE  Is(g) <=> (/\ g = [k \in 0..b |-> g[k]] /\ g[0] = first
                        /\ \A k \in 1..b : g[k] = TurnOn(g[k - 1]))
  <2>1. 0 \in 0..b /\ \A k \in 0..b : k = 0 \/ k \in 1..b
    OBVIOUS
  <2>2. \A k \in 1..b : k \in 0..b /\ k # 0
    OBVIOUS
  <2>3. QED
    BY <1>2, <2>1, <2>2 DEF TurnOn
<1> HIDE DEF Is
<1> DEFINE V == [k \in 0..b |-> {d \in [val : Nat, code : Nat] : TurnsInto(d, c, k)}]
           step == [p \in (1..b) \X [val : Nat, code : Nat] |-> TurnOn(p[2])]
<1>4. \A k \in 1..b : \A d \in [val : Nat, code : Nat] : step[<<k, d>>] = TurnOn(d)
  OBVIOUS
<1>5. \A k \in 0..b : \A d : d \in V[k] <=> TurnsInto(d, c, k)
  BY DEF TurnsInto
<1>6. \A k \in 1..b : k \in 0..b /\ k - 1 \in 0..b /\ k - 1 \in Nat /\ (k - 1) + 1 = k
  OBVIOUS
<1> HIDE DEF V, step
<1>7. ASSUME NEW k \in 1..b, NEW d \in V[k - 1]
      PROVE  TurnOn(d) \in V[k] /\ step[<<k, d>>] = TurnOn(d)
  <2>1. PICK j \in Nat : j = k - 1 /\ j + 1 = k
    BY <1>6
  <2>2. TurnsInto(d, c, j)
    BY <1>5, <1>6, <2>1
  <2>3. TurnsInto(TurnOn(d), c, j + 1)
    BY <2>2, ReversedOn
  <2>4. d \in [val : Nat, code : Nat]
    BY <2>2 DEF TurnsInto
  <2>5. QED
    BY <1>4, <1>5, <1>6, <2>1, <2>3, <2>4
<1>8. Carry(step, b, V)
  BY <1>7 DEF Carry
<1>9. first \in V[0]
  <2>1. PowerOf2[0] = 1
    BY PowersOf2
  <2>2. first.val = 0 /\ first.code = c /\ first \in [val : Nat, code : Nat]
    BY <1>2
  <2>3. c \div 1 = c /\ 0 \in Nat /\ 0 < 1 /\ \A i \in 1..0 : FALSE
    OBVIOUS
  <2>4. Spelt(first.val, 0, Reversal(c, 0))
    BY <2>1, <2>2, <2>3 DEF Spelt
  <2>5. TurnsInto(first, c, 0)
    BY <2>1, <2>2, <2>3, <2>4 DEF TurnsInto
  <2>6. 0 \in 0..b
    OBVIOUS
  <2>7. QED
    BY <1>5, <2>5, <2>6
<1>10. PICK f : f = [k \in 0..b |-> f[k]] /\ RecursIn(f, b, first, step, V)
  BY <1>8, <1>9, RecursionIn, Zenon
<1>11. \A k \in 0..b : f[k] \in V[k]
  BY <1>8, <1>9, <1>10, RecursInIs, Zenon
<1>12. Is(f)
  <2>1. \A k \in 1..b : f[k] = TurnOn(f[k - 1])
    BY <1>6, <1>7, <1>10, <1>11 DEF RecursIn
  <2>2. QED
    BY <1>3, <1>10, <2>1 DEF RecursIn
<1>13. Is(h)
  BY <1>1, <1>12
<1>14. RecursIn(h, b, first, step, V)
  BY <1>3, <1>7, <1>13 DEF RecursIn
<1>15. \A k \in 0..b : h[k] \in V[k]
  BY <1>8, <1>9, <1>14, RecursInIs, Zenon
<1>16. b \in 0..b
  OBVIOUS
<1>17. TurnsInto(h[b], c, b)
  BY <1>5, <1>15, <1>16
<1>18. QED
  BY <1>1, <1>17 DEF TurnsInto

\* x goes on with the code of s
Starts(x, lens, n, s) == Alike(x, Reversal(Canon(lens, n, s), lens[s]), lens[s])
Look(x) == \A i \in 1..15 : x[i] \in Bits

LEMMA CanonBelow ==
    ASSUME NEW lens, NEW n, LensOf(lens, n), CodesFit(lens), NEW s \in 1..n, lens[s] # 0
    PROVE  Canon(lens, n, s) \in Nat /\ Canon(lens, n, s) < PowerOf2[lens[s]]
<1>1. PICK l \in Nat, r \in Nat : l = lens[s] /\ r = 15 - lens[s] /\ l + r = 15
  <2>1. lens[s] \in Nat /\ 15 - lens[s] \in Nat
    BY LenIs
  <2>2. lens[s] + (15 - lens[s]) = 15
    BY <2>1
  <2>3. QED
    BY <2>1, <2>2
<1>2. PICK c \in Nat : c = Canon(lens, n, s)
  BY CanonsAre
<1>3. PICK w \in Nat \ {0} : w = PowerOf2[r] /\ w = Weight(lens, s)
  BY <1>1, WeightIs
<1>4. PICK p \in Nat \ {0} : p = PowerOf2[l]
  BY <1>1, PowersPositive
<1>5. PowerOf2[15] = p * w
  <2>1. l \in Nat /\ r \in Nat
    BY <1>1
  <2>2. PowerOf2[l + r] = PowerOf2[l] * PowerOf2[r]
    BY <2>1, PowersAdd
  <2>3. QED
    BY <1>1, <1>3, <1>4, <2>2
<1>6. EarlierRoom(lens, n, s) = c * w
  BY <1>2, <1>3, CanonRoom
<1>7. c * w + w <= p * w
  BY <1>3, <1>5, <1>6, RoomLast
<1>8. ASSUME c >= p
      PROVE  FALSE
  <2>1. PICK k \in Nat : c = p + k
    <3>1. c - p \in Nat /\ c = p + (c - p)
      BY <1>2, <1>4, <1>8
    <3>2. QED
      BY <3>1
  <2>2. c * w = p * w + k * w
    BY <1>2, <1>3, <1>4, <2>1
  <2>3. k * w \in Nat /\ p * w \in Nat
    BY <1>3, <1>4, <2>1
  <2>4. QED
    BY <1>3, <1>7, <2>2, <2>3
<1>9. c < p
  BY <1>2, <1>4, <1>8
<1>10. QED
  BY <1>1, <1>2, <1>4, <1>9

\* The bits that RFC 1951 gives a symbol are those of its number, the highest first.
LEMMA CanonicalBitsAre ==
    ASSUME NEW lens, NEW n, LensOf(lens, n), NEW s \in 1..n, lens[s] # 0
    PROVE  CanonicalBits(lens, s) = Reversal(Canon(lens, n, s), lens[s])
<1>1. PICK l \in 0..15 : l = lens[s]
  BY LenIs
<1>2. DOMAIN lens = 1..n
  BY DEF LensOf
<1>3. \A t \in 1..n : (IF Precedes(lens, t, s) THEN 2 ^ (l - lens[t]) ELSE 0)
                        = (IF Precedes(lens, t, s) THEN PowerOf2[l - lens[t]] ELSE 0)
  <2> TAKE t \in 1..n
  <2>1. CASE Precedes(lens, t, s)
    <3>1. lens[t] \in Nat /\ lens[t] <= l
      BY <1>1, <2>1, LenIs, PrecedesIs
    <3>2. PICK k \in 0..15 : k = l - lens[t]
      BY <1>1, <3>1
    <3>3. 2 ^ k = PowerOf2[k]
      BY PowersMatch DEF PowersTo15
    <3>4. QED
      BY <3>2, <3>3
  <2>2. QED
    BY <2>1
<1>4. PICK c : c = Canon(lens, n, s)
  OBVIOUS
<1>5. SumOf([t \in DOMAIN lens |-> IF Precedes(lens, t, s) THEN 2 ^ (l - lens[t]) ELSE 0]) = c
  <2>1. [t \in DOMAIN lens |-> IF Precedes(lens, t, s) THEN 2 ^ (l - lens[t]) ELSE 0]
           = [t \in 1..n |-> IF Precedes(lens, t, s) THEN PowerOf2[l - lens[t]] ELSE 0]
    BY <1>2, <1>3
  <2>2. QED
    BY <1>1, <1>4, <2>1 DEF Canon, Canons
<1>6. CanonicalBits(lens, s) = [i \in 1..l |-> (c \div 2 ^ (l - i)) % 2]
  BY <1>1, <1>5 DEF CanonicalBits
<1>7. \A i \in 1..l : (c \div 2 ^ (l - i)) % 2 = NthBit(c, l - i)
  <2> TAKE i \in 1..l
  <2>1. PICK k \in 0..15 : k = l - i
    BY <1>1
  <2>2. 2 ^ k = PowerOf2[k]
    BY PowersMatch DEF PowersTo15
  <2>3. QED
    BY <2>1, <2>2 DEF NthBit
<1>8. QED
  BY <1>1, <1>4, <1>6, <1>7 DEF Reversal

\* What dico has for a symbol is the number that is next where its code is.
LEMMA LowFits ==
    ASSUME NEW lens, NEW n, LensOf(lens, n), NEW s \in 1..n, lens[s] # 0, NEW x, Look(x)
    PROVE  Low(x, lens[s]) = dico(lens)[s] <=> Starts(x, lens, n, s)
<1>1. PICK l \in 0..15 : l = lens[s] /\ l \in Nat
  BY LenIs
<1>2. PICK c \in Nat : c = Canon(lens, n, s)
  BY CanonsAre
<1>3. s \in DOMAIN lens
  BY DEF LensOf
<1>4. Code(lens, s) = c
  BY <1>2, CodeIs
<1>5. dico(lens)[s] = Mirrored(c, l)
  BY <1>1, <1>3, <1>4 DEF dico
<1>6. Spelt(Mirrored(c, l), l, Reversal(c, l))
  BY <1>1, MirroredIs
<1>7. Spelt(Low(x, l), l, x)
  <2>1. \A i \in 1..l : x[i] \in Bits
    BY <1>1 DEF Look
  <2>2. QED
    BY <2>1, LowIs
<1>8. Low(x, l) = Mirrored(c, l) <=> Alike(x, Reversal(c, l), l)
  BY <1>1, <1>6, <1>7, SpeltSame, Zenon
<1>9. QED
  BY <1>1, <1>2, <1>5, <1>8 DEF Starts

\* No code starts with another.
LEMMA NotBoth ==
    ASSUME NEW lens, NEW n, LensOf(lens, n), CodesFit(lens), NEW s \in 1..n, NEW t \in 1..n,
           Precedes(lens, t, s), NEW x, Starts(x, lens, n, s), Starts(x, lens, n, t)
    PROVE  FALSE
<1>1. lens[t] # 0 /\ lens[t] <= lens[s] /\ lens[t] \in Nat /\ lens[s] \in Nat /\ lens[s] <= 15 /\ lens[s] # 0
  <2>1. lens[t] # 0 /\ lens[t] <= lens[s]
    BY PrecedesIs
  <2>2. lens[t] \in Nat /\ lens[s] \in Nat /\ lens[s] <= 15
    BY LenIs
  <2>3. QED
    BY <2>1, <2>2
<1>2. PICK l \in Nat, d \in Nat, r \in Nat : /\ l = lens[t] /\ d = lens[s] - lens[t] /\ r = 15 - lens[s]
                                            /\ lens[s] = l + d /\ 15 - lens[t] = d + r
  <2>1. /\ lens[s] - lens[t] \in Nat /\ 15 - lens[s] \in Nat
        /\ lens[s] = lens[t] + (lens[s] - lens[t]) /\ 15 - lens[t] = (lens[s] - lens[t]) + (15 - lens[s])
    BY <1>1
  <2>2. QED
    BY <1>1, <2>1
<1>3. PICK a \in Nat : a = Canon(lens, n, t) /\ a < PowerOf2[l]
  BY <1>1, <1>2, CanonBelow
<1>4. PICK b \in Nat : b = Canon(lens, n, s) /\ b < PowerOf2[l + d]
  BY <1>1, <1>2, CanonBelow
<1>5. PICK pd \in Nat \ {0} : pd = PowerOf2[d]
  BY PowersPositive
<1>6. PICK pl \in Nat \ {0} : pl = PowerOf2[l]
  BY PowersPositive
<1>7. PowerOf2[l + d] = pl * pd
  BY <1>5, <1>6, PowersAdd
<1>8. PICK h \in Nat, z \in 0..(pd - 1) : h = b \div pd /\ b = h * pd + z
  <2>1. b \in Nat /\ pd \in Nat \ {0}
    BY <1>4, <1>5
  <2>2. b \div pd \in Nat /\ b % pd \in 0..(pd - 1) /\ b = (b \div pd) * pd + (b % pd)
    BY <2>1, Division
  <2>3. PICK q : q = b \div pd
    OBVIOUS
  <2>4. PICK z : z = b % pd
    OBVIOUS
  <2>5. QED
    BY <2>2, <2>3, <2>4
<1>9. h < pl
  <2>1. ASSUME h >= pl
        PROVE  FALSE
    <3>1. PICK k \in Nat : h = pl + k
      <4>1. h - pl \in Nat /\ h = pl + (h - pl)
        BY <1>6, <1>8, <2>1
      <4>2. QED
        BY <4>1
    <3>2. h * pd = pl * pd + k * pd
      <4>1. pd \in Nat /\ pl \in Nat /\ k \in Nat /\ h = pl + k
        BY <1>5, <1>6, <3>1
      <4>2. QED
        BY <4>1
    <3>3. k * pd \in Nat /\ pl * pd \in Nat
      BY <1>5, <1>6, <3>1
    <3>4. QED
      BY <1>4, <1>7, <1>8, <3>2, <3>3
  <2>2. QED
    BY <1>6, <1>8, <2>1
<1>10. Matching(h, a, l)
  <2> SUFFICES ASSUME NEW j \in 0..(l - 1) PROVE NthBit(h, j) = NthBit(a, j)
    BY DEF Matching
  <2>1. PICK i \in 1..l : i = l - j /\ l - i = j /\ (l + d) - i = d + j
    <3>1. l - j \in 1..l /\ l - (l - j) = j /\ (l + d) - (l - j) = d + j
      BY <1>2
    <3>2. QED
      BY <3>1
  <2>2. i \in 1..(l + d) /\ j \in Nat
    BY <1>2, <2>1
  <2>3. x[i] = NthBit(a, l - i)
    BY <1>2, <1>3, <2>1 DEF Starts, Alike, Reversal
  <2>4. x[i] = NthBit(b, (l + d) - i)
    BY <1>2, <1>4, <2>2 DEF Starts, Alike, Reversal
  <2>5. NthBit(h, j) = NthBit(b, d + j)
    BY <1>4, <1>5, <1>8, <2>2, BitsAbove
  <2>6. QED
    BY <2>1, <2>3, <2>4, <2>5
<1>11. h = a
  <2>1. h \in Small(l) /\ a \in Small(l)
    BY <1>3, <1>6, <1>8, <1>9 DEF Small
  <2>2. QED
    BY <1>10, <2>1, MatchedSame
<1>12. PICK w \in Nat \ {0} : w = PowerOf2[r] /\ w = Weight(lens, s)
  BY <1>1, <1>2, WeightIs
<1>13. Weight(lens, t) = pd * w
  <2>1. PowerOf2[d + r] = pd * w
    <3>1. d \in Nat /\ r \in Nat
      BY <1>2
    <3>2. PowerOf2[d + r] = PowerOf2[d] * PowerOf2[r]
      BY <3>1, PowersAdd
    <3>3. QED
      BY <1>5, <1>12, <3>2
  <2>2. QED
    BY <1>1, <1>2, <2>1, WeightIs
<1>14. a * (pd * w) + pd * w <= b * w
  <2>1. EarlierRoom(lens, n, t) = a * (pd * w)
    BY <1>1, <1>3, <1>13, CanonRoom
  <2>2. EarlierRoom(lens, n, s) = b * w
    BY <1>1, <1>4, <1>12, CanonRoom
  <2>3. EarlierRoom(lens, n, t) + Weight(lens, t) <= EarlierRoom(lens, n, s)
    BY RoomNext
  <2>4. QED
    BY <1>13, <2>1, <2>2, <2>3
<1>15. PICK g \in Nat \ {0} : pd = z + g
  <2>1. pd - z \in Nat \ {0} /\ pd = z + (pd - z)
    BY <1>5, <1>8
  <2>2. QED
    BY <2>1
<1>16. b * w + g * w = a * (pd * w) + pd * w
  <2>1. b + g = a * pd + pd
    <3>1. b = a * pd + z
      BY <1>8, <1>11
    <3>2. PICK m \in Nat : m = a * pd
      BY <1>3, <1>5
    <3>3. z \in Nat
      BY <1>5, <1>8
    <3>4. QED
      BY <1>15, <3>1, <3>2, <3>3
  <2>2. (b + g) * w = (a * pd + pd) * w
    BY <2>1
  <2>3. (b + g) * w = b * w + g * w
    BY <1>4, <1>12, <1>15
  <2>4. (a * pd + pd) * w = a * (pd * w) + pd * w
    BY <1>3, <1>5, <1>12
  <2>5. QED
    BY <2>2, <2>3, <2>4
<1>17. g * w \in Nat \ {0} /\ b * w \in Nat
  BY <1>4, <1>12, <1>15
<1>18. QED
  BY <1>14, <1>16, <1>17

LEMMA OnlyOne ==
    ASSUME NEW lens, NEW n, LensOf(lens, n), CodesFit(lens), NEW x,
           NEW s \in 1..n, lens[s] # 0, Starts(x, lens, n, s),
           NEW t \in 1..n, lens[t] # 0, Starts(x, lens, n, t)
    PROVE  t = s
<1>1. CASE Precedes(lens, t, s)
  BY <1>1, NotBoth
<1>2. CASE Precedes(lens, s, t)
  BY <1>2, NotBoth
<1>3. QED
  BY <1>1, <1>2, PrecedesIs

LEMMA DicoSpelt ==
    ASSUME NEW lens, NEW n, LensOf(lens, n), NEW s \in 1..n, lens[s] # 0
    PROVE  Spelt(dico(lens)[s], lens[s], Reversal(Canon(lens, n, s), lens[s]))
<1>1. PICK l \in Nat : l = lens[s]
  BY LenIs
<1>2. PICK c \in Nat : c = Canon(lens, n, s)
  BY CanonsAre
<1>3. s \in DOMAIN lens
  BY DEF LensOf
<1>4. Code(lens, s) = c
  BY <1>2, CodeIs
<1>5. dico(lens)[s] = Mirrored(c, l)
  BY <1>1, <1>3, <1>4 DEF dico
<1>6. Spelt(Mirrored(c, l), l, Reversal(c, l))
  BY MirroredIs
<1>7. QED
  BY <1>1, <1>2, <1>5, <1>6

\* No two symbols have one reversed code, whatever their lengths.
LEMMA DicoLonger ==
    ASSUME NEW lens, NEW n, LensOf(lens, n), CodesFit(lens), NEW s \in 1..n, lens[s] # 0,
           NEW t \in 1..n, lens[t] # 0, dico(lens)[s] = dico(lens)[t], lens[s] <= lens[t]
    PROVE  t = s
<1>1. PICK l \in Nat, m \in Nat : l = lens[s] /\ m = lens[t] /\ l <= m
  BY LenIs
<1>2. PICK x : x = Reversal(Canon(lens, n, t), m)
  OBVIOUS
<1>3. PICK y : y = Reversal(Canon(lens, n, s), l)
  OBVIOUS
<1>4. PICK v : v = dico(lens)[s]
  OBVIOUS
<1>5. Spelt(v, l, y) /\ Spelt(v, m, x)
  BY <1>1, <1>2, <1>3, <1>4, DicoSpelt
<1>6. \A i \in 1..l : x[i] = y[i]
  <2> TAKE i \in 1..l
  <2>1. i \in 1..m
    BY <1>1
  <2>2. QED
    BY <1>5, <2>1 DEF Spelt
<1>7. Starts(x, lens, n, t)
  BY <1>1, <1>2 DEF Starts, Alike
<1>8. Starts(x, lens, n, s)
  BY <1>1, <1>3, <1>6 DEF Starts, Alike
<1>9. QED
  BY <1>7, <1>8, OnlyOne

LEMMA DicoOne ==
    ASSUME NEW lens, NEW n, LensOf(lens, n), CodesFit(lens), NEW s \in 1..n, lens[s] # 0,
           NEW t \in 1..n, lens[t] # 0, dico(lens)[s] = dico(lens)[t]
    PROVE  t = s
<1>1. lens[s] \in Nat /\ lens[t] \in Nat
  BY LenIs
<1>2. CASE lens[s] <= lens[t]
  BY <1>2, DicoLonger
<1>3. CASE lens[t] <= lens[s]
  BY <1>3, DicoLonger
<1>4. QED
  BY <1>1, <1>2, <1>3

\* The first instruction whose code fits is the one whose code is next.
LEMMA SearchedIs ==
    ASSUME NEW lens, NEW n, LensOf(lens, n), CodesFit(lens), NEW s \in 1..n, lens[s] # 0,
           NEW x, Look(x), Starts(x, lens, n, s)
    PROVE  Searched(lens, dico(lens), x) = {s}
<1>0. DOMAIN lens = 1..n
  BY DEF LensOf
<1>1. PICK d : d = dico(lens)
  OBVIOUS
<1>2. PICK fits : fits = {k \in DOMAIN lens : lens[k] # 0 /\ Low(x, lens[k]) = d[k]}
  OBVIOUS
<1>3. s \in fits
  BY <1>0, <1>1, <1>2, LowFits
<1>4. ASSUME NEW t \in fits
      PROVE  t = s
  <2>1. t \in 1..n /\ lens[t] # 0 /\ Low(x, lens[t]) = d[t]
    BY <1>0, <1>2
  <2>2. Starts(x, lens, n, t)
    BY <1>1, <2>1, LowFits
  <2>3. QED
    BY <2>1, <2>2, OnlyOne
<1>5. fits = {s}
  BY <1>3, <1>4
<1>6. Min(fits) = s /\ fits # {}
  BY <1>5, MinOne
<1>7. Searched(lens, d, x) = IF fits = {} THEN {} ELSE {Min(fits)}
  BY <1>2 DEF Searched
<1>8. QED
  BY <1>1, <1>6, <1>7

\* So is what is looked up, by codes of 2 bits or more.
LEMMA LookedUpIs ==
    ASSUME NEW lens, NEW n, LensOf(lens, n), CodesFit(lens), NEW s \in 1..n, lens[s] # 0, lens[s] # 1,
           NEW x, Look(x), Starts(x, lens, n, s), Len(x) \in Nat, Len(x) >= 15
    PROVE  LookedUp(lens, dico(lens), x) = {s}
<1>0. DOMAIN lens = 1..n
  BY DEF LensOf
<1>1. PICK d : d = dico(lens)
  OBVIOUS
<1> DEFINE rdico(code) == {t \in DOMAIN lens : lens[t] # 0 /\ d[t] = code}
           found(b) == LET at == rdico(Low(x, b)) IN at # {} /\ lens[Max(at)] = b
<1>2. PICK l \in Nat : l = lens[s] /\ l \in 2..15
  BY LenIs
<1>3. PICK fits : fits = {b \in 2..Min({15, Len(x)}) : found(b)}
  OBVIOUS
<1>4. LookedUp(lens, d, x) = IF fits = {} THEN {} ELSE {Max(rdico(Low(x, Min(fits))))}
  BY <1>3 DEF LookedUp
<1>5. Min({15, Len(x)}) = 15
  <2>1. PICK m \in Nat : m = 15
    OBVIOUS
  <2>2. PICK S : S = {m, Len(x)}
    OBVIOUS
  <2>3. S \subseteq Int /\ m \in S /\ \A y \in S : m <= y
    BY <2>1, <2>2
  <2>4. Min(S) = m
    BY <2>3, MinIs
  <2>5. QED
    BY <2>1, <2>2, <2>4
<1>6. ASSUME NEW code, NEW t \in rdico(code)
      PROVE  rdico(code) = {t} /\ t \in 1..n /\ lens[t] # 0 /\ d[t] = code
  <2>1. t \in 1..n /\ lens[t] # 0 /\ d[t] = code
    BY <1>0
  <2>2. ASSUME NEW u \in rdico(code)
        PROVE  u = t
    <3>1. u \in 1..n /\ lens[u] # 0 /\ d[u] = code
      BY <1>0
    <3>2. QED
      BY <1>1, <2>1, <3>1, DicoOne
  <2> HIDE DEF rdico
  <2>3. QED
    BY <2>1, <2>2
<1>7. s \in rdico(Low(x, l))
  BY <1>0, <1>1, <1>2, LowFits
<1> HIDE DEF rdico
<1>8. rdico(Low(x, l)) = {s} /\ Max({s}) = s
  BY <1>6, <1>7, MaxOne
<1>9. found(l)
  BY <1>2, <1>8
<1>10. ASSUME NEW b \in 2..15, found(b)
       PROVE  b = l
  <2>1. PICK t : t \in rdico(Low(x, b))
    BY <1>10
  <2>2. rdico(Low(x, b)) = {t} /\ t \in 1..n /\ lens[t] # 0 /\ d[t] = Low(x, b)
    BY <1>6, <2>1
  <2>3. Max({t}) = t
    BY <2>2, MaxOne
  <2>4. lens[t] = b
    BY <1>10, <2>2, <2>3
  <2>5. Starts(x, lens, n, t)
    BY <1>1, <2>2, <2>4, LowFits
  <2>6. t = s
    BY <2>2, <2>5, OnlyOne
  <2>7. QED
    BY <1>2, <2>4, <2>6
<1> HIDE DEF found
<1>11. fits = {l}
  BY <1>2, <1>3, <1>5, <1>9, <1>10
<1>12. fits # {} /\ Min(fits) = l
  BY <1>2, <1>11, MinOne
<1>13. QED
  BY <1>1, <1>4, <1>8, <1>12

\* the codes of symbols, where those before them end
Chain(at, lens, n, source, m, bits) ==
    /\ at \in [0..m -> Nat] /\ at[0] = 0
    /\ \A k \in 0..m : at[k] + 15 <= Len(bits)
    /\ \A k \in 1..m : /\ at[k] = at[k - 1] + lens[source[k]]
                       /\ \A i \in 1..lens[source[k]] :
                             bits[at[k - 1] + i] = Reversal(Canon(lens, n, source[k]), lens[source[k]])[i]
Symbols(lens, n, source, m) ==
    /\ m \in Nat /\ m = Len(source) /\ source \in Seq(1..n)
    /\ \A k \in 1..m : source[k] \in 1..n /\ lens[source[k]] # 0
CodedOf(lens, source) == FlattenSeq([i \in DOMAIN source |-> CanonicalBits(lens, source[i])])

LEMMA ChainIs ==
    ASSUME NEW lens, NEW n, LensOf(lens, n), NEW source, NEW m, Symbols(lens, n, source, m),
           NEW bits \in Seq(Bits), IsPrefix(CodedOf(lens, source), bits),
           Len(bits) >= Len(CodedOf(lens, source)) + 15
    PROVE  \E at : Chain(at, lens, n, source, m, bits)
<1>1. m \in Nat /\ DOMAIN source = 1..m /\ \A k \in 1..m : source[k] \in 1..n /\ lens[source[k]] # 0
  BY DEF Symbols
<1> DEFINE seqs == [k \in DOMAIN source |-> CanonicalBits(lens, source[k])]
<1>2. \A k \in 1..m : /\ seqs[k] \in Seq(Bits) /\ Len(seqs[k]) = lens[source[k]]
                      /\ lens[source[k]] \in Nat
                      /\ \A i \in 1..lens[source[k]] :
                            seqs[k][i] = Reversal(Canon(lens, n, source[k]), lens[source[k]])[i]
  <2> TAKE k \in 1..m
  <2>1. PICK s \in 1..n : s = source[k] /\ lens[s] # 0
    BY <1>1
  <2>2. PICK l \in Nat : l = lens[s]
    BY LenIs
  <2>3. PICK c \in Nat : c = Canon(lens, n, s)
    BY CanonsAre
  <2>4. seqs[k] = CanonicalBits(lens, s)
    BY <1>1, <2>1
  <2> HIDE DEF seqs
  <2>5. seqs[k] = Reversal(c, l)
    BY <2>1, <2>2, <2>3, <2>4, CanonicalBitsAre
  <2>6. \A i \in 1..l : NthBit(c, l - i) \in Bits
    <3> TAKE i \in 1..l
    <3>1. l - i \in Nat
      OBVIOUS
    <3>2. QED
      BY <3>1, NthBitIs
  <2>7. PICK t : t = Reversal(c, l)
    OBVIOUS
  <2>8. t \in Seq(Bits) /\ Len(t) = l
    BY <2>6, <2>7 DEF Reversal
  <2>9. QED
    BY <2>1, <2>2, <2>3, <2>5, <2>7, <2>8
<1>3. seqs \in Seq(Seq(Bits)) /\ Len(seqs) = m
  <2>1. seqs = [k \in 1..m |-> seqs[k]]
    BY <1>1
  <2>2. \A k \in 1..m : seqs[k] \in Seq(Bits)
    BY <1>2
  <2> HIDE DEF seqs
  <2>3. m \in Nat
    BY <1>1
  <2>4. QED
    BY <2>1, <2>2, <2>3
<1>4. CodedOf(lens, source) = FlattenSeq(seqs)
  BY DEF CodedOf
<1> HIDE DEF seqs
<1>5. PICK flat : Flat(flat, seqs, m, Bits) /\ FlattenSeq(seqs) = flat[m]
  BY <1>1, <1>3, FlatOf, Zenon
<1>6. PICK all : all = flat[m]
  OBVIOUS
<1>7. \A k \in 1..m : InFlat(flat, seqs, m, k)
  BY <1>1, <1>5, FlatAt, Zenon
<1>8. \A k \in 0..m : flat[k] \in Seq(Bits) /\ Len(flat[k]) \in Nat
  <2>1. \A k \in 0..m : flat[k] \in Seq(Bits)
    BY <1>5 DEF Flat
  <2>2. \A s \in Seq(Bits) : Len(s) \in Nat
    OBVIOUS
  <2>3. QED
    BY <2>1, <2>2
<1>9. PICK at : at = [k \in 0..m |-> Len(flat[k])]
  OBVIOUS
<1>10. at \in [0..m -> Nat] /\ \A k \in 0..m : at[k] = Len(flat[k])
  BY <1>8, <1>9
<1>11. at[0] = 0 /\ at[m] = Len(all) /\ all \in Seq(Bits)
  <2>1. 0 \in 0..m /\ m \in 0..m /\ Len(<< >>) = 0
    BY <1>1
  <2>2. QED
    BY <1>5, <1>6, <1>8, <1>10, <2>1 DEF Flat
<1>12. Len(all) \in Nat /\ Len(all) + 15 <= Len(bits) /\ \A i \in 1..Len(all) : bits[i] = all[i]
  <2>1. all = CodedOf(lens, source)
    BY <1>4, <1>5, <1>6
  <2>2. \A i \in 1..Len(all) : bits[i] = all[i]
    BY <1>11, <2>1, PrefixHas
  <2>3. Len(bits) \in Nat /\ Len(all) \in Nat
    BY <1>11
  <2>4. QED
    BY <2>1, <2>2, <2>3
<1>13. ASSUME NEW k \in 1..m
       PROVE  /\ at[k] = at[k - 1] + lens[source[k]] /\ at[k] <= Len(all) /\ k - 1 \in 0..m
              /\ \A i \in 1..lens[source[k]] :
                    bits[at[k - 1] + i] = Reversal(Canon(lens, n, source[k]), lens[source[k]])[i]
  <2>1. k \in 0..m /\ k - 1 \in 0..m
    BY <1>1
  <2>2. PICK l \in Nat : l = at[k - 1] /\ l = Len(flat[k - 1])
    BY <1>10, <2>1
  <2>3. At(all, l + 1, seqs[k]) /\ at[k] = l + Len(seqs[k])
    BY <1>6, <1>7, <1>10, <2>1, <2>2 DEF InFlat
  <2>4. PICK q \in Nat : q = Len(seqs[k]) /\ q = lens[source[k]]
    BY <1>2
  <2>5. (l + 1) + q - 1 <= Len(all) /\ \A i \in 1..q : all[(l + 1) + i - 1] = seqs[k][i]
    BY <2>3, <2>4 DEF At
  <2>6. l + q <= Len(all)
    BY <2>5
  <2>7. \A i \in 1..q : bits[l + i] = seqs[k][i]
    <3> TAKE i \in 1..q
    <3>1. (l + 1) + i - 1 = l + i /\ l + i \in 1..Len(all)
      BY <1>12, <2>6
    <3>2. QED
      BY <1>12, <2>5, <3>1
  <2>8. QED
    BY <1>2, <2>1, <2>2, <2>3, <2>4, <2>6, <2>7
<1>14. \A k \in 0..m : at[k] + 15 <= Len(bits)
  <2> TAKE k \in 0..m
  <2>1. Len(bits) \in Nat /\ at[k] \in Nat
    BY <1>10
  <2>2. CASE k = 0
    BY <1>11, <1>12, <2>1, <2>2
  <2>3. CASE k # 0
    <3>1. k \in 1..m
      BY <1>1, <2>3
    <3>2. at[k] <= Len(all)
      BY <1>13, <3>1
    <3>3. QED
      BY <1>12, <2>1, <3>2
  <2>4. QED
    BY <2>2, <2>3
<1>15. \A k \in 1..m : /\ at[k] = at[k - 1] + lens[source[k]]
                       /\ \A i \in 1..lens[source[k]] :
                             bits[at[k - 1] + i] = Reversal(Canon(lens, n, source[k]), lens[source[k]])[i]
  BY <1>13, Zenon
<1>16. at \in [0..m -> Nat] /\ at[0] = 0
  BY <1>10, <1>11
<1>17. Chain(at, lens, n, source, m, bits)
  BY <1>14, <1>15, <1>16 DEF Chain
<1>18. QED
  BY <1>17

\* the first k symbols found, and what is behind their codes
FoundTo(source, bits, at, k) ==
    [syms |-> SubSeq(source, 1, k), bits |-> SubSeq(bits, at[k] + 1, Len(bits))]

\* s is the next symbol, whose code x, what is behind the codes before it, goes on with
NextOf(x, s, lens, n, source, bits, at, k) ==
    /\ Look(x) /\ Starts(x, lens, n, s) /\ Len(x) \in Nat /\ Len(x) >= 15
    /\ SubSeq(x, lens[s] + 1, Len(x)) = SubSeq(bits, at[k] + 1, Len(bits))
    /\ Append(SubSeq(source, 1, k - 1), s) = SubSeq(source, 1, k)

LEMMA NextIs ==
    ASSUME NEW lens, NEW n, LensOf(lens, n), NEW source, NEW m, Symbols(lens, n, source, m),
           NEW bits \in Seq(Bits), NEW at, Chain(at, lens, n, source, m, bits), NEW k \in 1..m
    PROVE  NextOf(SubSeq(bits, at[k - 1] + 1, Len(bits)), source[k], lens, n, source, bits, at, k)
<1>1. m \in Nat /\ m = Len(source) /\ source \in Seq(1..n) /\ source[k] \in 1..n /\ lens[source[k]] # 0
  BY DEF Symbols
<1>2. PICK s \in 1..n : s = source[k] /\ lens[s] # 0
  BY <1>1
<1>3. PICK l \in Nat : l = lens[s]
  BY LenIs
<1>4. PICK a \in Nat : a = at[k - 1]
  <2>1. k - 1 \in 0..m
    BY <1>1
  <2>2. QED
    BY <2>1 DEF Chain
<1>5. at[k] = a + l /\ a + 15 <= Len(bits) /\ (a + l) + 15 <= Len(bits)
  <2>1. k - 1 \in 0..m /\ k \in 0..m
    BY <1>1
  <2>2. at[k] = at[k - 1] + lens[source[k]] /\ at[k - 1] + 15 <= Len(bits) /\ at[k] + 15 <= Len(bits)
    BY <2>1 DEF Chain
  <2>3. QED
    BY <1>2, <1>3, <1>4, <2>2
<1>6. \A i \in 1..l : bits[a + i] = Reversal(Canon(lens, n, s), l)[i]
  BY <1>2, <1>3, <1>4 DEF Chain
<1>7. PICK r \in Nat : Len(bits) = a + (l + r) /\ r >= 15
  <2>1. Len(bits) \in Nat
    OBVIOUS
  <2>2. Len(bits) - (a + l) \in Nat /\ Len(bits) = a + (l + (Len(bits) - (a + l))) /\ Len(bits) - (a + l) >= 15
    BY <1>5, <2>1
  <2>3. QED
    BY <2>2
<1>8. PICK x : x = SubSeq(bits, a + 1, Len(bits))
  OBVIOUS
<1>9. x \in Seq(Bits) /\ Len(x) = l + r /\ \A i \in 1..(l + r) : x[i] = bits[a + i]
  <2>1. l + r \in Nat
    OBVIOUS
  <2>2. x \in Seq(Bits) /\ Behinds(x, bits, a, l + r)
    BY <1>7, <1>8, <2>1, BehindIs
  <2>3. QED
    BY <2>2 DEF Behinds
<1>10. Len(x) \in Nat /\ Len(x) >= 15
  BY <1>7, <1>9
<1>11. Look(x)
  <2> SUFFICES ASSUME NEW i \in 1..15 PROVE x[i] \in Bits
    BY DEF Look
  <2>1. i \in 1..Len(x)
    BY <1>10
  <2>2. QED
    BY <1>9, <2>1
<1>12. Starts(x, lens, n, s)
  <2>1. \A i \in 1..l : x[i] = Reversal(Canon(lens, n, s), l)[i]
    <3> TAKE i \in 1..l
    <3>1. i \in 1..(l + r)
      BY <1>7
    <3>2. QED
      BY <1>6, <1>9, <3>1
  <2>2. QED
    BY <1>3, <2>1 DEF Starts, Alike
<1>13. SubSeq(x, l + 1, Len(x)) = SubSeq(bits, (a + l) + 1, Len(bits))
  BY <1>7, <1>8, BehindTwice
<1>14. Append(SubSeq(source, 1, k - 1), s) = SubSeq(source, 1, k)
  <2>1. k \in 1..Len(source) /\ k \in Nat /\ k - 1 \in Nat
    BY <1>1
  <2>2. Append([j \in 1..(k - 1) |-> source[j]], source[k]) = [j \in 1..k |-> source[j]]
    BY <1>1, <2>1, InitialPart
  <2>3. SubSeq(source, 1, k - 1) = [j \in 1..(k - 1) |-> source[j]] /\ SubSeq(source, 1, k) = [j \in 1..k |-> source[j]]
    BY <1>1, <2>1
  <2>4. QED
    BY <1>2, <2>2, <2>3
<1>15. QED
  BY <1>2, <1>3, <1>4, <1>5, <1>8, <1>10, <1>11, <1>12, <1>13, <1>14 DEF NextOf

\* what is looked up has no code of one bit
NoneOfOne(lens, n, short) == ~short => \A s \in 1..n : lens[s] # 1

LEMMA OneFoundIs ==
    ASSUME NEW lens, NEW n, LensOf(lens, n), CodesFit(lens),
           NEW source, NEW m, Symbols(lens, n, source, m),
           NEW short, NoneOfOne(lens, n, short),
           NEW bits \in Seq(Bits), NEW at, Chain(at, lens, n, source, m, bits), NEW k \in 1..m
    PROVE  OneFound(lens, dico(lens), FoundTo(source, bits, at, k - 1), short) = {FoundTo(source, bits, at, k)}
<1>1. PICK s \in 1..n : s = source[k] /\ lens[s] # 0
  BY DEF Symbols
<1>2. PICK x : x = SubSeq(bits, at[k - 1] + 1, Len(bits))
  OBVIOUS
<1>3. /\ Look(x) /\ Starts(x, lens, n, s) /\ Len(x) \in Nat /\ Len(x) >= 15
      /\ SubSeq(x, lens[s] + 1, Len(x)) = SubSeq(bits, at[k] + 1, Len(bits))
      /\ Append(SubSeq(source, 1, k - 1), s) = SubSeq(source, 1, k)
  <2>1. NextOf(x, s, lens, n, source, bits, at, k)
    BY <1>1, <1>2, NextIs
  <2>2. QED
    BY <2>1 DEF NextOf
<1>4. PICK d : d = dico(lens)
  OBVIOUS
<1>5. (IF short THEN Searched(lens, d, x) ELSE LookedUp(lens, d, x)) = {s}
  <2>1. CASE short
    <3>1. Searched(lens, d, x) = {s}
      BY <1>1, <1>3, <1>4, SearchedIs
    <3>2. QED
      BY <2>1, <3>1
  <2>2. CASE ~short
    <3>1. lens[s] # 1
      BY <2>2 DEF NoneOfOne
    <3>2. LookedUp(lens, d, x) = {s}
      BY <1>1, <1>3, <1>4, <3>1, LookedUpIs
    <3>3. QED
      BY <2>2, <3>2
  <2>3. QED
    BY <2>1, <2>2
<1>6. PICK r : r = FoundTo(source, bits, at, k - 1) /\ r.syms = SubSeq(source, 1, k - 1) /\ r.bits = x
  <2>1. PICK r : r = FoundTo(source, bits, at, k - 1)
    OBVIOUS
  <2>2. PICK t : t = SubSeq(source, 1, k - 1)
    OBVIOUS
  <2>3. r = [syms |-> t, bits |-> x]
    BY <1>2, <2>1, <2>2 DEF FoundTo
  <2>4. QED
    BY <2>1, <2>2, <2>3
<1>7. OneFound(lens, d, r, short)
        = {[syms |-> Append(r.syms, t), bits |-> SubSeq(r.bits, lens[t] + 1, Len(r.bits))] : t \in {s}}
  BY <1>5, <1>6 DEF OneFound
<1>8. OneFound(lens, d, r, short) = {[syms |-> Append(r.syms, s), bits |-> SubSeq(r.bits, lens[s] + 1, Len(r.bits))]}
  BY <1>7
<1>9. QED
  BY <1>3, <1>4, <1>6, <1>8 DEF FoundTo

LEMMA FoundIs ==
    ASSUME NEW lens, NEW n, LensOf(lens, n), CodesFit(lens),
           NEW source, NEW m, Symbols(lens, n, source, m),
           NEW short, NoneOfOne(lens, n, short),
           NEW bits \in Seq(Bits), NEW at, Chain(at, lens, n, source, m, bits)
    PROVE  Found(lens, dico(lens), bits, m, short) = {FoundTo(source, bits, at, m)}
<1>0. m \in Nat /\ m = Len(source) /\ source \in Seq(1..n)
  BY DEF Symbols
<1>1. PICK d : d = dico(lens)
  OBVIOUS
<1>2. PICK first : first = {[syms |-> << >>, bits |-> bits]}
  OBVIOUS
<1> DEFINE Is(h) == h = [i \in 0..m |-> IF i = 0 THEN {[syms |-> << >>, bits |-> bits]}
                                        ELSE UNION {OneFound(lens, d, r, short) : r \in h[i - 1]}]
<1>3. PICK h : h = (CHOOSE g : Is(g)) /\ Found(lens, d, bits, m, short) = h[m]
  BY DEF Found
<1>4. ASSUME NEW g
      PROVE  Is(g) <=> (/\ g = [i \in 0..m |-> g[i]] /\ g[0] = first
                        /\ \A i \in 1..m : g[i] = UNION {OneFound(lens, d, r, short) : r \in g[i - 1]})
  <2>1. 0 \in 0..m /\ \A i \in 0..m : i = 0 \/ i \in 1..m
    BY <1>0
  <2>2. \A i \in 1..m : i \in 0..m /\ i # 0
    BY <1>0
  <2>3. QED
    BY <1>2, <2>1, <2>2
<1> HIDE DEF Is
<1>5. ASSUME NEW i \in 1..m, NEW G, G = {FoundTo(source, bits, at, i - 1)}
      PROVE  UNION {OneFound(lens, d, r, short) : r \in G} = {FoundTo(source, bits, at, i)}
  <2>1. PICK r0 : r0 = FoundTo(source, bits, at, i - 1)
    OBVIOUS
  <2>2. OneFound(lens, d, r0, short) = {FoundTo(source, bits, at, i)}
    BY <1>1, <2>1, OneFoundIs
  <2>3. {OneFound(lens, d, r, short) : r \in G} = {OneFound(lens, d, r0, short)}
    BY <1>5, <2>1
  <2>4. QED
    BY <2>2, <2>3
<1>6. first = {FoundTo(source, bits, at, 0)}
  <2>1. at[0] = 0
    BY DEF Chain
  <2>2. SubSeq(source, 1, 0) = << >>
    BY <1>0
  <2>3. SubSeq(bits, 0 + 1, Len(bits)) = bits
    OBVIOUS
  <2>4. FoundTo(source, bits, at, 0) = [syms |-> << >>, bits |-> bits]
    BY <2>1, <2>2, <2>3 DEF FoundTo
  <2>5. QED
    BY <1>2, <2>4
<1>7. PICK f : f = [i \in 0..m |-> {FoundTo(source, bits, at, i)}]
  OBVIOUS
<1>8. \A i \in 0..m : f[i] = {FoundTo(source, bits, at, i)}
  BY <1>7
<1>9. Is(f)
  <2>1. f = [i \in 0..m |-> f[i]]
    BY <1>7
  <2>2. f[0] = first
    BY <1>0, <1>6, <1>8
  <2>3. ASSUME NEW i \in 1..m
        PROVE  f[i] = UNION {OneFound(lens, d, r, short) : r \in f[i - 1]}
    <3>1. i \in 0..m /\ i - 1 \in 0..m
      BY <1>0
    <3>2. PICK G : G = f[i - 1]
      OBVIOUS
    <3>3. G = {FoundTo(source, bits, at, i - 1)}
      BY <1>8, <3>1, <3>2
    <3>4. UNION {OneFound(lens, d, r, short) : r \in G} = {FoundTo(source, bits, at, i)}
      BY <1>5, <3>3
    <3>5. QED
      BY <1>8, <3>1, <3>2, <3>4
  <2>4. QED
    BY <1>4, <2>1, <2>2, <2>3
<1>10. Is(h)
  BY <1>3, <1>9
<1>11. h[0] = first /\ \A i \in 1..m : h[i] = UNION {OneFound(lens, d, r, short) : r \in h[i - 1]}
  BY <1>4, <1>10
<1> DEFINE R == {i \in 0..m : h[i] = {FoundTo(source, bits, at, i)}}
<1>12. 0 \in R
  BY <1>0, <1>6, <1>11
<1>13. ASSUME NEW i \in 1..m, i - 1 \in R
       PROVE  i \in R
  <2>1. i \in 0..m
    BY <1>0
  <2>2. PICK G : G = h[i - 1] /\ G = {FoundTo(source, bits, at, i - 1)}
    BY <1>13
  <2>3. UNION {OneFound(lens, d, r, short) : r \in G} = {FoundTo(source, bits, at, i)}
    BY <1>5, <2>2
  <2>4. h[i] = {FoundTo(source, bits, at, i)}
    BY <1>11, <2>2, <2>3
  <2>5. QED
    BY <2>1, <2>4
<1> HIDE DEF R
<1>14. \A i \in 0..m : i \in R
  BY <1>0, <1>12, <1>13, InductUpTo
<1>15. m \in 0..m
  BY <1>0
<1>16. QED
  BY <1>1, <1>3, <1>14, <1>15 DEF R

\* Symbols in the codes that RFC 1951 gives their lengths are found one behind the
\* other, by the search for instructions and by the look-up of inflate's tables.
THEOREM TablesUndone ==
    ASSUME NEW lens, NEW source, NEW bits, NEW short, Decodable(lens, source, bits, short)
    PROVE  {r.syms : r \in Found(lens, dico(lens), bits, Len(source), short)} = {source}
<1>1. /\ lens \in Seq(0..15) /\ CodesFit(lens)
      /\ source \in Seq({s \in DOMAIN lens : lens[s] # 0})
      /\ ~short => \A s \in DOMAIN lens : lens[s] # 1
      /\ bits \in Seq({0, 1}) /\ IsPrefix(CodedOf(lens, source), bits)
      /\ Len(bits) >= Len(CodedOf(lens, source)) + 15
  BY DEF Decodable, CodedOf
<1>2. PICK n \in Nat : n = Len(lens) /\ DOMAIN lens = 1..n
  BY <1>1
<1>3. LensOf(lens, n)
  <2>1. PICK T : T = 0..15
    OBVIOUS
  <2>2. lens \in Seq(T)
    BY <1>1, <2>1
  <2>3. lens \in [1..Len(lens) -> T]
    BY <2>2
  <2>4. lens \in [1..n -> 0..15]
    BY <1>2, <2>1, <2>3
  <2>5. QED
    BY <1>2, <2>4 DEF LensOf
<1>4. PICK m \in Nat : m = Len(source)
  BY <1>1
<1>5. Symbols(lens, n, source, m)
  <2>1. PICK S : S = {s \in DOMAIN lens : lens[s] # 0}
    OBVIOUS
  <2>2. source \in Seq(S)
    BY <1>1, <2>1
  <2>3. \A s \in S : s \in 1..n /\ lens[s] # 0
    BY <1>2, <2>1
  <2>4. \A k \in 1..m : source[k] \in S
    BY <1>4, <2>2
  <2>5. source \in Seq(1..n)
    BY <2>2, <2>3, WiderSeq
  <2>6. QED
    BY <1>4, <2>3, <2>4, <2>5 DEF Symbols
<1>6. bits \in Seq(Bits)
  BY <1>1 DEF Bits
<1>7. PICK at : Chain(at, lens, n, source, m, bits)
  BY <1>1, <1>3, <1>5, <1>6, ChainIs
<1>8. NoneOfOne(lens, n, short)
  BY <1>1, <1>2 DEF NoneOfOne
<1>9. Found(lens, dico(lens), bits, m, short) = {FoundTo(source, bits, at, m)}
  <2>1. CodesFit(lens)
    BY <1>1
  <2>2. QED
    BY <1>2, <1>3, <1>5, <1>6, <1>7, <1>8, <2>1, FoundIs
<1>10. FoundTo(source, bits, at, m).syms = source
  <2>1. SubSeq(source, 1, m) = source
    BY <1>1, <1>4
  <2>2. QED
    BY <2>1 DEF FoundTo
<1>11. QED
  BY <1>4, <1>9, <1>10

-----------------------------------------------------------------------------
(* The codecs at work *)

LEMMA CodePointsAre == \A val \in 0..HighestCodePoint : val \in CodePoints
<1>1. HighestCodePoint \in Nat /\ HighestCodePoint + 1 = 8 * 262144
  BY SMT DEF HighestCodePoint
<1>2. SUFFICES ASSUME NEW val \in 0..HighestCodePoint PROVE val \in CodePoints
  OBVIOUS
<1>3. val \in Nat /\ val < 8 * 262144
  BY <1>1, SMT
<1>4. val \div 262144 < 8
  BY <1>3, SMT
<1>5. ((val \div 64) \div 64) \div 64 = val \div 262144
  BY <1>3, SMT
<1>6. QED
  BY <1>3, <1>4, <1>5, SMT DEF CodePoints

\* What was made is what the codec of the task makes of what the task gives it.
MadeOf(t, m) ==
    /\ t.of = "base64" => m = {b64_encode(t.source)}
    /\ t.of = "utf8" => m = {utf8_encode(t.source)}
    /\ t.of = "rot" => m = {rot_cipher(t.source, t.shift, t.target)}
    /\ t.of = "vigenere" => m = vigenere_cipher(t.source, t.key)
    /\ t.of = "crc" => m = {crc32(t.source)}
    /\ t.of = "adler" => m = {adler32(t.source)}
    /\ t.of = "rows" => m = IF t.filters = << >> THEN png_filter_dumb(t.header, t.source)
                                                ELSE {Filtered(t.header, t.filters, t.source)}
    /\ t.of = "number" => m = {t.text}
    /\ t.of = "path" => m = {path_join(t.to, t.other)}
    /\ t.of = "bits" => m = {Written(t.source, t.left)}
    /\ t.of = "tables" => m = {Lens(t.instrs)}

\* And what was read back is what the reader makes of what was made.
ReadOf(t, m, b) ==
    /\ t.of = "base64" => b = UNION {b64_decode(x) : x \in m}
    /\ t.of = "utf8" => b = UNION {utf8_decode(x) : x \in m}
    /\ t.of = "rot" => b = UNION {{rot_cipher(x, -t.shift, t.target)} : x \in m}
    /\ t.of = "vigenere" => b = UNION {vigenere_cipher(x, Inverse26(t.key)) : x \in m}
    /\ t.of = "rows" => b = UNION {png_unfilter(t.header, x) : x \in m}
    /\ t.of = "number" => b = UNION {parsenum(x, Past) : x \in m}
    /\ t.of = "path" => b = UNION {{<<path_dirname(x), path_basename(x)>>} : x \in m}
    /\ t.of = "bits" => b = {ReadIn(x.bytes, t.reads) : x \in m}
    /\ t.of = "tables" =>
          b = UNION {{r.syms : r \in Found(x, dico(x), t.bits, Len(t.source), t.short)} : x \in m}

IMade ==
    /\ task \in Tasks
    /\ pc \in {"made", "read"} => MadeOf(task, made)
    /\ pc = "read" => ReadOf(task, made, back)

LEMMA MadeFirst == Init => IMade
BY DEF Init, IMade

LEMMA MadeThen ==
    ASSUME NEW codec, NEW results, Make(codec, results), MadeOf(task, results), IMade
    PROVE  IMade'
<1>1. /\ task \in Tasks /\ task' = task /\ made' = results /\ pc' = "made"
  BY DEF Make, IMade
<1>2. MadeOf(task', made')
  BY <1>1
<1>3. task' \in Tasks /\ pc' # "read"
  BY <1>1
<1>4. QED
  BY <1>2, <1>3 DEF IMade, MadeOf, ReadOf

LEMMA ReadThen ==
    ASSUME pc = "made", pc' = "read", task' = task, made' = made, IMade,
           ReadOf(task, made, back')
    PROVE  IMade'
<1>1. task \in Tasks /\ MadeOf(task, made)
  BY DEF IMade
<1>2. task' \in Tasks /\ MadeOf(task', made') /\ ReadOf(task', made', back')
  BY <1>1
<1>3. QED
  BY <1>2 DEF IMade, MadeOf, ReadOf

LEMMA MadeNext == IMade /\ [Next]_vars => IMade'
<1> SUFFICES ASSUME IMade, [Next]_vars PROVE IMade'
  OBVIOUS
<1>1. CASE Base64
  <2>1. CASE Make("base64", {b64_encode(task.source)})
    BY <2>1, MadeThen DEF MadeOf, Make
  <2>2. CASE Read("base64", b64_decode)
    BY <2>2, ReadThen DEF Read, ReadOf
  <2>3. QED
    BY <1>1, <2>1, <2>2 DEF Base64
<1>2. CASE Utf8
  <2>1. CASE Make("utf8", {utf8_encode(task.source)})
    BY <2>1, MadeThen DEF MadeOf, Make
  <2>2. CASE Read("utf8", utf8_decode)
    BY <2>2, ReadThen DEF Read, ReadOf
  <2>3. QED
    BY <1>2, <2>1, <2>2 DEF Utf8
<1>3. CASE Rotated
  <2>1. CASE Make("rot", {rot_cipher(task.source, task.shift, task.target)})
    BY <2>1, MadeThen DEF MadeOf, Make
  <2>2. CASE Read("rot", LAMBDA m : {rot_cipher(m, -task.shift, task.target)})
    BY <2>2, ReadThen DEF Read, ReadOf
  <2>3. QED
    BY <1>3, <2>1, <2>2 DEF Rotated
<1>4. CASE Vigenere
  <2>1. CASE Make("vigenere", vigenere_cipher(task.source, task.key))
    BY <2>1, MadeThen DEF MadeOf, Make
  <2>2. CASE Read("vigenere", LAMBDA m : vigenere_cipher(m, Inverse26(task.key)))
    BY <2>2, ReadThen DEF Read, ReadOf
  <2>3. QED
    BY <1>4, <2>1, <2>2 DEF Vigenere
<1>5. CASE Checked
  <2>1. CASE Make("crc", {crc32(task.source)})
    BY <2>1, MadeThen DEF MadeOf, Make
  <2>2. CASE Make("adler", {adler32(task.source)})
    BY <2>2, MadeThen DEF MadeOf, Make
  <2>3. QED
    BY <1>5, <2>1, <2>2 DEF Checked
<1>6. CASE Rows
  <2>1. CASE Make("rows", IF task.filters = << >> THEN png_filter_dumb(task.header, task.source)
                          ELSE {Filtered(task.header, task.filters, task.source)})
    BY <2>1, MadeThen DEF MadeOf, Make
  <2>2. CASE Read("rows", LAMBDA m : png_unfilter(task.header, m))
    BY <2>2, ReadThen DEF Read, ReadOf
  <2>3. QED
    BY <1>6, <2>1, <2>2 DEF Rows
<1>7. CASE Number10
  <2>1. CASE Make("number", {task.text})
    BY <2>1, MadeThen DEF MadeOf, Make
  <2>2. CASE Read("number", LAMBDA m : parsenum(m, Past))
    BY <2>2, ReadThen DEF Read, ReadOf
  <2>3. QED
    BY <1>7, <2>1, <2>2 DEF Number10
<1>8. CASE Paths
  <2>1. CASE Make("path", {path_join(task.to, task.other)})
    BY <2>1, MadeThen DEF MadeOf, Make
  <2>2. CASE Read("path", LAMBDA m : {<<path_dirname(m), path_basename(m)>>})
    BY <2>2, ReadThen DEF Read, ReadOf
  <2>3. QED
    BY <1>8, <2>1, <2>2 DEF Paths
<1>9. CASE BitStream
  <2>1. CASE Make("bits", {Written(task.source, task.left)})
    BY <2>1, MadeThen DEF MadeOf, Make
  <2>2. CASE Read("bits", LAMBDA m : {ReadIn(m.bytes, task.reads)})
    BY <2>2, ReadThen DEF Read, ReadOf
  <2>3. QED
    BY <1>9, <2>1, <2>2 DEF BitStream
<1>10. CASE CodeTable
  <2>1. CASE Make("tables", {Lens(task.instrs)})
    BY <2>1, MadeThen DEF MadeOf, Make
  <2>2. CASE Read("tables", LAMBDA lens :
                    {r.syms : r \in Found(lens, dico(lens), task.bits,
                                         Len(task.source), task.short)})
    BY <2>2, ReadThen DEF Read, ReadOf
  <2>3. QED
    BY <1>10, <2>1, <2>2 DEF CodeTable
<1>11. CASE UNCHANGED vars
  <2>1. task' = task /\ pc' = pc /\ made' = made /\ back' = back
    BY <1>11 DEF vars
  <2>2. /\ task' \in Tasks
        /\ pc' \in {"made", "read"} => MadeOf(task', made')
        /\ pc' = "read" => ReadOf(task', made', back')
    BY <2>1 DEF IMade
  <2>3. QED
    BY <2>2 DEF IMade, MadeOf, ReadOf
<1>12. QED
  BY <1>1, <1>2, <1>3, <1>4, <1>5, <1>6, <1>7, <1>8, <1>9, <1>10, <1>11 DEF Next

\* What is made, by any of the codecs a standard is for, is what the standard says.
LEMMA MadeStandard == IMade => Standard
<1> SUFFICES ASSUME IMade, pc = "made"
             PROVE  CASE task.of = "base64" -> IsBase64(The(made), task.source)
                      [] task.of = "utf8" ->
                            \A k \in DOMAIN task.source :
                               LET val == task.source[k]
                                   bytes == utf8_encode(<<val>>)
                               IN LayoutOfUtf8(bytes, val) /\ (IsUtf8(bytes) <=> ScalarValue(val))
                      [] task.of = "crc" -> IsCrc32(The(made), task.source)
                      [] task.of = "adler" -> IsAdler32(The(made), task.source)
                      [] task.of = "vigenere" ->
                            \A k \in DOMAIN task.source :
                               The(made)[k] = RotAlpha(task.source[k], KeyAt(task.source, task.key, k))
                      [] OTHER -> TRUE
  BY DEF Standard
<1>1. Given(task) /\ MadeOf(task, made)
  BY TasksAssumption DEF IMade
<1>2. \A r : The({r}) = r
  BY DEF The
<1>3. CASE task.of = "base64"
  <2>1. task.source \in Seq(Octets) /\ task.source # << >>
    BY <1>1, <1>3, SMT DEF Given, Octets
  <2>2. The(made) = b64_encode(task.source)
    BY <1>1, <1>2, <1>3 DEF MadeOf
  <2>3. IsBase64(The(made), task.source)
    BY <2>1, <2>2, Base64Standard
  <2>4. QED
    BY <1>3, <2>3
<1>4. CASE task.of = "utf8"
  <2>1. PICK S : S = 0..HighestCodePoint
    OBVIOUS
  <2>2. task.source \in Seq(S)
    BY <1>1, <1>4, <2>1, SMT DEF Given
  <2>3. \A k \in DOMAIN task.source : task.source[k] \in S
    BY <2>2
  <2>4. \A k \in DOMAIN task.source :
           /\ LayoutOfUtf8(utf8_encode(<<task.source[k]>>), task.source[k])
           /\ IsUtf8(utf8_encode(<<task.source[k]>>)) <=> ScalarValue(task.source[k])
    BY <2>1, <2>3, CodePointsAre, Utf8Standard
  <2>5. QED
    BY <1>4, <2>4
<1>5. CASE task.of = "crc"
  <2>1. task.source \in Seq(Octets)
    BY <1>1, <1>5, SMT DEF Given, Octets
  <2>2. The(made) = crc32(task.source)
    BY <1>1, <1>2, <1>5 DEF MadeOf
  <2>3. IsCrc32(The(made), task.source)
    BY <2>1, <2>2, CrcStandard
  <2>4. QED
    BY <1>5, <2>3
<1>6. CASE task.of = "adler"
  <2>1. task.source \in Seq(Octets)
    BY <1>1, <1>6, SMT DEF Given, Octets
  <2>2. The(made) = adler32(task.source)
    BY <1>1, <1>2, <1>6 DEF MadeOf
  <2>3. IsAdler32(The(made), task.source)
    BY <2>1, <2>2, AdlerStandard
  <2>4. QED
    BY <1>6, <2>3
<1>7. CASE task.of = "vigenere"
  <2>1. task.source \in Seq(0..255) /\ task.key \in Seq(65..255) /\ task.key # << >>
    BY <1>1, <1>7, SMT DEF Given
  <2>2. The(made) \in vigenere_cipher(task.source, task.key)
    <3>1. made = vigenere_cipher(task.source, task.key)
      BY <1>1, <1>7 DEF MadeOf
    <3>2. \E r : r \in made
      BY <2>1, <3>1 DEF vigenere_cipher
    <3>3. QED
      BY <3>1, <3>2 DEF The
  <2>3. \A k \in DOMAIN task.source :
           The(made)[k] = RotAlpha(task.source[k], KeyAt(task.source, task.key, k))
    BY <2>1, <2>2, VigenereStandard
  <2>4. QED
    BY <1>7, <2>3
<1>8. QED
  BY <1>3, <1>4, <1>5, <1>6, <1>7

LEMMA StreamKept == IMade => BitsKept
<1> SUFFICES ASSUME IMade, task.of = "bits"
             PROVE  BitsKept
  BY DEF BitsKept
<1>1. Given(task) /\ (pc \in {"made", "read"} => made = {Written(task.source, task.left)})
  BY TasksAssumption DEF IMade, MadeOf
<1>2. PICK writes, left, sizes : writes = task.source /\ left = task.left /\ sizes = task.reads
  OBVIOUS
<1>3. writes \in Seq([n : Nat, value : Nat]) /\ sizes \in Seq(0..31) /\ left \in Nat
  BY <1>1, <1>2, SMT DEF Given
<1>4. PICK w : w = Written(writes, left)
  OBVIOUS
<1>5. MadeKept(w, writes) /\ w.bytes \in Seq(Octets)
  BY <1>3, <1>4, BitsMade, Zenon
<1>6. \A r : The({r}) = r
  BY DEF The
<1>7. pc \in {"made", "read"} => The(made) = w
  BY <1>1, <1>2, <1>4, <1>6
<1>8. ASSUME pc = "read"
      PROVE  /\ ReadKept(w.bytes, The(back), sizes)
             /\ The(made) = w
  <2>1. made = {w} /\ back = {ReadIn(x.bytes, sizes) : x \in made}
    BY <1>1, <1>2, <1>4, <1>8 DEF IMade, ReadOf
  <2>2. back = {ReadIn(w.bytes, sizes)}
    BY <2>1
  <2>3. PICK r : r = ReadIn(w.bytes, sizes)
    OBVIOUS
  <2>4. The(back) = r
    BY <1>6, <2>2, <2>3
  <2>5. ReadKept(w.bytes, r, sizes)
    BY <1>3, <1>5, <2>3, BitsRead, Zenon
  <2>6. QED
    BY <1>7, <1>8, <2>4, <2>5
<1>9. QED
  BY <1>2, <1>5, <1>7, <1>8 DEF BitsKept, MadeKept, ReadKept, Got

LEMMA MadeUndone == IMade => Undone
<1> SUFFICES ASSUME IMade, pc = "read",
                    task.of \in {"base64", "utf8", "rot", "vigenere", "rows", "number", "path", "tables"}
             PROVE  back = {IF task.of = "number" THEN [val |-> task.source, end |-> Len(task.text)]
                                                  ELSE task.source}
  BY DEF Undone
<1>1. Given(task) /\ MadeOf(task, made) /\ ReadOf(task, made, back)
  BY TasksAssumption DEF IMade
<1>2. CASE task.of = "base64"
  <2>1. task.source \in Seq(Octets) /\ task.source # << >>
    BY <1>1, <1>2, SMT DEF Given, Octets
  <2>2. PICK m : m = b64_encode(task.source)
    OBVIOUS
  <2>3. b64_decode(m) = {task.source}
    BY <2>1, <2>2, Base64Undone
  <2>4. made = {m} /\ back = UNION {b64_decode(x) : x \in made}
    BY <1>1, <1>2, <2>2 DEF MadeOf, ReadOf
  <2>5. QED
    BY <1>2, <2>3, <2>4
<1>3. CASE task.of = "utf8"
  <2>1. PICK S : S = 0..HighestCodePoint
    OBVIOUS
  <2>2. task.source \in Seq(S)
    BY <1>1, <1>3, <2>1, SMT DEF Given
  <2>3. task.source \in Seq(CodePoints)
    BY <2>1, <2>2, CodePointsAre, WiderSeq
  <2>4. PICK m : m = utf8_encode(task.source)
    OBVIOUS
  <2>5. utf8_decode(m) = {task.source}
    BY <2>3, <2>4, Utf8Undone
  <2>6. made = {m} /\ back = UNION {utf8_decode(x) : x \in made}
    BY <1>1, <1>3, <2>4 DEF MadeOf, ReadOf
  <2>7. QED
    BY <1>3, <2>5, <2>6
<1>4. CASE task.of = "rot"
  <2>1. PICK s, g, h : s = task.source /\ g = task.target /\ h = task.shift
    OBVIOUS
  <2>2. s \in Seq(0..255) /\ g \in {"ROT_ONLY_ALPHA", "ROT_ONLY_ASCIIPR", "ROT_ALL"} /\ h \in Shifts(g)
    BY <1>1, <1>4, <2>1, SMT DEF Given
  <2>3. PICK m : m = rot_cipher(s, h, g)
    OBVIOUS
  <2>4. rot_cipher(m, -h, g) = s
    BY <2>2, <2>3, RotUndone
  <2>5. made = {m} /\ back = UNION {{rot_cipher(x, -h, g)} : x \in made}
    BY <1>1, <1>4, <2>1, <2>3 DEF MadeOf, ReadOf
  <2>6. QED
    BY <1>4, <2>1, <2>4, <2>5
<1>5. CASE task.of = "vigenere"
  <2>1. PICK s, k : s = task.source /\ k = task.key
    OBVIOUS
  <2>2. s \in Seq(0..255) /\ k \in Seq(65..255) /\ k # << >>
    BY <1>1, <1>5, <2>1, SMT DEF Given
  <2>3. made = vigenere_cipher(s, k) /\ back = UNION {vigenere_cipher(x, Inverse26(k)) : x \in made}
    BY <1>1, <1>5, <2>1 DEF MadeOf, ReadOf
  <2>4. \E x : x \in made
    BY <2>2, <2>3 DEF vigenere_cipher
  <2>5. \A x \in made : vigenere_cipher(x, Inverse26(k)) = {s}
    BY <2>2, <2>3, VigenereUndone
  <2>6. back = {s}
    BY <2>3, <2>4, <2>5
  <2>7. QED
    BY <1>5, <2>1, <2>6
<1>6. CASE task.of = "rows"
  <2>1. PICK h, filters, x : h = task.header /\ filters = task.filters /\ x = task.source
    OBVIOUS
  <2>2. Unfilterable(h, filters, x)
    BY <1>1, <1>6, <2>1, SMT DEF Given
  <2>3. PICK m : RowsMade(h, filters, x) = {m} /\ png_unfilter(h, m) = {x}
    BY <2>2, RowsUndone
  <2>4. made = {m} /\ back = UNION {png_unfilter(h, y) : y \in made}
    BY <1>1, <1>6, <2>1, <2>3 DEF MadeOf, ReadOf, RowsMade
  <2>5. QED
    BY <1>6, <2>1, <2>3, <2>4
<1>7. CASE task.of = "number"
  <2>1. PICK text, n : text = task.text /\ n = task.source
    OBVIOUS
  <2>2. text \in Seq(Octets) /\ Spells(text, n)
    BY <1>1, <1>7, <2>1, SMT DEF Given, Octets
  <2>3. parsenum(text, Past) = {[val |-> n, end |-> Len(text)]}
    BY <2>2, NumberUndone
  <2>4. made = {text} /\ back = UNION {parsenum(x, Past) : x \in made}
    BY <1>1, <1>7, <2>1 DEF MadeOf, ReadOf
  <2>5. back = {[val |-> n, end |-> Len(text)]}
    BY <2>3, <2>4
  <2>6. QED
    BY <1>7, <2>1, <2>5
<1>8. CASE task.of = "path"
  <2>1. PICK dir, name : dir = task.source[1] /\ name = task.source[2]
    OBVIOUS
  <2>2. /\ task.source \in Seq(0..255) \X Seq(0..255)
        /\ Joinable(task.to, task.other, dir, name)
    BY <1>1, <1>8, <2>1, SMT DEF Given
  <2>3. PICK T : T = Seq(0..255)
    OBVIOUS
  <2>4. dir \in T /\ name \in T /\ task.source = <<dir, name>>
    BY <2>1, <2>2, <2>3
  <2>5. dir \in Seq(Octets) /\ name \in Seq(Octets)
    BY <2>3, <2>4 DEF Octets
  <2>6. PICK m : m = path_join(task.to, task.other)
    OBVIOUS
  <2>7. path_dirname(m) = dir /\ path_basename(m) = name
    BY <2>2, <2>5, <2>6, PathUndone
  <2>8. made = {m} /\ back = UNION {{<<path_dirname(x), path_basename(x)>>} : x \in made}
    BY <1>1, <1>8, <2>6 DEF MadeOf, ReadOf
  <2>9. back = {<<dir, name>>}
    BY <2>7, <2>8
  <2>10. QED
    BY <1>8, <2>4, <2>9
<1>9. CASE task.of = "tables"
  <2>1. PICK lens, source, bits, short :
           lens = Lens(task.instrs) /\ source = task.source /\ bits = task.bits /\ short = task.short
    OBVIOUS
  <2>2. Decodable(lens, source, bits, short)
    BY <1>1, <1>9, <2>1, SMT DEF Given
  <2>3. {r.syms : r \in Found(lens, dico(lens), bits, Len(source), short)} = {source}
    BY <2>2, TablesUndone
  <2>4. made = {lens} /\ back = UNION {{r.syms : r \in Found(x, dico(x), bits, Len(source), short)} : x \in made}
    BY <1>1, <1>9, <2>1 DEF MadeOf, ReadOf
  <2>5. back = {source}
    BY <2>3, <2>4
  <2>6. QED
    BY <1>9, <2>1, <2>5
<1>10. QED
  BY <1>2, <1>3, <1>4, <1>5, <1>6, <1>7, <1>8, <1>9

\* Whatever the tasks, what base64, UTF-8, crc32, adler32 and vigenere_cipher make is at every
\* moment what RFC 4648, RFC 3629, ISO 3309, RFC 1950 and the cipher say.
THEOREM CodecsStandard == Spec => []Standard
<1>1. Spec => []IMade
  BY MadeFirst, MadeNext, PTL DEF Spec
<1>2. QED
  BY <1>1, MadeStandard, PTL

\* Whatever is written, and however many allocations succeed, the writer's bytes are the bits it
\* was given, as far as it came; and pieces that each ask for more than is left of the last byte
\* are read one behind the other.
THEOREM StreamsKept == Spec => []BitsKept
<1>1. Spec => []IMade
  BY MadeFirst, MadeNext, PTL DEF Spec
<1>2. QED
  BY <1>1, StreamKept, PTL

\* Whatever the tasks, what was read back of what a codec made is what it was made of.
THEOREM CodecsUndone == Spec => []Undone
<1>1. Spec => []IMade
  BY MadeFirst, MadeNext, PTL DEF Spec
<1>2. QED
  BY <1>1, MadeUndone, PTL
=============================================================================
