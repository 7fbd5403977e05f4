---------------------------- MODULE InflateProofs ---------------------------
(***************************************************************************)
(* inflate of compressions.h, for every stream of blocks and symbols, cut  *)
(* anywhere.  Where a part of a stream lies and what the parts before it   *)
(* stand for are recursive functions: first what they are, by induction    *)
(* over the blocks and over the symbols of a block; then the invariant,    *)
(* that the reader is at such a place with such bytes; then every step.    *)
(***************************************************************************)
EXTENDS Inflate, OperatorProofs, SequenceTheorems

-----------------------------------------------------------------------------
(* The accumulator *)

LEMMA CeilIs ==
    ASSUME NEW x \in Nat
    PROVE  Ceil8(x) \in Nat /\ x <= 8 * Ceil8(x) /\ 8 * Ceil8(x) <= x + 7
BY DEF Ceil8

\* Taking x bits after having made sure of w: the reader at (at, has) is at d, x bits further, whole
\* bytes were loaded only if there were less than w bits, and then at most seven bits too many.
Taken(a, h, w, x, d) ==
    /\ d.at \in Nat /\ d.has \in Nat /\ a <= d.at /\ (h <= 8 * a => d.has <= 8 * d.at)
    /\ 8 * d.at - d.has = 8 * a - h + x
    /\ h >= w => d.at = a /\ d.has = h - x
    /\ h < w => d.has <= w + 7 - x

LEMMA TakenIs ==
    ASSUME NEW c, c.at \in Nat, c.has \in Nat, NEW w \in Nat, NEW x \in 0..w,
           NEW d, d = Drop(Acc(c, w), x)
    PROVE  Taken(c.at, c.has, w, x, d) /\ Acc(c, w).at = d.at
<1>1. PICK more : more = IF c.has < w THEN Ceil8(w - c.has) ELSE 0
  OBVIOUS
<1>2. more \in Nat /\ (c.has < w => w - c.has <= 8 * more /\ 8 * more <= w - c.has + 7)
  <2>1. CASE c.has < w
    <3>1. w - c.has \in Nat
      BY <2>1
    <3>2. QED
      BY <1>1, <2>1, <3>1, CeilIs
  <2>2. CASE ~(c.has < w)
    BY <1>1, <2>2
  <2>3. QED
    BY <2>1, <2>2
<1>3. Acc(c, w) = [at |-> c.at + more, has |-> c.has + 8 * more]
  BY <1>1 DEF Acc
<1>4. PICK a, h : a = c.at + more /\ h = c.has + 8 * more
  OBVIOUS
<1>5. d = [[at |-> a, has |-> h] EXCEPT !.has = @ - x]
  BY <1>3, <1>4 DEF Drop
<1>6. d.at = a /\ d.has = h - x /\ Acc(c, w).at = a
  BY <1>3, <1>4, <1>5
<1>7. d.at \in Nat /\ c.at <= d.at /\ 8 * d.at - d.has = 8 * c.at - c.has + x
  BY <1>2, <1>4, <1>6
<1>8. d.has \in Nat /\ (c.has < w => d.has <= w + 7 - x)
      /\ (c.has >= w => d.at = c.at /\ d.has = c.has - x)
  <2>1. CASE c.has < w
    BY <1>2, <1>4, <1>6, <2>1
  <2>2. CASE ~(c.has < w)
    <3>1. more = 0
      BY <1>1, <2>2
    <3>2. QED
      BY <1>4, <1>6, <2>2, <3>1
  <2>3. QED
    BY <2>1, <2>2
<1>9. c.has <= 8 * c.at => d.has <= 8 * d.at
  BY <1>2, <1>4, <1>6
<1>10. QED
  BY <1>6, <1>7, <1>8, <1>9 DEF Taken

-----------------------------------------------------------------------------
(* Where the parts of a stream are *)

LEMMA BitsIs ==
    ASSUME NEW s \in Symbols
    PROVE  /\ Bits(s) \in Nat \ {0} /\ s.code \in 1..15 /\ s.kind \in {"lit", "end", "copy"}
           /\ s.kind = "lit" => s.byte \in Nat
           /\ s.kind = "copy" => /\ s.extra \in Nat /\ s.dcode \in Nat /\ s.dextra \in Nat
                                 /\ s.len \in Nat /\ s.dist \in Nat \ {0}
<1>1. CASE s \in [kind : {"lit"}, byte : Nat, code : 1..15]
  BY <1>1 DEF Bits
<1>2. CASE s \in [kind : {"end"}, code : 1..15]
  BY <1>2 DEF Bits
<1>3. CASE s \in [kind : {"copy"}, len : 3..258, dist : Nat \ {0}, code : 1..15, extra : 0..5,
                  dcode : 1..15, dextra : 0..13]
  <2>1. /\ s.kind = "copy" /\ s.code \in 1..15 /\ s.extra \in 0..5 /\ s.dcode \in 1..15
        /\ s.dextra \in 0..13
    BY <1>3
  <2>2. Bits(s) \in Nat \ {0}
    BY <2>1 DEF Bits
  <2>3. s.len \in 3..258
    BY <1>3
  <2>4. s.dist \in Nat \ {0}
    BY <1>3
  <2>5. s.extra \in Nat /\ s.dcode \in Nat /\ s.dextra \in Nat
    BY <2>1
  <2>6. s.len \in Nat /\ s.dist \in Nat \ {0}
    BY <2>3, <2>4
  <2>7. s.kind = "copy" /\ s.kind # "lit"
    BY <2>1
  <2>8. QED
    BY <2>1, <2>2, <2>5, <2>6, <2>7
<1>4. QED
  BY <1>1, <1>2, <1>3 DEF Symbols

LEMMA BlockIs ==
    ASSUME NEW b \in Blocks
    PROVE  /\ b.kind \in {"stored", "coded", "fixed"} /\ b.final \in BOOLEAN
           /\ b.kind = "stored" => b.from \in Nat /\ b.len \in Nat
           /\ b.kind # "stored" => b.tables \in Nat /\ b.syms \in Seq(Symbols)
BY DEF Blocks

\* Each symbol ends where the one before does, and the bits of its parts further.
LEMMA SymEndsAre ==
    ASSUME NEW p \in Nat, NEW b, b.tables \in Nat, b.syms \in Seq(Symbols)
    PROVE  /\ SymEnds(p, b) \in [0..Len(b.syms) -> Nat]
           /\ SymEnds(p, b)[0] = p + 3 + b.tables
           /\ \A j \in 1..Len(b.syms) :
                SymEnds(p, b)[j] = SymEnds(p, b)[j - 1] + Bits(b.syms[j])
<1> DEFINE n == Len(b.syms)
           start == p + 3 + b.tables
           step == [x \in (1..n) \X Nat |-> x[2] + Bits(b.syms[x[1]])]
           Is(f) == f = [j \in 0..n |-> IF j = 0 THEN start ELSE f[j - 1] + Bits(b.syms[j])]
<1>1. n \in Nat /\ start \in Nat /\ \A j \in 1..n : Bits(b.syms[j]) \in Nat
  <2>1. \A j \in 1..n : b.syms[j] \in Symbols
    BY ElementOfSeq
  <2>2. QED
    BY <2>1, BitsIs, LenProperties
<1>2. step \in [(1..n) \X Nat -> Nat]
  BY <1>1
<1>3. \A j \in 1..n, y \in Nat : step[<<j, y>>] = y + Bits(b.syms[j])
  OBVIOUS
<1>4. SymEnds(p, b) = CHOOSE g : Is(g)
  BY DEF SymEnds
<1> HIDE DEF start, n, step
<1>5. \E f : Is(f)
  <2>1. PICK f \in [0..n -> Nat] : Follows(f, n, start, step)
    BY <1>1, <1>2, Recursion
  <2>2. f[0] = start /\ \A j \in 1..n : f[j] = step[<<j, f[j - 1]>>]
    BY <2>1 DEF Follows
  <2>3. \A j \in 1..n : j - 1 \in 0..n /\ j # 0
    BY <1>1
  <2>4. \A j \in 1..n : f[j] = f[j - 1] + Bits(b.syms[j])
    BY <1>3, <2>2, <2>3
  <2>5. \A j \in 0..n : f[j] = IF j = 0 THEN start ELSE f[j - 1] + Bits(b.syms[j])
    BY <1>1, <2>2, <2>4
  <2>6. QED
    BY <2>5
<1>6. PICK g : g = SymEnds(p, b) /\ Is(g)
  BY <1>4, <1>5
<1>7. Recurs(g, n, start, step, Nat)
  <2>1. g = [j \in 0..n |-> g[j]]
    BY <1>6
  <2>2. g[0] = start
    BY <1>1, <1>6
  <2>3. \A j \in 1..n : g[j] = g[j - 1] + Bits(b.syms[j])
    <3> TAKE j \in 1..n
    <3>1. j \in 0..n /\ j # 0
      BY <1>1
    <3>2. QED
      BY <1>6, <3>1
  <2>4. \A j \in 1..n : g[j - 1] \in Nat => g[j] = step[<<j, g[j - 1]>>]
    BY <1>3, <2>3
  <2> HIDE DEF Is
  <2>5. QED
    BY <2>1, <2>2, <2>4 DEF Recurs
<1>8. g \in [0..n -> Nat] /\ Follows(g, n, start, step)
  BY <1>1, <1>2, <1>7, RecursIs
<1>9. \A j \in 1..n : g[j] = g[j - 1] + Bits(b.syms[j])
  <2> TAKE j \in 1..n
  <2>1. j \in 0..n /\ j # 0
    BY <1>1
  <2>2. QED
    BY <1>6, <2>1
<1>10. g[0] = start
  BY <1>8 DEF Follows
<1> HIDE DEF Is
<1>11. QED
  BY <1>6, <1>8, <1>9, <1>10 DEF n, start

\* A block is not empty: its header has three bits, and the symbols lie before its end.
LEMMA BlockEndIs ==
    ASSUME NEW p \in Nat, NEW b \in Blocks
    PROVE  /\ BlockEnd(p, b) \in Nat /\ p + 3 <= BlockEnd(p, b)
           /\ b.kind # "stored" => /\ BlockEnd(p, b) = SymEnds(p, b)[Len(b.syms)]
                                   /\ p + 3 + b.tables <= BlockEnd(p, b)
                                   /\ \A j \in 0..Len(b.syms) : SymEnds(p, b)[j] <= BlockEnd(p, b)
<1>1. CASE b.kind = "stored"
  <2>1. PICK l, c : l = b.len /\ c = Ceil8(p + 3)
    OBVIOUS
  <2>2. l \in Nat /\ c \in Nat /\ p + 3 <= 8 * c
    <3>1. p + 3 \in Nat
      OBVIOUS
    <3>2. c \in Nat /\ p + 3 <= 8 * c
      BY <2>1, <3>1, CeilIs
    <3>3. QED
      BY <1>1, <2>1, <3>2, BlockIs
  <2>3. BlockEnd(p, b) = 8 * (c + 4 + l)
    BY <1>1, <2>1 DEF BlockEnd
  <2>4. QED
    BY <1>1, <2>2, <2>3
<1>2. CASE b.kind # "stored"
  <2>1. b.tables \in Nat /\ b.syms \in Seq(Symbols)
    BY <1>2, BlockIs
  <2>2. PICK f, n, t : f = SymEnds(p, b) /\ n = Len(b.syms) /\ t = b.tables
    OBVIOUS
  <2>3. n \in Nat /\ \A j \in 1..n : Bits(b.syms[j]) \in Nat
    <3>1. \A j \in 1..n : b.syms[j] \in Symbols
      BY <2>1, <2>2, ElementOfSeq
    <3>2. QED
      BY <2>1, <2>2, <3>1, BitsIs, LenProperties
  <2>4. /\ f \in [0..n -> Nat] /\ f[0] = p + 3 + t
        /\ \A j \in 1..n : f[j] = f[j - 1] + Bits(b.syms[j])
    BY <2>1, <2>2, SymEndsAre
  <2>5. \A j \in 1..n : f[j - 1] <= f[j]
    <3>1. \A j \in 1..n : j - 1 \in 0..n
      BY <2>3
    <3>2. QED
      BY <2>3, <2>4, <3>1
  <2>6. \A i, j \in 0..n : i <= j => f[i] <= f[j]
    BY <2>3, <2>4, <2>5, Monotone
  <2>7. \A j \in 0..n : f[j] <= f[n]
    BY <2>3, <2>6
  <2>8. f[n] \in Nat /\ p + 3 + t <= f[n]
    BY <2>3, <2>4, <2>7
  <2>9. BlockEnd(p, b) = f[n]
    BY <1>2, <2>2 DEF BlockEnd
  <2>10. t \in Nat
    BY <2>1, <2>2
  <2>11. p + 3 <= f[n]
    BY <2>8, <2>10
  <2>12. QED
    BY <2>2, <2>7, <2>8, <2>9, <2>11
<1>3. QED
  BY <1>1, <1>2

\* The blocks lie one after the other.
LEMMA EndsAre ==
    ASSUME NEW s \in Seq(Blocks)
    PROVE  /\ Ends(s) \in [0..Len(s) -> Nat] /\ Ends(s)[0] = 16
           /\ \A i \in 1..Len(s) : Ends(s)[i] = BlockEnd(Ends(s)[i - 1], s[i])
<1> DEFINE n == Len(s)
           step == [x \in (1..n) \X Nat |-> BlockEnd(x[2], s[x[1]])]
           Is(f) == f = [i \in 0..n |-> IF i = 0 THEN 16 ELSE BlockEnd(f[i - 1], s[i])]
<1>1. n \in Nat /\ \A i \in 1..n : s[i] \in Blocks
  BY ElementOfSeq, LenProperties
<1>2. step \in [(1..n) \X Nat -> Nat]
  BY <1>1, BlockEndIs
<1>3. \A i \in 1..n, y \in Nat : step[<<i, y>>] = BlockEnd(y, s[i])
  OBVIOUS
<1>4. Ends(s) = CHOOSE g : Is(g)
  BY DEF Ends
<1> HIDE DEF n, step
<1>5. \E f : Is(f)
  <2>1. PICK f \in [0..n -> Nat] : Follows(f, n, 16, step)
    BY <1>1, <1>2, Recursion
  <2>2. f[0] = 16 /\ \A i \in 1..n : f[i] = step[<<i, f[i - 1]>>]
    BY <2>1 DEF Follows
  <2>3. \A i \in 1..n : i - 1 \in 0..n /\ i # 0
    BY <1>1
  <2>4. \A i \in 1..n : f[i] = BlockEnd(f[i - 1], s[i])
    BY <1>3, <2>2, <2>3
  <2>5. \A i \in 0..n : f[i] = IF i = 0 THEN 16 ELSE BlockEnd(f[i - 1], s[i])
    BY <1>1, <2>2, <2>4
  <2>6. QED
    BY <2>5
<1>6. PICK g : g = Ends(s) /\ Is(g)
  BY <1>4, <1>5
<1>7. \A i \in 1..n : g[i] = BlockEnd(g[i - 1], s[i])
  BY <1>1, <1>6
<1>8. Recurs(g, n, 16, step, Nat)
  <2>1. g = [i \in 0..n |-> g[i]]
    BY <1>6
  <2>2. g[0] = 16
    BY <1>1, <1>6
  <2>3. \A i \in 1..n : g[i - 1] \in Nat => g[i] = step[<<i, g[i - 1]>>]
    BY <1>3, <1>7
  <2> HIDE DEF Is
  <2>4. QED
    BY <2>1, <2>2, <2>3 DEF Recurs
<1>9. g \in [0..n -> Nat] /\ Follows(g, n, 16, step)
  BY <1>1, <1>2, <1>8, RecursIs
<1>10. g[0] = 16
  BY <1>9 DEF Follows
<1> HIDE DEF Is
<1>11. QED
  BY <1>6, <1>7, <1>9, <1>10 DEF n

LEMMA EndOfIs ==
    ASSUME NEW s \in Seq(Blocks)
    PROVE  /\ \A i \in 0..Len(s) : EndOf(s, i) \in Nat
           /\ EndOf(s, 0) = 16
           /\ \A i \in 1..Len(s) : /\ EndOf(s, i) = BlockEnd(EndOf(s, i - 1), s[i])
                                    /\ EndOf(s, i - 1) + 3 <= EndOf(s, i)
           /\ \A i, j \in 0..Len(s) : i <= j => EndOf(s, i) <= EndOf(s, j)
           /\ \A i, j \in 0..Len(s) : EndOf(s, i) = EndOf(s, j) => i = j
<1>1. PICK f, n : f = Ends(s) /\ n = Len(s)
  OBVIOUS
<1>2. n \in Nat /\ \A i \in 1..n : s[i] \in Blocks /\ i - 1 \in 0..n
  BY <1>1, ElementOfSeq, LenProperties
<1>3. f \in [0..n -> Nat] /\ f[0] = 16 /\ \A i \in 1..n : f[i] = BlockEnd(f[i - 1], s[i])
  BY <1>1, EndsAre
<1>4. \A i \in 1..n : f[i - 1] \in Nat /\ f[i] \in Nat
  BY <1>2, <1>3
<1>5. \A i \in 1..n : f[i - 1] + 3 <= f[i]
  BY <1>2, <1>3, <1>4, BlockEndIs
<1>6. \A i \in 1..n : f[i - 1] <= f[i]
  BY <1>4, <1>5
<1>7. \A i, j \in 0..n : i <= j => f[i] <= f[j]
  BY <1>2, <1>3, <1>6, Monotone
<1>8. ASSUME NEW i \in 0..n, NEW j \in 0..n, i < j
      PROVE  f[i] < f[j]
  <2>1. j \in 1..n /\ j - 1 \in 0..n /\ i <= j - 1
    BY <1>2, <1>8
  <2>2. f[i] <= f[j - 1]
    BY <1>7, <2>1
  <2>3. f[j - 1] + 3 <= f[j] /\ f[j - 1] \in Nat /\ f[j] \in Nat /\ f[i] \in Nat
    BY <1>3, <1>4, <1>5, <2>1
  <2>4. QED
    BY <2>2, <2>3
<1>9. ASSUME NEW i \in 0..n, NEW j \in 0..n, f[i] = f[j]
      PROVE  i = j
  <2>1. f[i] \in Nat /\ f[j] \in Nat
    BY <1>3
  <2>2. ~(i < j) /\ ~(j < i)
    BY <1>8, <1>9, <2>1
  <2>3. QED
    BY <1>2, <2>2
<1>10. \A i \in 0..n : EndOf(s, i) = f[i]
  BY <1>1 DEF EndOf
<1>11. (\A i \in 0..n : EndOf(s, i) \in Nat) /\ EndOf(s, 0) = 16
  BY <1>2, <1>3, <1>10
<1>12. \A i \in 1..n : /\ EndOf(s, i) = BlockEnd(EndOf(s, i - 1), s[i])
                       /\ EndOf(s, i - 1) + 3 <= EndOf(s, i)
  <2>1. \A i \in 1..n : EndOf(s, i) = f[i] /\ EndOf(s, i - 1) = f[i - 1]
    BY <1>2, <1>10
  <2>2. QED
    BY <1>3, <1>5, <2>1
<1>13. \A i, j \in 0..n : i <= j => EndOf(s, i) <= EndOf(s, j)
  BY <1>7, <1>10
<1>14. \A i, j \in 0..n : EndOf(s, i) = EndOf(s, j) => i = j
  BY <1>9, <1>10
<1>15. QED
  BY <1>1, <1>11, <1>12, <1>13, <1>14

\* There is room for the checksum after the last block.
LEMMA WholeIs ==
    ASSUME NEW s \in Seq(Blocks)
    PROVE  /\ Trailer(s) \in Nat /\ Whole(s) = Trailer(s) + 4
           /\ \A i \in 0..Len(s) : EndOf(s, i) <= 8 * Trailer(s)
<1>1. PICK e, n : e = EndOf(s, Len(s)) /\ n = Len(s)
  OBVIOUS
<1>2. n \in Nat /\ n \in 0..n
  BY <1>1, LenProperties
<1>3. e \in Nat /\ \A i \in 0..n : EndOf(s, i) \in Nat /\ EndOf(s, i) <= e
  BY <1>1, <1>2, EndOfIs
<1>4. Trailer(s) \in Nat /\ e <= 8 * Trailer(s)
  BY <1>1, <1>3, CeilIs DEF Trailer
<1>5. \A i \in 0..n : EndOf(s, i) <= 8 * Trailer(s)
  BY <1>3, <1>4
<1>6. QED
  BY <1>1, <1>4, <1>5 DEF Whole

-----------------------------------------------------------------------------
(* What a stream stands for *)

\* Each symbol adds to what the ones before it made.
LEMMA OutputsAre ==
    ASSUME NEW o, NEW syms, Len(syms) \in Nat
    PROVE  /\ Outputs(o, syms)[0] = o
           /\ \A j \in 1..Len(syms) : Outputs(o, syms)[j] = Made(Outputs(o, syms)[j - 1], syms[j])
<1> DEFINE Upto(m) == \E f : f = [j \in 0..m |-> IF j = 0 THEN o ELSE Made(f[j - 1], syms[j])]
           S == {m \in 0..Len(syms) : Upto(m)}
<1>1. 0 \in S
  <2> DEFINE f == [j \in 0..0 |-> o]
  <2>1. f = [j \in 0..0 |-> IF j = 0 THEN o ELSE Made(f[j - 1], syms[j])]
    OBVIOUS
  <2>2. Upto(0)
    BY <2>1
  <2>3. QED
    BY <2>2
<1>2. ASSUME NEW m \in 1..Len(syms), m - 1 \in S
      PROVE  m \in S
  <2>1. PICK f : f = [j \in 0..(m - 1) |-> IF j = 0 THEN o ELSE Made(f[j - 1], syms[j])]
    BY <1>2
  <2> DEFINE g == [j \in 0..m |-> IF j = m THEN Made(f[m - 1], syms[m]) ELSE f[j]]
  <2>2. ASSUME NEW j \in 0..m
        PROVE  g[j] = IF j = 0 THEN o ELSE Made(g[j - 1], syms[j])
    <3>1. CASE j = m
      <4>1. g[m] = Made(f[m - 1], syms[m]) /\ g[m - 1] = f[m - 1]
        OBVIOUS
      <4> HIDE DEF g
      <4>2. QED
        BY <3>1, <4>1
    <3>2. CASE j # m
      <4>1. g[j] = f[j] /\ (j # 0 => g[j - 1] = f[j - 1]) /\ j \in 0..(m - 1)
        BY <3>2
      <4> HIDE DEF g
      <4>2. QED
        BY <2>1, <4>1
    <3>3. QED
      BY <3>1, <3>2
  <2>3. g = [j \in 0..m |-> g[j]]
    OBVIOUS
  <2> HIDE DEF g
  <2>4. g = [j \in 0..m |-> IF j = 0 THEN o ELSE Made(g[j - 1], syms[j])]
    BY <2>2, <2>3
  <2>5. QED
    BY <2>4
<1> HIDE DEF S
<1>3. \A m \in 0..Len(syms) : m \in S
  BY <1>1, <1>2, InductUpTo
<1>4. Upto(Len(syms))
  BY <1>3 DEF S
<1>5. PICK g : /\ g = Outputs(o, syms)
               /\ g = [j \in 0..Len(syms) |-> IF j = 0 THEN o ELSE Made(g[j - 1], syms[j])]
  BY <1>4 DEF Outputs
<1>6. g[0] = o /\ \A j \in 1..Len(syms) : g[j] = Made(g[j - 1], syms[j])
  BY <1>5
<1>7. QED
  BY <1>5, <1>6

\* Each block adds to what the ones before it stand for.
LEMMA ExpansionsAre ==
    ASSUME NEW s, Len(s) \in Nat
    PROVE  /\ Expansions(s)[0] = << >>
           /\ \A i \in 1..Len(s) : Expansions(s)[i] = Unpacked(Expansions(s)[i - 1], s[i])
<1> DEFINE Upto(m) == \E f : f = [i \in 0..m |-> IF i = 0 THEN << >> ELSE Unpacked(f[i - 1], s[i])]
           S == {m \in 0..Len(s) : Upto(m)}
<1>1. 0 \in S
  <2> DEFINE f == [i \in 0..0 |-> << >>]
  <2>1. f = [i \in 0..0 |-> IF i = 0 THEN << >> ELSE Unpacked(f[i - 1], s[i])]
    OBVIOUS
  <2>2. Upto(0)
    BY <2>1
  <2>3. QED
    BY <2>2
<1>2. ASSUME NEW m \in 1..Len(s), m - 1 \in S
      PROVE  m \in S
  <2>1. PICK f : f = [i \in 0..(m - 1) |-> IF i = 0 THEN << >> ELSE Unpacked(f[i - 1], s[i])]
    BY <1>2
  <2> DEFINE g == [i \in 0..m |-> IF i = m THEN Unpacked(f[m - 1], s[m]) ELSE f[i]]
  <2>2. ASSUME NEW i \in 0..m
        PROVE  g[i] = IF i = 0 THEN << >> ELSE Unpacked(g[i - 1], s[i])
    <3>1. CASE i = m
      <4>1. g[m] = Unpacked(f[m - 1], s[m]) /\ g[m - 1] = f[m - 1]
        OBVIOUS
      <4> HIDE DEF g
      <4>2. QED
        BY <3>1, <4>1
    <3>2. CASE i # m
      <4>1. g[i] = f[i] /\ (i # 0 => g[i - 1] = f[i - 1]) /\ i \in 0..(m - 1)
        BY <3>2
      <4> HIDE DEF g
      <4>2. QED
        BY <2>1, <4>1
    <3>3. QED
      BY <3>1, <3>2
  <2>3. g = [i \in 0..m |-> g[i]]
    OBVIOUS
  <2> HIDE DEF g
  <2>4. g = [i \in 0..m |-> IF i = 0 THEN << >> ELSE Unpacked(g[i - 1], s[i])]
    BY <2>2, <2>3
  <2>5. Upto(m)
    BY <2>4
  <2> HIDE DEF Upto
  <2>6. QED
    BY <2>5
<1> HIDE DEF S
<1>3. \A m \in 0..Len(s) : m \in S
  BY <1>1, <1>2, InductUpTo
<1>4. Upto(Len(s))
  BY <1>3 DEF S
<1>5. PICK g : /\ g = Expansions(s)
               /\ g = [i \in 0..Len(s) |-> IF i = 0 THEN << >> ELSE Unpacked(g[i - 1], s[i])]
  BY <1>4 DEF Expansions
<1>6. g[0] = << >> /\ \A i \in 1..Len(s) : g[i] = Unpacked(g[i - 1], s[i])
  BY <1>5
<1>7. QED
  BY <1>5, <1>6

-----------------------------------------------------------------------------
(* A copy that overlaps what it makes *)

LEMMA RepeatedIs ==
    ASSUME NEW o \in Seq(Nat), NEW len \in Nat, NEW dist \in 1..Len(o)
    PROVE  /\ Repeated(o, len, dist) \in Seq(Nat) /\ Len(Repeated(o, len, dist)) = Len(o) + len
           /\ \A k \in 1..(Len(o) + len) : Repeated(o, len, dist)[k] =
                IF k <= Len(o) THEN o[k] ELSE o[Len(o) - dist + 1 + ((k - Len(o) - 1) % dist)]
<1>1. PICK n, t : n = Len(o) /\ t = [i \in 1..len |-> o[n - dist + 1 + ((i - 1) % dist)]]
  OBVIOUS
<1>2. n \in Nat /\ dist \in Nat \ {0} /\ dist <= n
  BY <1>1, LenProperties
<1>3. ASSUME NEW i \in 1..len
      PROVE  o[n - dist + 1 + ((i - 1) % dist)] \in Nat
  <2>1. PICK x : x = (i - 1) % dist
    OBVIOUS
  <2>2. x \in 0..(dist - 1)
    BY <1>2, <2>1, ModIs, i - 1 \in Nat
  <2>3. n - dist + 1 + x \in 1..n
    BY <1>2, <2>2
  <2>4. QED
    BY <1>1, <2>1, <2>3, ElementOfSeq
<1>4. t \in Seq(Nat) /\ Len(t) = len
  BY <1>1, <1>3
<1>5. Repeated(o, len, dist) = o \o t
  BY <1>1 DEF Repeated
<1>6. /\ o \o t \in Seq(Nat) /\ Len(o \o t) = n + len
      /\ \A k \in 1..(n + len) : (o \o t)[k] = IF k <= n THEN o[k] ELSE t[k - n]
  BY <1>1, <1>4, ConcatProperties
<1>7. \A k \in 1..(n + len) : ~(k <= n) => k - n \in 1..len
  BY <1>2
<1>8. \A i \in 1..len : t[i] = o[n - dist + 1 + ((i - 1) % dist)]
  BY <1>1
<1>9. \A k \in 1..(n + len) :
        ~(k <= n) => t[k - n] = o[n - dist + 1 + ((k - n - 1) % dist)]
  BY <1>7, <1>8
<1>10. QED
  BY <1>1, <1>5, <1>6, <1>9

\* One byte more is the byte dist before it, also where that byte was itself copied.
LEMMA RepeatedNext ==
    ASSUME NEW o \in Seq(Nat), NEW h \in Nat \ {0}, NEW dist \in 1..Len(o)
    PROVE  Repeated(o, h, dist)
             = Append(Repeated(o, h - 1, dist), Repeated(o, h - 1, dist)[Len(o) - dist + h])
<1>1. PICK n, x, y : n = Len(o) /\ x = Repeated(o, h - 1, dist) /\ y = Repeated(o, h, dist)
  OBVIOUS
<1>2. n \in Nat /\ dist \in Nat \ {0} /\ dist <= n /\ h - 1 \in Nat
  BY <1>1, LenProperties
<1>3. /\ x \in Seq(Nat) /\ Len(x) = n + h - 1
      /\ \A k \in 1..(n + (h - 1)) :
            x[k] = IF k <= n THEN o[k] ELSE o[n - dist + 1 + ((k - n - 1) % dist)]
  <2>1. Len(x) = n + (h - 1)
    BY <1>1, <1>2, RepeatedIs
  <2>2. QED
    BY <1>1, <1>2, <2>1, RepeatedIs
<1>4. /\ y \in Seq(Nat) /\ Len(y) = n + h
      /\ \A k \in 1..(n + h) :
            y[k] = IF k <= n THEN o[k] ELSE o[n - dist + 1 + ((k - n - 1) % dist)]
  <2>1. h \in Nat
    OBVIOUS
  <2>2. /\ Repeated(o, h, dist) \in Seq(Nat) /\ Len(Repeated(o, h, dist)) = Len(o) + h
        /\ \A k \in 1..(Len(o) + h) : Repeated(o, h, dist)[k] =
              IF k <= Len(o) THEN o[k] ELSE o[Len(o) - dist + 1 + ((k - Len(o) - 1) % dist)]
    BY <2>1, RepeatedIs, Zenon
  <2>3. QED
    BY <1>1, <2>2, Zenon
<1>5. PICK e : e = x[n - dist + h]
  OBVIOUS
<1>6. n - dist + h \in 1..(n + (h - 1))
  BY <1>2
<1>7. e \in Nat
  BY <1>2, <1>3, <1>5, <1>6, ElementOfSeq
<1>8. y[n + h] = e
  <2>1. y[n + h] = o[n - dist + 1 + ((h - 1) % dist)]
    <3>1. n + h \in 1..(n + h) /\ ~(n + h <= n) /\ (n + h) - n - 1 = h - 1
      BY <1>2
    <3>2. QED
      BY <1>4, <3>1
  <2>2. CASE h <= dist
    <3>0. h - 1 \in Nat /\ h - 1 < dist /\ n - dist + h <= n
      BY <1>2, <2>2
    <3>1. n - dist + h <= n /\ (h - 1) % dist = h - 1
      BY <1>2, <3>0, ModIs
    <3>2. e = o[n - dist + h]
      BY <1>3, <1>5, <1>6, <3>1
    <3>3. n - dist + 1 + (h - 1) = n - dist + h
      BY <1>2
    <3>4. QED
      BY <2>1, <3>1, <3>2, <3>3
  <2>3. CASE h > dist
    <3>1. /\ ~(n - dist + h <= n) /\ (n - dist + h) - n - 1 = (h - 1) - dist
          /\ h - 1 >= dist
      BY <1>2, <2>3
    <3>2. e = o[n - dist + 1 + (((h - 1) - dist) % dist)]
      BY <1>3, <1>5, <1>6, <3>1
    <3>3. ((h - 1) - dist) % dist = (h - 1) % dist
      BY <1>2, <3>1, ModDown
    <3>4. QED
      BY <2>1, <3>2, <3>3
  <2>4. QED
    BY <1>2, <2>2, <2>3
<1>9. /\ Append(x, e) \in Seq(Nat) /\ Len(Append(x, e)) = n + h
      /\ \A k \in 1..(n + (h - 1)) : Append(x, e)[k] = x[k]
      /\ Append(x, e)[n + h] = e
  <2>1. (n + h - 1) + 1 = n + h /\ n + h - 1 = n + (h - 1)
    BY <1>2
  <2>2. QED
    BY <1>3, <1>7, <2>1, AppendProperties
<1>10. \A k \in 1..(n + h) : y[k] = Append(x, e)[k]
  <2>1. ASSUME NEW k \in 1..(n + h), k # n + h
        PROVE  y[k] = Append(x, e)[k]
    <3>1. k \in 1..(n + (h - 1))
      BY <1>2, <2>1
    <3>2. QED
      BY <1>3, <1>4, <1>9, <3>1
  <2>2. QED
    BY <1>8, <1>9, <2>1
<1>11. y = Append(x, e)
  BY <1>4, <1>9, <1>10, SeqEqual
<1>12. QED
  BY <1>1, <1>5, <1>11

\* So the byte by byte loop of inflate repeats the last dist bytes.
LEMMA CopiedIsRepeated ==
    ASSUME NEW o \in Seq(Nat), NEW len \in Nat, NEW dist \in 1..Len(o)
    PROVE  Copied(o, len, dist) = Repeated(o, len, dist)
<1> DEFINE Is(f) == f = [h \in 0..len |-> IF h = 0 THEN o
                                ELSE Append(f[h - 1], f[h - 1][Len(o) - dist + h])]
           g == [h \in 0..len |-> Repeated(o, h, dist)]
<1>1. g[0] = o
  <2>1. 0 \in 0..len /\ Len(o) \in Nat /\ Len(o) + 0 = Len(o)
    BY LenProperties
  <2>0. PICK z \in Nat : z = 0
    OBVIOUS
  <2>2. PICK x : x = Repeated(o, z, dist)
    OBVIOUS
  <2>3. /\ x \in Seq(Nat) /\ Len(x) = Len(o) + z
        /\ \A k \in 1..(Len(o) + z) : x[k] =
                IF k <= Len(o) THEN o[k] ELSE o[Len(o) - dist + 1 + ((k - Len(o) - 1) % dist)]
    BY <2>2, RepeatedIs
  <2>4. \A k \in 1..Len(o) : x[k] = o[k]
    BY <2>0, <2>1, <2>3
  <2>5. x = o
    BY <2>0, <2>1, <2>3, <2>4, SeqEqual
  <2>6. QED
    BY <2>0, <2>1, <2>2, <2>5
<1>2. ASSUME NEW h \in 1..len
      PROVE  g[h] = Append(g[h - 1], g[h - 1][Len(o) - dist + h])
  <2>1. g[h] = Repeated(o, h, dist) /\ g[h - 1] = Repeated(o, h - 1, dist)
    OBVIOUS
  <2> HIDE DEF g
  <2>2. h \in Nat \ {0}
    OBVIOUS
  <2>3. Repeated(o, h, dist)
          = Append(Repeated(o, h - 1, dist), Repeated(o, h - 1, dist)[Len(o) - dist + h])
    BY <2>2, RepeatedNext
  <2>4. QED
    BY <2>1, <2>3
<1>3. g = [h \in 0..len |-> g[h]]
  OBVIOUS
<1>4. \A h \in 0..len : g[h] = Repeated(o, h, dist)
  OBVIOUS
<1> HIDE DEF g
<1>5. Is(g)
  <2>1. ASSUME NEW h \in 0..len
        PROVE  g[h] = IF h = 0 THEN o ELSE Append(g[h - 1], g[h - 1][Len(o) - dist + h])
    <3>1. CASE h = 0
      BY <1>1, <3>1
    <3>2. CASE h # 0
      <4>1. h \in 1..len
        BY <3>2
      <4>2. g[h] = Append(g[h - 1], g[h - 1][Len(o) - dist + h])
        BY <1>2, <4>1
      <4>3. QED
        BY <3>2, <4>2
    <3>3. QED
      BY <3>1, <3>2
  <2>2. QED
    BY <1>3, <2>1
<1>6. PICK f : Is(f) /\ Copied(o, len, dist) = f[len]
  <2>1. Copied(o, len, dist) = (CHOOSE f : Is(f))[len]
    BY DEF Copied
  <2> HIDE DEF Is
  <2>2. QED
    BY <1>5, <2>1
<1>7. f[0] = o
  BY <1>6
<1>8. ASSUME NEW h \in 1..len
      PROVE  f[h] = Append(f[h - 1], f[h - 1][Len(o) - dist + h])
  <2>1. h \in 0..len /\ h # 0
    OBVIOUS
  <2>2. QED
    BY <1>6, <2>1
<1> HIDE DEF Is
<1> DEFINE S == {h \in 0..len : f[h] = g[h]}
<1>9. 0 \in S
  BY <1>1, <1>7
<1>10. ASSUME NEW h \in 1..len, h - 1 \in S
      PROVE  h \in S
  <2>1. f[h - 1] = g[h - 1]
    BY <1>10
  <2>2. f[h] = g[h]
    BY <1>2, <1>8, <2>1
  <2>3. QED
    BY <2>2
<1> HIDE DEF S
<1>11. \A h \in 0..len : h \in S
  BY <1>9, <1>10, InductUpTo
<1>12. len \in S
  BY <1>11
<1>13. f[len] = g[len]
  BY <1>12 DEF S
<1>14. QED
  BY <1>4, <1>6, <1>13

-----------------------------------------------------------------------------
(* What a well formed stream stands for is a sequence *)

LEMMA MadeIs ==
    ASSUME NEW x
    PROVE  \A o : /\ x.kind = "lit" => Made(o, x) = Append(o, x.byte)
                  /\ x.kind = "copy" => Made(o, x) = Repeated(o, x.len, x.dist)
                  /\ x.kind = "end" => Made(o, x) = o
BY DEF Made

LEMMA MadeIsSeq ==
    ASSUME NEW x \in Symbols, NEW o \in Seq(Nat), x.kind = "copy" => x.dist <= Len(o)
    PROVE  Made(o, x) \in Seq(Nat)
<1>1. CASE x.kind = "lit"
  <2>1. x.byte \in Nat
    BY <1>1, BitsIs
  <2>2. Append(o, x.byte) \in Seq(Nat)
    BY <2>1, AppendProperties
  <2>3. QED
    BY <1>1, <2>2, MadeIs
<1>2. CASE x.kind = "copy"
  <2>1. x.len \in Nat /\ x.dist \in Nat \ {0}
    BY <1>2, BitsIs
  <2>2. Len(o) \in Nat
    BY LenProperties
  <2>3. x.dist \in 1..Len(o)
    BY <1>2, <2>1, <2>2
  <2>4. Repeated(o, x.len, x.dist) \in Seq(Nat)
    BY <2>1, <2>3, RepeatedIs
  <2>5. QED
    BY <1>2, <2>4, MadeIs
<1>3. CASE x.kind = "end"
  BY <1>3, MadeIs
<1>4. QED
  BY <1>1, <1>2, <1>3, BitsIs

LEMMA OutputsAreSeq ==
    ASSUME NEW o \in Seq(Nat), NEW syms \in Seq(Symbols),
           \A j \in 1..Len(syms) :
                syms[j].kind = "copy" => syms[j].dist <= Len(Outputs(o, syms)[j - 1])
    PROVE  \A j \in 0..Len(syms) : Outputs(o, syms)[j] \in Seq(Nat)
<1>1. PICK f, n : f = Outputs(o, syms) /\ n = Len(syms)
  OBVIOUS
<1>2. n \in Nat /\ \A j \in 1..n : syms[j] \in Symbols
  BY <1>1, ElementOfSeq, LenProperties
<1>3. f[0] = o /\ \A j \in 1..n : f[j] = Made(f[j - 1], syms[j])
  BY <1>1, <1>2, OutputsAre
<1>4. \A j \in 1..n : syms[j].kind = "copy" => syms[j].dist <= Len(f[j - 1])
  BY <1>1
<1> DEFINE S == {j \in 0..n : f[j] \in Seq(Nat)}
<1>5. 0 \in S
  BY <1>2, <1>3
<1>6. ASSUME NEW j \in 1..n, j - 1 \in S
      PROVE  j \in S
  <2>1. f[j - 1] \in Seq(Nat)
    BY <1>6
  <2>2. Made(f[j - 1], syms[j]) \in Seq(Nat)
    BY <1>2, <1>4, <2>1, MadeIsSeq
  <2>3. f[j] \in Seq(Nat)
    BY <1>3, <2>2
  <2>4. QED
    BY <1>2, <2>3
<1> HIDE DEF S
<1>7. \A j \in 0..n : j \in S
  BY <1>2, <1>5, <1>6, InductUpTo
<1>8. \A j \in 0..n : f[j] \in Seq(Nat)
  BY <1>7 DEF S
<1>9. QED
  BY <1>1, <1>8

LEMMA DataIs ==
    ASSUME NEW b, b.from \in Nat, b.len \in Nat
    PROVE  /\ Data(b) \in Seq(Nat) /\ Len(Data(b)) = b.len
           /\ \A i \in 1..b.len : Data(b)[i] = b.from + i - 1
<1>1. PICK from, len \in Nat : from = b.from /\ len = b.len
  OBVIOUS
<1>2. Data(b) = [i \in 1..len |-> from + i - 1]
  BY <1>1 DEF Data
<1>3. \A i \in 1..len : from + i - 1 \in Nat
  OBVIOUS
<1>4. [i \in 1..len |-> from + i - 1] \in Seq(Nat)
  BY <1>3
<1>5. QED
  BY <1>1, <1>2, <1>4

\* The conditions of WellFormed, block by block.
LEMMA WellFormedIs ==
    ASSUME NEW s, WellFormed(s)
    PROVE  /\ s \in Seq(Blocks) /\ Len(s) \in Nat
           /\ \A i \in 1..Len(s) : s[i] \in Blocks /\ (s[i].final => i = Len(s))
           /\ \A i \in 1..Len(s) : s[i].kind # "stored" =>
                /\ s[i].syms \in Seq(Symbols) /\ s[i].tables \in Nat /\ Len(s[i].syms) \in Nat \ {0}
                /\ \A j \in 1..Len(s[i].syms) :
                    /\ s[i].syms[j] \in Symbols
                    /\ s[i].syms[j].kind = "end" <=> j = Len(s[i].syms)
                    /\ s[i].syms[j].kind = "copy" =>
                        s[i].syms[j].dist <= Len(Outputs(Expansions(s)[i - 1], s[i].syms)[j - 1])
<1>1. s \in Seq(Blocks)
  BY DEF WellFormed
<1>2. Len(s) \in Nat /\ DOMAIN s = 1..Len(s) /\ \A i \in 1..Len(s) : s[i] \in Blocks
  BY <1>1, ElementOfSeq, LenProperties
<1>3. \A i \in 1..Len(s) : s[i].final => i = Len(s)
  BY <1>2 DEF WellFormed
<1>4. ASSUME NEW i \in 1..Len(s), s[i].kind # "stored"
      PROVE  /\ s[i].syms \in Seq(Symbols) /\ s[i].tables \in Nat /\ Len(s[i].syms) \in Nat \ {0}
             /\ \A j \in 1..Len(s[i].syms) :
                 /\ s[i].syms[j] \in Symbols
                 /\ s[i].syms[j].kind = "end" <=> j = Len(s[i].syms)
                 /\ s[i].syms[j].kind = "copy" =>
                     s[i].syms[j].dist <= Len(Outputs(Expansions(s)[i - 1], s[i].syms)[j - 1])
  <2>1. PICK u : u = s[i].syms
    OBVIOUS
  <2>2. u \in Seq(Symbols) /\ s[i].tables \in Nat
    BY <1>2, <1>4, <2>1, BlockIs
  <2>3. Len(u) \in Nat /\ DOMAIN u = 1..Len(u) /\ \A j \in 1..Len(u) : u[j] \in Symbols
    BY <2>2, ElementOfSeq, LenProperties
  <2>4. /\ u # << >>
        /\ \A j \in DOMAIN u :
            /\ u[j].kind = "end" <=> j = Len(u)
            /\ u[j].kind = "copy" => u[j].dist <= Len(Outputs(Expansions(s)[i - 1], u)[j - 1])
    BY <1>2, <1>4, <2>1 DEF WellFormed
  <2>5. Len(u) # 0
    BY <2>2, <2>4, EmptySeq
  <2>6. QED
    BY <2>1, <2>2, <2>3, <2>4, <2>5
<1>5. QED
  BY <1>1, <1>2, <1>3, <1>4

LEMMA ExpansionsAreSeq ==
    ASSUME NEW s, WellFormed(s)
    PROVE  /\ \A i \in 0..Len(s) : Expansions(s)[i] \in Seq(Nat)
           /\ \A i \in 1..Len(s) : s[i].kind # "stored" =>
                \A j \in 0..Len(s[i].syms) :
                    Outputs(Expansions(s)[i - 1], s[i].syms)[j] \in Seq(Nat)
<1>1. PICK f, n : f = Expansions(s) /\ n = Len(s)
  OBVIOUS
<1>2. n \in Nat /\ \A i \in 1..n : s[i] \in Blocks
  BY <1>1, WellFormedIs
<1>3. \A x : x = << >> => x \in Seq(Nat)
  BY EmptySeq
<1>4. f[0] = << >> /\ \A i \in 1..n : f[i] = Unpacked(f[i - 1], s[i])
  BY <1>1, <1>2, ExpansionsAre
<1>5. ASSUME NEW i \in 1..n, f[i - 1] \in Seq(Nat), s[i].kind # "stored"
      PROVE  \A j \in 0..Len(s[i].syms) : Outputs(f[i - 1], s[i].syms)[j] \in Seq(Nat)
  <2>1. PICK u : u = s[i].syms
    OBVIOUS
  <2>2. /\ u \in Seq(Symbols)
        /\ \A j \in 1..Len(u) : u[j].kind = "copy" => u[j].dist <= Len(Outputs(f[i - 1], u)[j - 1])
    BY <1>1, <1>5, <2>1, WellFormedIs
  <2>3. \A j \in 0..Len(u) : Outputs(f[i - 1], u)[j] \in Seq(Nat)
    BY <1>5, <2>2, OutputsAreSeq
  <2>4. QED
    BY <2>1, <2>3
<1> DEFINE S == {i \in 0..n : f[i] \in Seq(Nat)}
<1>6. 0 \in S
  BY <1>2, <1>3, <1>4
<1>7. ASSUME NEW i \in 1..n, i - 1 \in S
      PROVE  i \in S
  <2>1. f[i - 1] \in Seq(Nat)
    BY <1>7
  <2>2. CASE s[i].kind = "stored"
    <3>1. Data(s[i]) \in Seq(Nat)
      BY <1>2, <2>2, BlockIs, DataIs
    <3>2. f[i - 1] \o Data(s[i]) \in Seq(Nat)
      BY <2>1, <3>1, ConcatProperties
    <3>3. f[i] = f[i - 1] \o Data(s[i])
      BY <1>4, <2>2 DEF Unpacked
    <3>4. i \in 0..n
      BY <1>2
    <3>5. QED
      BY <3>2, <3>3, <3>4
  <2>3. CASE s[i].kind # "stored"
    <3>1. Len(s[i].syms) \in 0..Len(s[i].syms)
      <4>1. Len(s[i].syms) \in Nat
        BY <1>1, <2>3, WellFormedIs
      <4>2. QED
        BY <4>1
    <3>2. Outputs(f[i - 1], s[i].syms)[Len(s[i].syms)] \in Seq(Nat)
      BY <1>5, <2>1, <2>3, <3>1
    <3>3. f[i] = Outputs(f[i - 1], s[i].syms)[Len(s[i].syms)]
      BY <1>4, <2>3 DEF Unpacked
    <3>4. i \in 0..n
      BY <1>2
    <3>5. QED
      BY <3>2, <3>3, <3>4
  <2>4. QED
    BY <2>2, <2>3
<1> HIDE DEF S
<1>8. \A i \in 0..n : i \in S
  BY <1>2, <1>6, <1>7, InductUpTo
<1>9. \A i \in 0..n : f[i] \in Seq(Nat)
  BY <1>8 DEF S
<1>10. \A i \in 1..n : i - 1 \in 0..n
  BY <1>2
<1>11. QED
  BY <1>1, <1>5, <1>9, <1>10

-----------------------------------------------------------------------------
(* The inductive invariant *)

\* The bit of the stream that the reader is at.
Position == 8 * at - has

\* At the end of block cur: where the block ends, with the bytes up to there.
AtBoundary ==
    /\ Position = EndOf(stream, cur) /\ r = Expansions(stream)[cur]
    /\ cur = 0 \/ stream[cur].kind = "stored" => has = 0

\* Between two symbols of block cur: where they meet, with the bytes up to there.
InSymbols ==
    LET p == EndOf(stream, cur - 1)
        b == stream[cur]
    IN /\ sym \in 1..Len(b.syms)
       /\ Position = SymEnds(p, b)[sym - 1]
       /\ r = Outputs(Expansions(stream)[cur - 1], b.syms)[sym - 1]

\* After the header of block cur.
InHeader ==
    /\ Position = EndOf(stream, cur - 1) + 3 /\ r = Expansions(stream)[cur - 1]
    /\ cur = 1 \/ stream[cur - 1].kind = "stored" => has < 8

\* Where the reader is in the stream, and what it has made of it so far.
Placed ==
    /\ pc = "header" => at = 0 /\ has = 0 /\ cur = 0 /\ r = << >>
    /\ pc = "block" => AtBoundary /\ (cur # 0 => ~stream[cur].final)
    /\ pc \in {"stored", "coded", "fixed"} => cur # 0 /\ pc = stream[cur].kind
    /\ pc = "stored" => InHeader
    /\ pc = "coded" /\ sym = 0 => InHeader
    /\ pc = "coded" /\ sym # 0 => InSymbols
    /\ pc = "trailer" => AtBoundary /\ cur # 0 /\ stream[cur].final
    /\ pc = "done" => cur # 0

\* The stream does not change.
Given == WellFormed(stream) /\ cut \in 0..Whole(stream) /\ xnfo \in BOOLEAN

\* ReadableIsRead, for every stream with a final block.
Followed == Complete(stream) => ReadableIsRead

IInv == Given /\ TypeOK /\ Placed /\ DecodesExactly /\ TrailerFound /\ Followed

-----------------------------------------------------------------------------
(* The blocks and the symbols of a well formed stream *)

LEMMA BlockFacts ==
    ASSUME NEW s, WellFormed(s), NEW i \in 1..Len(s)
    PROVE  /\ s[i] \in Blocks /\ (s[i].final => i = Len(s))
           /\ EndOf(s, i - 1) \in Nat /\ EndOf(s, i) \in Nat
           /\ EndOf(s, i) = BlockEnd(EndOf(s, i - 1), s[i])
           /\ EndOf(s, i - 1) + 3 <= EndOf(s, i) /\ EndOf(s, i) <= 8 * Trailer(s)
           /\ Expansions(s)[i] = Unpacked(Expansions(s)[i - 1], s[i])
<1>1. PICK n : n = Len(s)
  OBVIOUS
<1>2. n \in Nat /\ s \in Seq(Blocks) /\ s[i] \in Blocks /\ (s[i].final => i = n)
  BY <1>1, WellFormedIs
<1>3. i \in 0..n /\ i - 1 \in 0..n /\ i \in 1..n
  BY <1>1, <1>2
<1>4. EndOf(s, i - 1) \in Nat /\ EndOf(s, i) \in Nat
  BY <1>1, <1>2, <1>3, EndOfIs
<1>5. EndOf(s, i) = BlockEnd(EndOf(s, i - 1), s[i]) /\ EndOf(s, i - 1) + 3 <= EndOf(s, i)
  BY <1>1, <1>2, <1>3, EndOfIs
<1>6. EndOf(s, i) <= 8 * Trailer(s)
  BY <1>1, <1>2, <1>3, WholeIs
<1>7. Expansions(s)[i] = Unpacked(Expansions(s)[i - 1], s[i])
  BY <1>1, <1>2, <1>3, ExpansionsAre
<1>8. QED
  BY <1>1, <1>2, <1>4, <1>5, <1>6, <1>7

\* What is known of symbol j of block i of s, where ends and outs are those of the block.
SymbolIs(s, i, j, ends, outs, x) ==
    /\ x \in Symbols /\ ends[j - 1] \in Nat /\ outs[j - 1] \in Seq(Nat)
    /\ ends[j] = ends[j - 1] + Bits(x) /\ ends[j] <= EndOf(s, i)
    /\ outs[j] = Made(outs[j - 1], x)
    /\ x.kind = "copy" => x.dist \in 1..Len(outs[j - 1])
    /\ x.kind = "end" <=> j = Len(s[i].syms)
    /\ x.kind = "end" => ends[j] = EndOf(s, i) /\ outs[j] = Expansions(s)[i]

LEMMA SymbolFacts ==
    ASSUME NEW s, WellFormed(s), NEW i \in 1..Len(s), s[i].kind # "stored",
           NEW j \in 1..Len(s[i].syms),
           NEW ends, ends = SymEnds(EndOf(s, i - 1), s[i]),
           NEW outs, outs = Outputs(Expansions(s)[i - 1], s[i].syms),
           NEW x, x = s[i].syms[j]
    PROVE  SymbolIs(s, i, j, ends, outs, x)
<1>1. PICK p, o, n : p = EndOf(s, i - 1) /\ o = Expansions(s)[i - 1] /\ n = Len(s[i].syms)
  OBVIOUS
<1>2. /\ s[i] \in Blocks /\ p \in Nat /\ EndOf(s, i) = BlockEnd(p, s[i])
      /\ Expansions(s)[i] = Unpacked(o, s[i])
  BY <1>1, BlockFacts
<1>3. /\ s[i].syms \in Seq(Symbols) /\ s[i].tables \in Nat /\ n \in Nat \ {0}
      /\ x \in Symbols /\ (x.kind = "end" <=> j = n)
      /\ x.kind = "copy" => x.dist <= Len(outs[j - 1])
  BY <1>1, WellFormedIs
<1>4. j \in 1..n /\ j \in 0..n /\ j - 1 \in 0..n
  BY <1>1, <1>3
<1>5. /\ ends \in [0..n -> Nat] /\ ends[j] = ends[j - 1] + Bits(x)
  BY <1>1, <1>2, <1>3, <1>4, SymEndsAre
<1>6. ends[j] <= EndOf(s, i) /\ ends[n] = EndOf(s, i)
  BY <1>1, <1>2, <1>3, <1>4, BlockEndIs
<1>7. outs[j] = Made(outs[j - 1], x)
  BY <1>1, <1>3, <1>4, OutputsAre
<1>8. outs[j - 1] \in Seq(Nat)
  BY <1>1, <1>4, ExpansionsAreSeq
<1>9. x.kind = "copy" => x.dist \in 1..Len(outs[j - 1])
  <2>1. Len(outs[j - 1]) \in Nat
    BY <1>8, LenProperties
  <2>2. x.kind = "copy" => x.dist \in Nat \ {0}
    BY <1>3, BitsIs
  <2>3. QED
    BY <1>3, <2>1, <2>2
<1>10. Expansions(s)[i] = outs[n]
  BY <1>1, <1>2 DEF Unpacked
<1>11. ends[j - 1] \in Nat
  BY <1>4, <1>5
<1>12. x.kind = "end" => ends[j] = EndOf(s, i) /\ outs[j] = Expansions(s)[i]
  BY <1>3, <1>6, <1>10
<1>13. QED
  BY <1>1, <1>3, <1>5, <1>6, <1>7, <1>8, <1>9, <1>11, <1>12 DEF SymbolIs

\* The reader of a whole stream that has taken no more than the blocks, and holds less than three
\* bytes ahead of that, is inside it: the checksum after the last block is the room to look ahead.
LEMMA EnoughWhole ==
    ASSUME IInv, cut = 0, NEW c, c.at \in Nat, c.has \in 0..23,
           8 * c.at - c.has <= 8 * Trailer(stream)
    PROVE  Enough(c)
<1>1. PICK a, h, t : a = c.at /\ h = c.has /\ t = Trailer(stream)
  OBVIOUS
<1>2. stream \in Seq(Blocks)
  BY WellFormedIs DEF IInv, Given
<1>3. t \in Nat /\ Whole(stream) = t + 4
  BY <1>1, <1>2, WholeIs
<1>4. a <= t + 4
  BY <1>1, <1>3
<1>5. QED
  BY <1>1, <1>3, <1>4 DEF Enough

-----------------------------------------------------------------------------
(* Every step keeps the invariant *)

\* The reader at the beginning of a well formed stream.
Starts ==
    /\ Given
    /\ pc = "header" /\ at = 0 /\ has = 0 /\ cur = 0 /\ sym = 0 /\ r = << >> /\ last_at = 0

LEMMA StartsIInv == Starts => IInv
<1> SUFFICES ASSUME Starts
             PROVE  IInv
  OBVIOUS
<1>1. WellFormed(stream) /\ cut \in 0..Whole(stream) /\ xnfo \in BOOLEAN
  BY DEF Starts, Given
<1>2. stream \in Seq(Blocks) /\ Len(stream) \in Nat
  BY <1>1, WellFormedIs
<1>3. Whole(stream) \in Nat
  BY <1>2, WholeIs
<1>4. TypeOK
  BY <1>1, <1>2, <1>3 DEF Starts, TypeOK
<1>5. Placed
  BY DEF Starts, Placed
<1>6. DecodesExactly /\ TrailerFound /\ Followed
  BY DEF Starts, DecodesExactly, TrailerFound, Followed, ReadableIsRead
<1>7. QED
  BY <1>4, <1>5, <1>6 DEF Starts, IInv

\* The same of the next state.
LEMMA StartsNext == Starts' => IInv'
BY StartsIInv, PTL

LEMMA InitIInv == Init => IInv
<1>1. Init => Starts
  BY StreamsAssumption DEF Init, Starts, Given
<1>2. QED
  BY <1>1, StartsIInv

\* A step that goes on reading.
LEMMA GoesOn ==
    ASSUME IInv, UNCHANGED source, TypeOK', Placed', pc' \notin {"done", "exitf", "lost"}
    PROVE  IInv'
<1>1. Given'
  BY DEF IInv, Given, source
<1>2. DecodesExactly' /\ TrailerFound' /\ Followed'
  BY DEF DecodesExactly, TrailerFound, Followed, ReadableIsRead
<1>3. QED
  BY <1>1, <1>2 DEF IInv

\* A step that gives up, where a complete readable stream would not.
LEMMA GivesUp ==
    ASSUME IInv, NEW how \in {"exitf", "OOM", "lost"}, Fails(how),
           Complete(stream) /\ Readable(stream) /\ cut = 0 /\ ~Refused => how = "OOM"
    PROVE  IInv'
<1>1. /\ UNCHANGED <<stream, cut, xnfo, header, at, has, cur, sym, last_at>> /\ pc' = how
  BY DEF Fails, source
<1>2. Given'
  BY <1>1 DEF IInv, Given
<1>3. TypeOK'
  BY <1>1 DEF IInv, TypeOK
<1>4. Placed'
  BY <1>1 DEF Placed
<1>5. DecodesExactly' /\ TrailerFound'
  BY <1>1 DEF DecodesExactly, TrailerFound
<1>6. Followed'
  BY <1>1 DEF Followed, ReadableIsRead, Refused
<1>7. QED
  BY <1>2, <1>3, <1>4, <1>5, <1>6 DEF IInv

\* The types, where the reader has moved on to c.
LEMMA TypesFollow ==
    ASSUME IInv, UNCHANGED <<source, last_at>>, NEW c, Moves(c), Enough(c),
           c.at \in Nat, c.has \in 0..20, c.has <= 8 * c.at, at <= c.at,
           pc' \in {"block", "stored", "coded", "fixed", "trailer"},
           cur' \in 0..Len(stream), sym' \in Nat
    PROVE  TypeOK'
<1>1. PICK m, a, h : m = Whole(stream) - cut /\ a = c.at /\ h = c.has
  OBVIOUS
<1>2. /\ at' = a /\ has' = h /\ a <= m /\ a \in Nat /\ h \in 0..20 /\ h <= 8 * a
      /\ at <= a /\ last_at \in 0..at /\ at \in 0..m /\ stream' = stream /\ cut' = cut
      /\ last_at' = last_at
  BY <1>1 DEF Moves, Enough, IInv, TypeOK, source
<1>3. m \in Int
  <2>1. stream \in Seq(Blocks)
    BY WellFormedIs DEF IInv, Given
  <2>2. Whole(stream) \in Nat /\ cut \in Nat
    BY <2>1, WholeIs DEF IInv, Given
  <2>3. QED
    BY <1>1, <2>2
<1>4. a \in 0..m /\ last_at \in 0..a
  BY <1>2, <1>3
<1>5. QED
  BY <1>1, <1>2, <1>4 DEF TypeOK

LEMMA HeaderIInv == IInv /\ Header => IInv'
<1> SUFFICES ASSUME IInv, Header
             PROVE  IInv'
  OBVIOUS
<1>1. WellFormed(stream) /\ stream \in Seq(Blocks) /\ Len(stream) \in Nat
  BY WellFormedIs DEF IInv, Given
<1>2. PICK c : c = [at |-> 2]
  OBVIOUS
<1>3. EndOf(stream, 0) = 16 /\ Expansions(stream)[0] = << >>
  BY <1>1, EndOfIs, ExpansionsAre
<1>4. at = 0 /\ has = 0 /\ cur = 0 /\ r = << >> /\ last_at = 0
  BY DEF Header, IInv, Placed, TypeOK
<1>5. CASE /\ Enough(c) /\ ~Refused /\ at' = 2 /\ pc' = "block"
           /\ UNCHANGED <<source, has, cur, sym, r, last_at>>
  <2>1. PICK m : m = Whole(stream) - cut
    OBVIOUS
  <2>2. 2 <= m
    BY <1>2, <1>5, <2>1 DEF Enough
  <2>3. Whole(stream) \in Nat /\ cut \in Nat
    BY <1>1, WholeIs DEF IInv, Given
  <2>4. m \in Int /\ 2 \in 0..m
    BY <2>1, <2>2, <2>3
  <2>5. m' = m /\ Len(stream') \in Nat /\ stream' = stream /\ cut' = cut
    BY <1>1, <1>5 DEF source
  <2>6. TypeOK'
    BY <1>1, <1>4, <1>5, <2>1, <2>4, <2>5 DEF IInv, TypeOK
  <2>7. AtBoundary'
    BY <1>3, <1>4, <1>5, <2>5 DEF AtBoundary, Position
  <2>8. Placed'
    BY <1>4, <1>5, <2>7 DEF Placed
  <2>9. QED
    BY <1>5, <2>6, <2>8, GoesOn
<1>6. CASE (~Enough(c) \/ Refused) /\ Fails("exitf")
  <2>1. Trailer(stream) \in Nat /\ Whole(stream) = Trailer(stream) + 4
    BY <1>1, WholeIs
  <2>2. cut = 0 => Enough(c)
    BY <1>2, <2>1 DEF Enough
  <2>3. QED
    BY <1>6, <2>2, GivesUp
<1>7. QED
  BY <1>2, <1>5, <1>6 DEF Header

LEMMA FixedCodesIInv == IInv /\ FixedCodes => IInv'
<1> SUFFICES ASSUME IInv, FixedCodes
             PROVE  IInv'
  OBVIOUS
<1>1. cur \in 1..Len(stream) /\ stream[cur].kind = "fixed"
  BY DEF IInv, Placed, TypeOK, FixedCodes
<1>2. DOMAIN stream = 1..Len(stream)
  <2>1. stream \in Seq(Blocks)
    BY WellFormedIs DEF IInv, Given
  <2>2. QED
    BY <2>1, LenProperties
<1>3. ~Readable(stream)
  BY <1>1, <1>2 DEF Readable
<1>4. Fails("exitf")
  BY DEF FixedCodes
<1>5. QED
  BY <1>3, <1>4, GivesUp

LEMMA CursorIs ==
    ASSUME IInv
    PROVE  /\ Cursor.at = at /\ Cursor.has = has /\ at \in Nat /\ has \in 0..20 /\ has <= 8 * at
           /\ Position \in Nat
<1>1. Cursor.at = at /\ Cursor.has = has
  BY DEF Cursor
<1>2. at \in Nat /\ has \in 0..20 /\ has <= 8 * at
  BY DEF IInv, TypeOK
<1>3. Position \in Nat
  BY <1>2 DEF Position
<1>4. QED
  BY <1>1, <1>2, <1>3

\* TakenIs, from where the reader is.
LEMMA TakenFromCursor ==
    ASSUME IInv, NEW w \in Nat, NEW x \in 0..w, NEW d, d = Drop(Acc(Cursor, w), x)
    PROVE  Taken(at, has, w, x, d) /\ Acc(Cursor, w).at = d.at /\ d.has <= 8 * d.at
<1>1. PICK k : k = Cursor
  OBVIOUS
<1>2. k.at = at /\ k.has = has /\ at \in Nat /\ has \in 0..20 /\ has <= 8 * at
  BY <1>1, CursorIs
<1>3. k.at \in Nat /\ k.has \in Nat /\ d = Drop(Acc(k, w), x)
  BY <1>1, <1>2
<1>4. Taken(k.at, k.has, w, x, d) /\ Acc(k, w).at = d.at
  BY <1>3, TakenIs
<1>5. d.has <= 8 * d.at
  BY <1>2, <1>4 DEF Taken
<1>6. QED
  BY <1>1, <1>2, <1>4, <1>5

LEMMA BlockHeaderIInv == IInv /\ BlockHeader => IInv'
<1> SUFFICES ASSUME IInv, BlockHeader
             PROVE  IInv'
  OBVIOUS
<1> DEFINE here == {i \in 1..Len(stream) : EndOf(stream, i - 1) = 8 * at - has}
<1>1. /\ WellFormed(stream) /\ stream \in Seq(Blocks) /\ Len(stream) \in Nat
      /\ cur \in 0..Len(stream) /\ Trailer(stream) \in Nat
  BY WellFormedIs, WholeIs DEF IInv, Given, TypeOK
<1>2. /\ 8 * at - has = EndOf(stream, cur) /\ r = Expansions(stream)[cur]
      /\ cur = 0 \/ stream[cur].kind = "stored" => has = 0
      /\ cur # 0 => ~stream[cur].final
  BY DEF BlockHeader, IInv, Placed, AtBoundary, Position
<1>3. PICK c, d : c = Acc(Cursor, 3) /\ d = Drop(c, 3)
  OBVIOUS
<1>4. /\ d.at \in Nat /\ d.has \in 0..20 /\ at <= d.at /\ d.at = c.at
      /\ 8 * d.at - d.has = 8 * at - has + 3 /\ d.has <= 8 * d.at
      /\ has = 0 => d.has < 8
  <2>1. has \in 0..20
    BY CursorIs
  <2>2. Taken(at, has, 3, 3, d) /\ c.at = d.at /\ d.has <= 8 * d.at
    BY <1>3, TakenFromCursor
  <2>3. QED
    BY <2>1, <2>2 DEF Taken
<1>5. \A i \in here : i = cur + 1
  <2>1. ASSUME NEW i \in here
        PROVE  i = cur + 1
    <3>1. i \in 1..Len(stream) /\ EndOf(stream, i - 1) = EndOf(stream, cur)
      BY <1>2
    <3>2. i - 1 \in 0..Len(stream)
      BY <1>1, <3>1
    <3>3. i - 1 = cur
      BY <1>1, <3>1, <3>2, EndOfIs
    <3>4. QED
      BY <1>1, <3>1, <3>3
  <2>2. QED
    BY <2>1
<1>6. Complete(stream) => /\ cur + 1 \in here
                          /\ 8 * d.at - d.has <= 8 * Trailer(stream)
  <2>1. SUFFICES ASSUME Complete(stream)
                 PROVE  cur + 1 \in here /\ 8 * d.at - d.has <= 8 * Trailer(stream)
    OBVIOUS
  <2>2. Len(stream) # 0 /\ stream[Len(stream)].final
    BY <1>1, <2>1, EmptySeq DEF Complete
  <2>3. cur # Len(stream)
    BY <1>1, <1>2, <2>2
  <2>4. PICK i : i = cur + 1
    OBVIOUS
  <2>5. i \in 1..Len(stream) /\ i - 1 = cur
    BY <1>1, <2>3, <2>4
  <2>6. /\ EndOf(stream, cur) + 3 <= EndOf(stream, i) /\ EndOf(stream, i) <= 8 * Trailer(stream)
        /\ EndOf(stream, cur) \in Nat /\ EndOf(stream, i) \in Nat
    BY <1>1, <2>5, BlockFacts
  <2>7. 8 * d.at - d.has <= 8 * Trailer(stream)
    BY <1>1, <1>2, <1>4, <2>6
  <2>8. i \in here
    BY <1>2, <2>5
  <2>9. QED
    BY <2>4, <2>7, <2>8
<1>7. Complete(stream) /\ cut = 0 => Enough(c)
  <2>1. SUFFICES ASSUME Complete(stream), cut = 0
                 PROVE  Enough(c)
    OBVIOUS
  <2>2. d.has \in 0..23
    BY <1>4
  <2>3. Enough(d)
    BY <1>4, <1>6, <2>1, <2>2, EnoughWhole
  <2>4. QED
    BY <1>4, <2>3 DEF Enough
<1>8. CASE ~Enough(c) /\ Fails("exitf")
  BY <1>7, <1>8, GivesUp
<1>9. CASE here = {} /\ Fails("lost")
  BY <1>6, <1>9, GivesUp
<1>10. ASSUME Enough(c), NEW i \in here, cur' = i, pc' = stream[i].kind, Moves(d), sym' = 0,
              UNCHANGED <<source, r, last_at>>
       PROVE  IInv'
  <2>1. i = cur + 1 /\ i \in 1..Len(stream) /\ i - 1 = cur
    BY <1>1, <1>5
  <2>2. /\ stream[i].kind \in {"stored", "coded", "fixed"} /\ EndOf(stream, i - 1) \in Nat
    BY <1>1, <2>1, BlockFacts, BlockIs
  <2>3. Enough(d)
    BY <1>4, <1>10 DEF Enough
  <2>4. cur' \in 0..Len(stream) /\ sym' \in Nat
    BY <1>1, <1>10, <2>1
  <2>5. TypeOK'
    BY <1>4, <1>10, <2>2, <2>3, <2>4, TypesFollow
  <2>6. stream' = stream /\ at' = d.at /\ has' = d.has /\ r' = r
    BY <1>10 DEF source, Moves
  <2>7. InHeader'
    <3>1. Position' = EndOf(stream, i - 1) + 3
      BY <1>2, <1>4, <2>1, <2>6 DEF Position
    <3>2. r' = Expansions(stream)[i - 1]
      BY <1>2, <2>1, <2>6
    <3>3. i = 1 \/ stream[i - 1].kind = "stored" => has' < 8
      BY <1>1, <1>2, <1>4, <2>1, <2>6
    <3>4. QED
      BY <1>10, <2>6, <3>1, <3>2, <3>3 DEF InHeader
  <2>8. Placed'
    BY <1>10, <2>1, <2>2, <2>6, <2>7 DEF Placed
  <2>9. pc' \notin {"done", "exitf", "lost"}
    BY <1>10, <2>2
  <2>10. QED
    BY <1>10, <2>5, <2>8, <2>9, GoesOn
<1>11. \/ ~Enough(c) /\ Fails("exitf")
       \/ Enough(c) /\ here = {} /\ Fails("lost")
       \/ /\ Enough(c)
          /\ \E i \in here : cur' = i /\ pc' = stream[i].kind
          /\ Moves(d) /\ sym' = 0
          /\ UNCHANGED <<source, r, last_at>>
  BY <1>3 DEF BlockHeader
<1> HIDE DEF here
<1>12. QED
  BY <1>8, <1>9, <1>10, <1>11

LEMMA CeilUnique ==
    ASSUME NEW x \in Nat, NEW a \in Nat, 8 * a - x \in 0..7
    PROVE  Ceil8(x) = a
BY DEF Ceil8

\* The block is done: the reader is where it ends.
LEMMA BlockEnds ==
    ASSUME IInv, cur \in 1..Len(stream), BlockDone, UNCHANGED <<source, cur, last_at>>,
           NEW c, Moves(c), Enough(c), c.at \in Nat, c.has \in 0..20, at <= c.at,
           8 * c.at - c.has = EndOf(stream, cur), r' = Expansions(stream)[cur],
           stream[cur].kind = "stored" => c.has = 0, sym' \in Nat
    PROVE  IInv'
<1>1. /\ WellFormed(stream) /\ stream[cur].final \in BOOLEAN /\ EndOf(stream, cur) \in Nat
  BY BlockFacts, BlockIs DEF IInv, Given
<1>2. /\ stream' = stream /\ cur' = cur /\ at' = c.at /\ has' = c.has
  BY DEF source, Moves
<1>3. pc' = IF stream[cur].final THEN "trailer" ELSE "block"
  BY DEF BlockDone
<1>4. AtBoundary'
  <2>1. Position' = EndOf(stream, cur)
    BY <1>2 DEF Position
  <2>2. QED
    BY <1>2, <2>1 DEF AtBoundary
<1>5. Placed'
  BY <1>2, <1>3, <1>4 DEF Placed
<1>6. c.has <= 8 * c.at
  <2>1. PICK a, h, e : a = c.at /\ h = c.has /\ e = EndOf(stream, cur)
    OBVIOUS
  <2>2. 8 * a - h = e /\ a \in Nat /\ h \in 0..20 /\ e \in Nat
    BY <1>1, <2>1
  <2>3. h <= 8 * a
    BY <2>2
  <2>4. QED
    BY <2>1, <2>3
<1>7. pc' \in {"block", "trailer"}
  BY <1>3
<1>8. TypeOK'
  <2>1. cur' \in 0..Len(stream)
    BY <1>2
  <2>2. UNCHANGED <<source, last_at>>
    OBVIOUS
  <2>3. QED
    BY <1>6, <1>7, <2>1, <2>2, TypesFollow
<1>9. QED
  BY <1>5, <1>7, <1>8, GoesOn

LEMMA StoredBlockIInv == IInv /\ StoredBlock => IInv'
<1> SUFFICES ASSUME IInv, StoredBlock
             PROVE  IInv'
  OBVIOUS
<1>1. /\ WellFormed(stream) /\ stream \in Seq(Blocks) /\ Len(stream) \in Nat
      /\ cur \in 1..Len(stream) /\ stream[cur].kind = "stored"
  BY WellFormedIs DEF IInv, Given, TypeOK, Placed, StoredBlock
<1>2. PICK p, len, a : p = EndOf(stream, cur - 1) /\ len = stream[cur].len /\ a = Ceil8(p + 3)
  OBVIOUS
<1>3. /\ 8 * at - has = p + 3 /\ r = Expansions(stream)[cur - 1]
      /\ cur = 1 \/ stream[cur - 1].kind = "stored" => has < 8
  BY <1>2 DEF StoredBlock, IInv, Placed, InHeader, Position
<1>4. p \in Nat /\ len \in Nat /\ a \in Nat /\ at \in Nat /\ has \in 0..20
  <2>1. p \in Nat /\ stream[cur] \in Blocks
    BY <1>1, <1>2, BlockFacts
  <2>2. len \in Nat
    BY <1>1, <1>2, <2>1, BlockIs
  <2>3. p + 3 \in Nat
    BY <2>1
  <2>4. a \in Nat
    BY <1>2, <2>3, CeilIs
  <2>5. QED
    BY <2>1, <2>2, <2>4, CursorIs
<1>5. EndOf(stream, cur) = 8 * (a + 4 + len) /\ EndOf(stream, cur) <= 8 * Trailer(stream)
  BY <1>1, <1>2, BlockFacts DEF BlockEnd
<1>6. Expansions(stream)[cur] = r \o Data(stream[cur])
  BY <1>1, <1>3, BlockFacts DEF Unpacked
<1>7. Readable(stream) => at = a
  <2>1. DOMAIN stream = 1..Len(stream)
    BY <1>1, LenProperties
  <2>2. Readable(stream) => has < 8
    BY <1>1, <1>3, <2>1 DEF Readable
  <2>3. has < 8 => at = a
    <3>1. SUFFICES ASSUME has < 8 PROVE at = a
      OBVIOUS
    <3>2. PICK x : x = p + 3
      OBVIOUS
    <3>3. x \in Nat /\ 8 * at - x \in 0..7
      BY <1>3, <1>4, <3>1, <3>2
    <3>4. QED
      BY <1>2, <1>4, <3>2, <3>3, CeilUnique
  <2>4. QED
    BY <2>2, <2>3
<1>8. PICK c : c = [at |-> at + 4 + len, has |-> 0]
  OBVIOUS
<1>9. c.at = at + 4 + len /\ c.has = 0 /\ c.at \in Nat /\ at <= c.at
  BY <1>4, <1>8
<1>10. Readable(stream) /\ cut = 0 => Enough(c)
  <2>1. SUFFICES ASSUME Readable(stream), cut = 0
                 PROVE  Enough(c)
    OBVIOUS
  <2>2. c.has \in 0..23 /\ 8 * c.at - c.has <= 8 * Trailer(stream)
    BY <1>4, <1>5, <1>7, <1>9, <2>1
  <2>3. QED
    BY <1>9, <2>1, <2>2, EnoughWhole
<1>11. Enough([at |-> at + 4 + len]) <=> Enough(c)
  BY <1>9 DEF Enough
<1>12. CASE at # a /\ Fails("lost")
  BY <1>7, <1>12, GivesUp
<1>13. CASE ~Enough(c) /\ Fails("exitf")
  BY <1>10, <1>13, GivesUp
<1>14. CASE Enough(c) /\ Fails("OOM")
  BY <1>14, GivesUp
<1>15. CASE /\ at = a /\ Enough(c)
            /\ has' = has - (has % 8)
            /\ at' = at + 4 + len
            /\ r' = r \o Data(stream[cur])
            /\ BlockDone
            /\ UNCHANGED <<source, cur, sym, last_at>>
  <2>1. has < 8
    <3>1. p + 3 \in Nat
      BY <1>4
    <3>2. 8 * a <= (p + 3) + 7
      BY <1>2, <3>1, CeilIs
    <3>3. QED
      BY <1>3, <1>4, <1>15, <3>2
  <2>2. has % 8 = has
    BY <1>4, <2>1
  <2>3. has' = 0
    BY <1>4, <1>15, <2>2
  <2>4. Moves(c)
    BY <1>9, <1>15, <2>3 DEF Moves
  <2>5. 8 * c.at - c.has = EndOf(stream, cur)
    BY <1>4, <1>5, <1>9, <1>15
  <2>6. sym' \in Nat
    BY <1>15 DEF IInv, TypeOK
  <2>7. c.has \in 0..20
    BY <1>9
  <2>8. r' = Expansions(stream)[cur]
    BY <1>6, <1>15
  <2>9. UNCHANGED <<source, cur, last_at>>
    BY <1>15
  <2>10. QED
    BY <1>1, <1>9, <1>15, <2>4, <2>5, <2>6, <2>7, <2>8, <2>9, BlockEnds
<1>16. QED
  BY <1>2, <1>11, <1>12, <1>13, <1>14, <1>15 DEF StoredBlock

LEMMA CodeTablesIInv == IInv /\ CodeTables => IInv'
<1> SUFFICES ASSUME IInv, CodeTables
             PROVE  IInv'
  OBVIOUS
<1>1. /\ WellFormed(stream) /\ cur \in 1..Len(stream) /\ stream[cur].kind = "coded"
  BY WellFormedIs DEF IInv, Given, TypeOK, Placed, CodeTables
<1>2. PICK p, t, n : /\ p = EndOf(stream, cur - 1) /\ t = stream[cur].tables
                     /\ n = Len(stream[cur].syms)
  OBVIOUS
<1>3. 8 * at - has = p + 3 /\ r = Expansions(stream)[cur - 1]
  BY <1>1, <1>2 DEF CodeTables, IInv, Placed, InHeader, Position
<1>4. /\ p \in Nat /\ t \in Nat /\ n \in Nat \ {0} /\ EndOf(stream, cur) \in Nat
      /\ p + 3 + t <= EndOf(stream, cur) /\ EndOf(stream, cur) <= 8 * Trailer(stream)
      /\ stream[cur] \in Blocks /\ stream[cur].syms \in Seq(Symbols)
  <2>1. /\ p \in Nat /\ EndOf(stream, cur) \in Nat /\ EndOf(stream, cur) <= 8 * Trailer(stream)
        /\ EndOf(stream, cur) = BlockEnd(p, stream[cur]) /\ stream[cur] \in Blocks
    BY <1>1, <1>2, BlockFacts
  <2>2. p + 3 + t <= EndOf(stream, cur)
    BY <1>1, <1>2, <2>1, BlockEndIs
  <2>3. t \in Nat /\ n \in Nat \ {0} /\ stream[cur].syms \in Seq(Symbols)
    BY <1>1, <1>2, WellFormedIs
  <2>4. QED
    BY <2>1, <2>2, <2>3
<1>5. SymEnds(p, stream[cur])[0] = p + 3 + t
  BY <1>2, <1>4, SymEndsAre
<1>6. Outputs(Expansions(stream)[cur - 1], stream[cur].syms)[0] = r
  BY <1>2, <1>3, <1>4, OutputsAre
<1>7. PICK c, d : c = Acc(Cursor, t) /\ d = Drop(c, t)
  OBVIOUS
<1>8. /\ d.at \in Nat /\ d.has \in 0..20 /\ at <= d.at /\ d.at = c.at
      /\ 8 * d.at - d.has = p + 3 + t /\ d.has <= 8 * d.at
  <2>1. has \in 0..20 /\ t \in Nat
    BY <1>4, CursorIs
  <2>2. t \in 0..t
    BY <1>4
  <2>3. d = Drop(Acc(Cursor, t), t)
    BY <1>7
  <2>4. Taken(at, has, t, t, d) /\ Acc(Cursor, t).at = d.at /\ d.has <= 8 * d.at
    BY <2>1, <2>2, <2>3, TakenFromCursor
  <2>5. d.has \in 0..20
    BY <2>1, <2>4 DEF Taken
  <2>6. QED
    BY <1>3, <1>7, <2>4, <2>5 DEF Taken
<1>9. cut = 0 => Enough(c)
  <2>1. SUFFICES ASSUME cut = 0
                 PROVE  Enough(c)
    OBVIOUS
  <2>2. Trailer(stream) \in Nat
    BY <1>1, WellFormedIs, WholeIs
  <2>3. d.has \in 0..23 /\ 8 * d.at - d.has <= 8 * Trailer(stream)
    BY <1>4, <1>8, <2>2
  <2>4. Enough(d)
    BY <1>8, <2>1, <2>3, EnoughWhole
  <2>5. QED
    BY <1>8, <2>4 DEF Enough
<1>10. CASE (~Enough(c) \/ ~stream[cur].found) /\ Fails("exitf")
  <2>1. Readable(stream) => stream[cur].found
    BY <1>1 DEF Readable
  <2>2. QED
    BY <1>9, <1>10, <2>1, GivesUp
<1>11. CASE /\ Enough(c) /\ stream[cur].found /\ Moves(d) /\ sym' = 1
            /\ UNCHANGED <<source, pc, cur, r, last_at>>
  <2>1. /\ stream' = stream /\ cur' = cur /\ at' = d.at /\ has' = d.has /\ r' = r
        /\ pc' = "coded" /\ cur' \in 0..Len(stream) /\ sym' \in Nat
    BY <1>1, <1>11 DEF source, Moves, CodeTables, IInv, TypeOK
  <2>2. Enough(d)
    BY <1>8, <1>11 DEF Enough
  <2>3. UNCHANGED <<source, last_at>>
    BY <1>11
  <2>4. TypeOK'
    BY <1>8, <1>11, <2>1, <2>2, <2>3, TypesFollow
  <2>5. InSymbols'
    <3>1. 1 \in 1..n /\ 1 - 1 = 0
      BY <1>4
    <3>2. Position' = p + 3 + t
      BY <1>8, <2>1 DEF Position
    <3>3. QED
      BY <1>2, <1>5, <1>6, <1>11, <2>1, <3>1, <3>2 DEF InSymbols
  <2>6. Placed'
    BY <1>1, <1>11, <2>1, <2>5 DEF Placed
  <2>7. QED
    BY <2>1, <2>3, <2>4, <2>6, GoesOn
<1>12. QED
  BY <1>2, <1>7, <1>10, <1>11 DEF CodeTables

\* Where the symbols of the block being read end, and what they make.
EndsHere == SymEnds(EndOf(stream, cur - 1), stream[cur])
OutputsHere == Outputs(Expansions(stream)[cur - 1], stream[cur].syms)

LEMMA SymbolHere ==
    ASSUME IInv, pc = "coded", sym # 0
    PROVE  /\ cur \in 1..Len(stream) /\ stream[cur].kind = "coded"
           /\ sym \in 1..Len(stream[cur].syms) /\ Symbol \in Symbols
           /\ 8 * at - has = EndsHere[sym - 1] /\ r = OutputsHere[sym - 1] /\ r \in Seq(Nat)
           /\ EndsHere[sym] = 8 * at - has + Bits(Symbol) /\ EndsHere[sym] <= 8 * Trailer(stream)
           /\ OutputsHere[sym] = Made(r, Symbol)
           /\ Symbol.kind = "copy" => Symbol.dist \in 1..Len(r)
           /\ Symbol.kind = "end" <=> sym = Len(stream[cur].syms)
           /\ Symbol.kind = "end" => /\ EndsHere[sym] = EndOf(stream, cur)
                                     /\ OutputsHere[sym] = Expansions(stream)[cur]
<1>1. /\ WellFormed(stream) /\ cur \in 1..Len(stream) /\ stream[cur].kind = "coded"
      /\ stream[cur].kind # "stored"
  BY DEF IInv, Given, TypeOK, Placed
<1>2. /\ sym \in 1..Len(stream[cur].syms)
      /\ 8 * at - has = EndsHere[sym - 1] /\ r = OutputsHere[sym - 1]
  BY DEF IInv, Placed, InSymbols, Position, EndsHere, OutputsHere
<1>3. PICK ends, outs, x : ends = EndsHere /\ outs = OutputsHere /\ x = Symbol
  OBVIOUS
<1>4. /\ ends = SymEnds(EndOf(stream, cur - 1), stream[cur])
      /\ outs = Outputs(Expansions(stream)[cur - 1], stream[cur].syms)
      /\ x = stream[cur].syms[sym]
  BY <1>3 DEF EndsHere, OutputsHere, Symbol
<1>5. /\ x \in Symbols /\ ends[sym - 1] \in Nat /\ outs[sym - 1] \in Seq(Nat)
      /\ ends[sym] = ends[sym - 1] + Bits(x) /\ ends[sym] <= EndOf(stream, cur)
      /\ outs[sym] = Made(outs[sym - 1], x)
      /\ x.kind = "copy" => x.dist \in 1..Len(outs[sym - 1])
      /\ x.kind = "end" <=> sym = Len(stream[cur].syms)
      /\ x.kind = "end" => ends[sym] = EndOf(stream, cur) /\ outs[sym] = Expansions(stream)[cur]
  <2>1. SymbolIs(stream, cur, sym, ends, outs, x)
    BY <1>1, <1>2, <1>4, SymbolFacts
  <2>2. QED
    BY <2>1 DEF SymbolIs
<1>6. ends[sym] <= 8 * Trailer(stream)
  <2>1. EndOf(stream, cur) \in Nat /\ EndOf(stream, cur) <= 8 * Trailer(stream)
    BY <1>1, BlockFacts
  <2>2. Trailer(stream) \in Nat
    BY <1>1, WellFormedIs, WholeIs
  <2>3. Bits(x) \in Nat
    BY <1>5, BitsIs
  <2>4. ends[sym] \in Nat
    BY <1>5, <2>3
  <2>5. QED
    BY <1>5, <2>1, <2>2, <2>4
<1>7. QED
  BY <1>1, <1>2, <1>3, <1>5, <1>6

\* A look-ahead of 15 bits leaves at most 20 after a code of two or more.
LEMMA AfterCodeIs ==
    ASSUME IInv, Symbol \in Symbols
    PROVE  /\ AfterCode.at \in Nat /\ AfterCode.has \in Nat /\ at <= AfterCode.at
           /\ AfterCode.has <= 8 * AfterCode.at
           /\ 8 * AfterCode.at - AfterCode.has = 8 * at - has + Symbol.code
           /\ Symbol.code >= 2 => AfterCode.has \in 0..20
<1>1. PICK d, x : d = AfterCode /\ x = Symbol.code
  OBVIOUS
<1>2. x \in 1..15 /\ x \in 0..15 /\ has \in 0..20
  BY <1>1, BitsIs, CursorIs
<1>3. d = Drop(Acc(Cursor, 15), x)
  BY <1>1 DEF AfterCode
<1>4. Taken(at, has, 15, x, d) /\ d.has <= 8 * d.at
  BY <1>2, <1>3, TakenFromCursor
<1>5. 8 * d.at - d.has = 8 * at - has + x /\ d.at \in Nat /\ d.has \in Nat /\ at <= d.at
  BY <1>4 DEF Taken
<1>6. x >= 2 => d.has \in 0..20
  <2>1. CASE has >= 15
    BY <1>2, <1>4, <2>1 DEF Taken
  <2>2. CASE has < 15
    BY <1>2, <1>4, <2>2 DEF Taken
  <2>3. QED
    BY <1>2, <2>1, <2>2
<1>7. QED
  BY <1>1, <1>4, <1>5, <1>6

\* TakenIs, from a cursor that holds at most 20 bits.
LEMMA TakenOn ==
    ASSUME NEW c, c.at \in Nat, c.has \in 0..20, c.has <= 8 * c.at,
           NEW w \in Nat, NEW x \in 0..w, w - x <= 13, NEW d, d = Drop(Acc(c, w), x)
    PROVE  /\ d.at \in Nat /\ d.has \in 0..20 /\ c.at <= d.at /\ d.has <= 8 * d.at
           /\ 8 * d.at - d.has = 8 * c.at - c.has + x
<1>1. c.has \in Nat
  OBVIOUS
<1>2. Taken(c.at, c.has, w, x, d)
  BY <1>1, TakenIs
<1>3. d.has \in 0..20
  BY <1>2 DEF Taken
<1>4. QED
  BY <1>2, <1>3 DEF Taken

LEMMA AfterCopyIs ==
    ASSUME IInv, Symbol \in Symbols, Symbol.kind = "copy", Symbol.code >= 2, Symbol.dcode \in 2..9
    PROVE  /\ AfterCopy.at \in Nat /\ AfterCopy.has \in 0..20 /\ at <= AfterCopy.at
           /\ AfterCopy.has <= 8 * AfterCopy.at
           /\ 8 * AfterCopy.at - AfterCopy.has = 8 * at - has + Bits(Symbol)
<1>1. PICK x, c0 : x = Symbol /\ c0 = AfterCode
  OBVIOUS
<1>2. /\ x.code \in 1..15 /\ x.extra \in Nat /\ x.dcode \in 2..9 /\ x.dextra \in Nat
      /\ Bits(x) = x.code + x.extra + x.dcode + x.dextra
  BY <1>1, BitsIs DEF Bits
<1>3. PICK c1 : c1 = Drop(Acc(c0, x.extra), x.extra)
  OBVIOUS
<1>4. PICK c2 : c2 = Drop(Acc(c1, 9), x.dcode)
  OBVIOUS
<1>5. PICK c3 : c3 = Drop(Acc(c2, x.dextra), x.dextra)
  OBVIOUS
<1>6. c3 = AfterCopy
  BY <1>1, <1>3, <1>4, <1>5 DEF AfterCopy
<1>7. /\ c0.at \in Nat /\ c0.has \in 0..20 /\ at <= c0.at /\ c0.has <= 8 * c0.at
      /\ 8 * c0.at - c0.has = 8 * at - has + x.code
  BY <1>1, AfterCodeIs
<1>8. /\ c1.at \in Nat /\ c1.has \in 0..20 /\ c0.at <= c1.at /\ c1.has <= 8 * c1.at
      /\ 8 * c1.at - c1.has = 8 * c0.at - c0.has + x.extra
  <2>1. x.extra \in 0..x.extra /\ x.extra - x.extra <= 13
    BY <1>2
  <2>2. QED
    BY <1>2, <1>3, <1>7, <2>1, TakenOn
<1>9. /\ c2.at \in Nat /\ c2.has \in 0..20 /\ c1.at <= c2.at /\ c2.has <= 8 * c2.at
      /\ 8 * c2.at - c2.has = 8 * c1.at - c1.has + x.dcode
  <2>1. PICK w \in Nat : w = 9
    OBVIOUS
  <2>2. x.dcode \in 0..w /\ w - x.dcode <= 13
    BY <1>2, <2>1
  <2>3. c2 = Drop(Acc(c1, w), x.dcode)
    BY <1>4, <2>1
  <2>4. QED
    BY <1>8, <2>2, <2>3, TakenOn
<1>10. /\ c3.at \in Nat /\ c3.has \in 0..20 /\ c2.at <= c3.at /\ c3.has <= 8 * c3.at
       /\ 8 * c3.at - c3.has = 8 * c2.at - c2.has + x.dextra
  <2>1. PICK w \in Nat : w = x.dextra
    BY <1>2
  <2>2. w \in 0..w /\ w - w <= 13
    BY <2>1
  <2>3. c3 = Drop(Acc(c2, w), w)
    BY <1>5, <2>1
  <2>4. /\ c3.at \in Nat /\ c3.has \in 0..20 /\ c2.at <= c3.at /\ c3.has <= 8 * c3.at
        /\ 8 * c3.at - c3.has = 8 * c2.at - c2.has + w
    BY <1>9, <2>2, <2>3, TakenOn
  <2>5. QED
    BY <2>1, <2>4
<1>11. at \in Nat /\ has \in Nat
  BY CursorIs
<1>12. at <= c3.at
  BY <1>7, <1>8, <1>9, <1>10, <1>11
<1>13. 8 * c3.at - c3.has = 8 * at - has + Bits(x)
  <2>1. PICK p0, p1, p2, p3, q : /\ p0 = 8 * c0.at - c0.has /\ p1 = 8 * c1.at - c1.has
                                 /\ p2 = 8 * c2.at - c2.has /\ p3 = 8 * c3.at - c3.has
                                 /\ q = 8 * at - has
    OBVIOUS
  <2>2. q \in Int
    BY <1>11, <2>1
  <2>3. p0 = q + x.code /\ p1 = p0 + x.extra /\ p2 = p1 + x.dcode /\ p3 = p2 + x.dextra
    BY <1>7, <1>8, <1>9, <1>10, <2>1
  <2>4. p3 = q + (x.code + x.extra + x.dcode + x.dextra)
    <3>1. PICK a, b, c, d : a = x.code /\ b = x.extra /\ c = x.dcode /\ d = x.dextra
      OBVIOUS
    <3>2. a \in Nat /\ b \in Nat /\ c \in Nat /\ d \in Nat
      BY <1>2, <3>1
    <3>3. p0 = q + a /\ p1 = p0 + b /\ p2 = p1 + c /\ p3 = p2 + d
      BY <2>3, <3>1
    <3>4. p3 = q + (a + b + c + d)
      BY <2>2, <3>2, <3>3
    <3>5. QED
      BY <3>1, <3>4
  <2>5. QED
    BY <1>2, <2>1, <2>4
<1>14. QED
  BY <1>1, <1>6, <1>10, <1>12, <1>13

\* The symbol is read, and it is not the last of its block.
LEMMA SymbolDone ==
    ASSUME IInv, pc = "coded", sym # 0, Symbol.kind # "end",
           NEW c, Moves(c), Enough(c), c.at \in Nat, c.has \in 0..20, at <= c.at,
           c.has <= 8 * c.at, 8 * c.at - c.has = 8 * at - has + Bits(Symbol),
           r' = Made(r, Symbol), sym' = sym + 1, UNCHANGED <<source, pc, cur, last_at>>
    PROVE  IInv'
<1>1. PICK n : n = Len(stream[cur].syms)
  OBVIOUS
<1>2. /\ cur \in 1..Len(stream) /\ stream[cur].kind = "coded" /\ sym \in 1..n /\ sym # n
      /\ EndsHere[sym] = 8 * at - has + Bits(Symbol) /\ OutputsHere[sym] = Made(r, Symbol)
  BY <1>1, SymbolHere
<1>3. n \in Nat
  <2>1. WellFormed(stream)
    BY DEF IInv, Given
  <2>2. QED
    BY <1>1, <1>2, <2>1, WellFormedIs
<1>4. sym + 1 \in 1..n /\ (sym + 1) - 1 = sym /\ sym + 1 \in Nat
  BY <1>2, <1>3
<1>5. /\ stream' = stream /\ cur' = cur /\ pc' = pc /\ at' = c.at /\ has' = c.has
  BY DEF source, Moves
<1>6. TypeOK'
  <2>1. cur' \in 0..Len(stream) /\ sym' \in Nat
    BY <1>2, <1>4, <1>5
  <2>2. UNCHANGED <<source, last_at>> /\ pc' \in {"block", "stored", "coded", "fixed", "trailer"}
    OBVIOUS
  <2>3. QED
    BY <2>1, <2>2, TypesFollow
<1>7. InSymbols'
  <2>1. Position' = EndsHere[sym]
    BY <1>2, <1>5 DEF Position
  <2>2. QED
    BY <1>1, <1>2, <1>4, <1>5, <2>1 DEF InSymbols, EndsHere, OutputsHere
<1>8. Placed'
  BY <1>2, <1>4, <1>5, <1>7 DEF Placed
<1>9. QED
  BY <1>5, <1>6, <1>8, GoesOn

LEMMA LiteralIInv == IInv /\ Literal => IInv'
<1> SUFFICES ASSUME IInv, Literal
             PROVE  IInv'
  OBVIOUS
<1>1. /\ pc = "coded" /\ sym # 0 /\ Symbol.kind = "lit" /\ Enough(AfterCode)
      /\ Symbol.code \in 2..15
  BY DEF Literal, Reading, CodeFound
<1>2. CASE Fails("OOM")
  BY <1>2, GivesUp
<1>3. CASE /\ r' = Append(r, Symbol.byte) /\ Moves(AfterCode) /\ sym' = sym + 1
           /\ UNCHANGED <<source, pc, cur, last_at>>
  <2>1. Symbol \in Symbols
    BY <1>1, SymbolHere
  <2>2. PICK c : c = AfterCode
    OBVIOUS
  <2>3. /\ c.at \in Nat /\ c.has \in 0..20 /\ at <= c.at /\ c.has <= 8 * c.at
        /\ 8 * c.at - c.has = 8 * at - has + Symbol.code
    BY <1>1, <2>1, <2>2, AfterCodeIs
  <2>4. Bits(Symbol) = Symbol.code
    BY <1>1 DEF Bits
  <2>5. 8 * c.at - c.has = 8 * at - has + Bits(Symbol)
    BY <2>3, <2>4
  <2>6. r' = Made(r, Symbol)
    BY <1>1, <1>3 DEF Made
  <2>7. Moves(c) /\ Enough(c) /\ Symbol.kind # "end"
    BY <1>1, <1>3, <2>2
  <2>8. QED
    BY <1>1, <1>3, <2>3, <2>5, <2>6, <2>7, SymbolDone
<1>4. QED
  BY <1>2, <1>3 DEF Literal

LEMMA CopyIInv == IInv /\ Copy => IInv'
<1> SUFFICES ASSUME IInv, Copy
             PROVE  IInv'
  OBVIOUS
<1>1. /\ pc = "coded" /\ sym # 0 /\ Symbol.kind = "copy" /\ Enough(AfterCopy)
      /\ Symbol.code \in 2..15 /\ Symbol.dcode \in 2..9
  BY DEF Copy, Reading, CodeFound, DistFound
<1>2. CASE Fails("OOM")
  BY <1>2, GivesUp
<1>3. CASE /\ r' = Copied(r, Symbol.len, Symbol.dist) /\ Moves(AfterCopy) /\ sym' = sym + 1
           /\ UNCHANGED <<source, pc, cur, last_at>>
  <2>1. Symbol \in Symbols /\ r \in Seq(Nat) /\ Symbol.dist \in 1..Len(r)
    BY <1>1, SymbolHere
  <2>2. PICK c : c = AfterCopy
    OBVIOUS
  <2>3. Symbol.code >= 2 /\ Symbol.len \in Nat
    <3>1. Symbol.code >= 2
      BY <1>1
    <3>2. Symbol.len \in Nat
      BY <1>1, <2>1, BitsIs
    <3>3. QED
      BY <3>1, <3>2
  <2>4. /\ c.at \in Nat /\ c.has \in 0..20 /\ at <= c.at /\ c.has <= 8 * c.at
        /\ 8 * c.at - c.has = 8 * at - has + Bits(Symbol)
    BY <1>1, <2>1, <2>2, <2>3, AfterCopyIs
  <2>5. Copied(r, Symbol.len, Symbol.dist) = Repeated(r, Symbol.len, Symbol.dist)
    BY <2>1, <2>3, CopiedIsRepeated
  <2>6. r' = Made(r, Symbol)
    BY <1>1, <1>3, <2>5, MadeIs
  <2>7. Moves(c) /\ Enough(c) /\ Symbol.kind # "end"
    BY <1>1, <1>3, <2>2
  <2>8. QED
    BY <1>1, <1>3, <2>4, <2>6, <2>7, SymbolDone
<1>4. QED
  BY <1>2, <1>3 DEF Copy

LEMMA EndOfBlockIInv == IInv /\ EndOfBlock => IInv'
<1> SUFFICES ASSUME IInv, EndOfBlock
             PROVE  IInv'
  OBVIOUS
<1>1. /\ pc = "coded" /\ sym # 0 /\ Symbol.kind = "end" /\ Enough(AfterCode)
      /\ Symbol.code \in 2..15 /\ Moves(AfterCode) /\ BlockDone
      /\ UNCHANGED <<source, cur, sym, r, last_at>>
  BY DEF EndOfBlock, Reading, CodeFound
<1>2. /\ cur \in 1..Len(stream) /\ stream[cur].kind = "coded" /\ Symbol \in Symbols
      /\ EndOf(stream, cur) = 8 * at - has + Bits(Symbol)
      /\ Expansions(stream)[cur] = Made(r, Symbol)
  BY <1>1, SymbolHere
<1>3. PICK c : c = AfterCode
  OBVIOUS
<1>4. /\ c.at \in Nat /\ c.has \in 0..20 /\ at <= c.at
      /\ 8 * c.at - c.has = 8 * at - has + Symbol.code
  <2>1. Symbol.code >= 2
    BY <1>1
  <2>2. QED
    BY <1>2, <1>3, <2>1, AfterCodeIs
<1>5. Bits(Symbol) = Symbol.code /\ Made(r, Symbol) = r
  BY <1>1, MadeIs DEF Bits
<1>6. 8 * c.at - c.has = EndOf(stream, cur) /\ r' = Expansions(stream)[cur]
  BY <1>1, <1>2, <1>4, <1>5
<1>7. sym' \in Nat /\ (stream[cur].kind = "stored" => c.has = 0)
  BY <1>1, <1>2 DEF IInv, TypeOK
<1>8. Moves(c) /\ Enough(c) /\ UNCHANGED <<source, cur, last_at>>
  BY <1>1, <1>3
<1>9. QED
  BY <1>1, <1>2, <1>4, <1>6, <1>7, <1>8, BlockEnds

LEMMA NoCodeIInv == IInv /\ NoCode => IInv'
<1> SUFFICES ASSUME IInv, NoCode
             PROVE  IInv'
  OBVIOUS
<1>1. /\ pc = "coded" /\ sym # 0 /\ Fails("exitf")
      /\ CodeFound => Symbol.kind = "copy" /\ ~DistFound
  BY DEF NoCode
<1>2. SUFFICES ASSUME Readable(stream), cut = 0
               PROVE  FALSE
  BY <1>1, GivesUp
<1>3. /\ cur \in 1..Len(stream) /\ stream[cur].kind = "coded" /\ Symbol \in Symbols
      /\ sym \in 1..Len(stream[cur].syms)
      /\ 8 * at - has + Bits(Symbol) <= 8 * Trailer(stream)
  BY <1>1, SymbolHere
<1>4. Symbol.code \in 2..15 /\ (Symbol.kind = "copy" => Symbol.dcode \in 2..9)
  <2>1. WellFormed(stream) /\ stream \in Seq(Blocks) /\ stream[cur].kind # "stored"
    BY <1>3, WellFormedIs DEF IInv, Given
  <2>2. stream[cur].syms \in Seq(Symbols)
    BY <1>3, <2>1, WellFormedIs
  <2>3. cur \in DOMAIN stream /\ sym \in DOMAIN stream[cur].syms
    BY <1>3, <2>1, <2>2, LenProperties
  <2>4. QED
    BY <1>2, <1>3, <2>3 DEF Readable, Symbol
<1>5. PICK a, h, x, t : a = at /\ h = has /\ x = Symbol /\ t = Trailer(stream)
  OBVIOUS
<1>6. a \in Nat /\ h \in Nat /\ t \in Nat /\ x.code \in 2..15 /\ Bits(x) \in Nat
  <2>1. stream \in Seq(Blocks)
    BY WellFormedIs DEF IInv, Given
  <2>2. t \in Nat
    BY <1>5, <2>1, WholeIs
  <2>3. Bits(x) \in Nat
    BY <1>3, <1>5, BitsIs
  <2>4. a \in Nat /\ h \in Nat
    BY <1>5, CursorIs
  <2>5. QED
    BY <1>4, <1>5, <2>2, <2>3, <2>4
<1>7. x.code <= Bits(x)
  <2>1. x.kind = "copy" => x.extra \in Nat /\ x.dcode \in Nat /\ x.dextra \in Nat
    BY <1>3, <1>5, BitsIs
  <2>2. QED
    BY <1>6, <2>1 DEF Bits
<1>8. CodeFound
  <2>1. PICK c : c = AfterCode
    OBVIOUS
  <2>2. /\ c.at \in Nat /\ c.has \in 0..20
        /\ 8 * c.at - c.has = 8 * at - has + Symbol.code
    <3>1. Symbol.code >= 2
      BY <1>4
    <3>2. QED
      BY <1>3, <2>1, <3>1, AfterCodeIs
  <2>3. 8 * c.at - c.has <= 8 * Trailer(stream)
    <3>1. 8 * a - h + Bits(x) <= 8 * t
      BY <1>3, <1>5
    <3>2. 8 * a - h + x.code <= 8 * t
      BY <1>6, <1>7, <3>1
    <3>3. QED
      BY <1>5, <2>2, <3>2
  <2>4. c.has \in 0..23
    BY <2>2
  <2>5. Enough(c)
    BY <1>2, <2>2, <2>3, <2>4, EnoughWhole
  <2>6. QED
    BY <1>4, <2>1, <2>5 DEF CodeFound
<1>9. Symbol.kind = "copy"
  BY <1>1, <1>8
<1>10. DistFound
  <2>1. PICK c : c = AfterCopy
    OBVIOUS
  <2>2. Symbol.code >= 2
    BY <1>4
  <2>3. /\ c.at \in Nat /\ c.has \in 0..20
        /\ 8 * c.at - c.has = 8 * at - has + Bits(Symbol)
    BY <1>3, <1>4, <1>9, <2>1, <2>2, AfterCopyIs
  <2>4. 8 * c.at - c.has <= 8 * Trailer(stream)
    BY <1>3, <2>3
  <2>5. c.has \in 0..23
    BY <2>3
  <2>6. Enough(c)
    BY <1>2, <2>3, <2>4, <2>5, EnoughWhole
  <2>7. QED
    BY <1>4, <1>9, <2>1, <2>6 DEF DistFound
<1>11. QED
  BY <1>1, <1>8, <1>10

LEMMA ReturnIInv == IInv /\ Return => IInv'
<1> SUFFICES ASSUME IInv, Return
             PROVE  IInv'
  OBVIOUS
<1>1. /\ WellFormed(stream) /\ stream \in Seq(Blocks) /\ Len(stream) \in Nat
      /\ cur \in 1..Len(stream) /\ stream[cur].final /\ pc = "trailer"
      /\ 8 * at - has = EndOf(stream, cur) /\ r = Expansions(stream)[cur]
      /\ stream[cur].kind = "stored" => has = 0
  BY WellFormedIs DEF IInv, Given, TypeOK, Placed, AtBoundary, Position, Return
<1>2. cur = Len(stream)
  BY <1>1, WellFormedIs
<1>3. PICK t, e, a, h, m : /\ t = Trailer(stream) /\ e = EndOf(stream, cur) /\ a = at /\ h = has
                           /\ m = Whole(stream) - cut
  OBVIOUS
<1>4. /\ e \in Nat /\ t = Ceil8(e) /\ Whole(stream) = t + 4 /\ t \in Nat /\ cut \in Nat
  BY <1>1, <1>2, <1>3, BlockFacts, WholeIs DEF Trailer, IInv, Given
<1>5. a \in 0..m /\ a \in Nat /\ h \in 0..20 /\ 8 * a - h = e
  BY <1>1, <1>3, CursorIs DEF IInv, TypeOK
<1>6. e <= 8 * t /\ 8 * t <= e + 7
  BY <1>4, CeilIs
<1>7. cut <= 4
  <2>1. a <= t + 4 - cut
    BY <1>3, <1>4, <1>5
  <2>2. e <= 8 * a
    BY <1>4, <1>5
  <2>3. t <= a
    BY <1>4, <1>5, <1>6, <2>2
  <2>4. QED
    BY <1>4, <1>5, <2>1, <2>3
<1>8. /\ stream' = stream /\ cut' = cut /\ xnfo' = xnfo /\ at' = at /\ cur' = cur /\ sym' = sym
      /\ r' = r /\ pc' = "done" /\ has' \in {has, has - (has % 8)}
      /\ (xnfo => last_at' = at) /\ last_at' \in {at, last_at}
  BY DEF Return, source
<1>9. Given'
  BY <1>8 DEF IInv, Given
<1>10. has' \in 0..20 /\ has' <= 8 * at'
  BY <1>3, <1>5, <1>8, CursorIs
<1>11. TypeOK'
  <2>1. last_at \in 0..at /\ at \in 0..at
    BY CursorIs DEF IInv, TypeOK
  <2>2. last_at' \in 0..at'
    BY <1>8, <2>1
  <2>3. QED
    BY <1>8, <1>10, <2>2 DEF IInv, TypeOK
<1>12. Placed'
  <2>1. cur # 0
    BY <1>1
  <2>2. QED
    BY <1>8, <2>1 DEF Placed
<1>13. DecodesExactly'
  BY <1>1, <1>2, <1>7, <1>8 DEF DecodesExactly, Expansion
<1>14. TrailerFound'
  <2>1. SUFFICES ASSUME xnfo, stream[Len(stream)].kind = "stored"
                 PROVE  last_at' = Trailer(stream)
    BY <1>8 DEF TrailerFound
  <2>2. h = 0
    BY <1>1, <1>2, <1>3, <2>1
  <2>3. a = t
    BY <1>4, <1>5, <1>6, <2>2
  <2>4. QED
    BY <1>3, <1>8, <2>1, <2>3
<1>15. Followed'
  BY <1>8 DEF Followed, ReadableIsRead
<1>16. QED
  BY <1>9, <1>11, <1>12, <1>13, <1>14, <1>15 DEF IInv

LEMMA NextIInv == IInv /\ [Next]_vars => IInv'
<1> SUFFICES ASSUME IInv, [Next]_vars
             PROVE  IInv'
  OBVIOUS
<1>1. CASE UNCHANGED vars
  <2>1. /\ stream' = stream /\ cut' = cut /\ xnfo' = xnfo /\ pc' = pc /\ at' = at /\ has' = has
        /\ header' = header /\ cur' = cur /\ sym' = sym /\ r' = r /\ last_at' = last_at
    BY <1>1 DEF vars, source
  <2>2. Given' /\ TypeOK'
    BY <2>1 DEF IInv, Given, TypeOK
  <2>3. Placed'
    BY <2>1 DEF IInv, Placed, AtBoundary, InHeader, InSymbols, Position
  <2>4. DecodesExactly' /\ TrailerFound' /\ Followed'
    BY <2>1 DEF IInv, DecodesExactly, TrailerFound, Followed, ReadableIsRead, Refused
  <2>5. QED
    BY <2>2, <2>3, <2>4 DEF IInv
<1>2. CASE Next
  BY <1>2, HeaderIInv, BlockHeaderIInv, StoredBlockIInv, FixedCodesIInv, CodeTablesIInv,
     LiteralIInv, CopyIInv, EndOfBlockIInv, NoCodeIInv, ReturnIInv DEF Next
<1>3. QED
  BY <1>1, <1>2

-----------------------------------------------------------------------------
(* The properties of the runs *)

\* inflate of compressions.h stays inside the source it is given, however it is cut, and between
\* two symbols keeps at most 20 bits that it has looked at and not used.
THEOREM TypeCorrect == Spec => []TypeOK
<1>1. IInv => TypeOK
  BY DEF IInv
<1>2. QED
  BY <1>1, InitIInv, NextIInv, PTL DEF Spec

\* When inflate returns, it has produced the bytes that the stream stands for, each copy repeating
\* what it overlaps, and nothing before the trailer was missing.
THEOREM DecodesWhatIsThere == Spec => []DecodesExactly
<1>1. IInv => DecodesExactly
  BY DEF IInv
<1>2. QED
  BY <1>1, InitIInv, NextIInv, PTL DEF Spec

\* inflate neither refuses nor misreads a whole stream of the kind it is made for, however many
\* blocks and symbols it has and at whatever bit each of them starts.
THEOREM ReadsWhatItCan == Spec => []ReadableIsRead
<1>1. Complete(stream) /\ IInv => ReadableIsRead
  BY DEF IInv, Followed
<1>2. Init => Complete(stream)
  BY StreamsAssumption DEF Init
<1>3. Complete(stream) /\ [Next]_vars => Complete(stream)'
  <2>1. [Next]_vars => stream' = stream
    BY DEF Next, vars, source, Header, BlockHeader, StoredBlock, FixedCodes, CodeTables, Literal,
           Copy, EndOfBlock, NoCode, Return, Fails
  <2>2. QED
    BY <2>1 DEF Complete
<1>4. QED
  BY <1>1, <1>2, <1>3, InitIInv, NextIInv, PTL DEF Spec

\* After a last block that is stored, the place inflate gives for the trailer is where it is.
THEOREM FindsTheTrailer == Spec => []TrailerFound
<1>1. IInv => TrailerFound
  BY DEF IInv
<1>2. QED
  BY <1>1, InitIInv, NextIInv, PTL DEF Spec
=============================================================================
