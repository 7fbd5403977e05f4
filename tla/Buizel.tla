------------------------------- MODULE Buizel -------------------------------
(***************************************************************************)
(* The bit writer and the bit reader of utils/buizel.h.  A writer w has    *)
(* the bytes and the capacity of its buf, the space left in the last byte  *)
(* and how many more allocations succeed; a reader r has the position of   *)
(* the next byte and the has lowest bits of acc.                           *)
(***************************************************************************)
EXTENDS Integers, Sequences, SequencesExt

Writer(left) == [ok |-> TRUE, bytes |-> << >>, cap |-> 0, space |-> 0, left |-> left]
Reader == [at |-> 0, has |-> 0, acc |-> 0]

\* 1 << n
PowerOf2[n \in Nat] == IF n = 0 THEN 1 ELSE 2 * PowerOf2[n - 1]

Lesser(a, b) == IF a < b THEN a ELSE b

\* one turn of the loop around dyarr_resize, which asks for more than need
Doubled(w, need) ==
    IF w.cap > need THEN w
    ELSE [w EXCEPT !.cap = IF @ = 0 THEN 16 ELSE @ * 2, !.left = @ - 1]
\* the loop: room for the whole bytes and one more
Grown(w, fullbytes) ==
    LET need == Len(w.bytes) + fullbytes + 1
        grown[d \in 0..w.left] == IF d = 0 THEN w ELSE Doubled(grown[d - 1], need)
    IN [grown[w.left] EXCEPT !.ok = grown[w.left].cap > need]

\* the first bits finish the last byte
Finish(w, finish, value) ==
    IF finish = 0 THEN w
    ELSE [w EXCEPT !.bytes[Len(w.bytes)] = @ + (value % PowerOf2[finish]) * PowerOf2[8 - w.space],
                   !.space = @ - finish]

\* mutant: the bits that finished the last byte are written again
WriteAgain(w, nbits, value) ==
    LET finish == Lesser(w.space, nbits)
        f == Finish(w, finish, value)
        full == (nbits - finish) \div 8
        left == (nbits - finish) % 8
        g == Grown(f, full)
        bytes == [k \in 1..full |-> (value \div PowerOf2[8 * (k - 1)]) % 256]
        rest == IF left = 0 THEN << >> ELSE <<(value \div PowerOf2[8 * full]) % PowerOf2[left]>>
    IN IF finish # 0 /\ f.space # 0 THEN f
       ELSE IF ~g.ok THEN g
       ELSE [g EXCEPT !.bytes = @ \o bytes \o rest, !.space = IF left = 0 THEN @ ELSE 8 - left]
buizel_write(w, nbits, value) ==
    LET finish == Lesser(w.space, nbits)
        f == Finish(w, finish, value)
        v == value \div PowerOf2[finish]
        full == (nbits - finish) \div 8
        left == (nbits - finish) % 8
        g == Grown(f, full)
        bytes == [k \in 1..full |-> (v \div PowerOf2[8 * (k - 1)]) % 256]
        rest == IF left = 0 THEN << >> ELSE <<(v \div PowerOf2[8 * full]) % PowerOf2[left]>>
    IN IF finish # 0 /\ f.space # 0 THEN f
       ELSE IF ~g.ok THEN g
       ELSE [g EXCEPT !.bytes = @ \o bytes \o rest, !.space = IF left = 0 THEN @ ELSE 8 - left]

buizel_right(w) == Len(w.bytes) * 8 - w.space
buizel_pad(w) == [w EXCEPT !.space = 0]

\* a turn of the loop: c has the reader, the value and how many of its bits were read
Taking(src, nbits, c) ==
    IF c.actual >= nbits \/ Len(src) <= c.at THEN c
    ELSE LET b == src[c.at + 1]
             take == Lesser(nbits - c.actual, 8)
         IN [at |-> c.at + 1, has |-> 8 - take, acc |-> b \div PowerOf2[take],
             val |-> c.val + (b % PowerOf2[take]) * PowerOf2[c.actual], actual |-> c.actual + take]
buizel_read(src, r, nbits) ==
    LET taken[k \in 0..(Len(src) - r.at)] ==
            IF k = 0 THEN [at |-> r.at, has |-> r.has, acc |-> r.acc,
                           val |-> r.acc, actual |-> r.has]
            ELSE Taking(src, nbits, taken[k - 1])
    IN taken[Len(src) - r.at]

buizel_left(src, r) == (Len(src) - r.at) * 8 + r.has
buizel_align(r) == [r EXCEPT !.acc = 0, !.has = 0]
-----------------------------------------------------------------------------
(* A sequence of bits, the lowest of a number first *)

LowBits(n, width) == [i \in 1..width |-> (n \div PowerOf2[i - 1]) % 2]
BitsIn(bytes) == FlattenSeq([k \in DOMAIN bytes |-> LowBits(bytes[k], 8)])
BitsWritten(w) == SubSeq(BitsIn(w.bytes), 1, buizel_right(w))
BitsLeft(src, r) ==
    LowBits(r.acc, r.has) \o BitsIn(SubSeq(src, r.at + 1, Len(src)))
=============================================================================
