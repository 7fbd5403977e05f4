------------------------------ MODULE Filters -------------------------------
(***************************************************************************)
(* The filters of PNG files as tools/images.h has them, on rows of pixels  *)
(* of four bytes.  A header h has the width, the height, and whether it is *)
(* one the code supports, truecolor with alpha in 8 bits; neither of the   *)
(* two numbers is 0.  What may end in exitf gives a set: what is returned, *)
(* or nothing.                                                             *)
(***************************************************************************)
EXTENDS Integers, Sequences, SequencesExt

chan == 4

\* the unsigned bytes of the Paeth filter
Paeth(a, b, c) ==
    LET p == (a + b - c) % 256
        far(x) == IF p < x THEN x - p ELSE p - x
    IN IF far(a) <= far(b) /\ far(a) <= far(c) THEN a ELSE IF far(b) < far(c) THEN b ELSE c

\* what a filter adds to a byte: from the pixels at the left, above, and both
\* mutant: the two are halved before they are added
AddedHalves(filter, a, b, c) ==
    CASE filter = 0 -> 0
      [] filter = 1 -> a
      [] filter = 2 -> b
      [] filter = 3 -> a \div 2 + b \div 2
      [] filter = 4 -> Paeth(a, b, c)
Added(filter, a, b, c) ==
    CASE filter = 0 -> 0
      [] filter = 1 -> a
      [] filter = 2 -> b
      [] filter = 3 -> (a + b) \div 2
      [] filter = 4 -> Paeth(a, b, c)

\* the bytes at the left of byte n of the pixels, above it, and above that
Around(h, r, n) ==
    LET w == chan * h.width
        first == (n - 1) % w < chan
        top == n <= w
    IN <<IF first THEN 0 ELSE r[n - chan], IF top THEN 0 ELSE r[n - w],
         IF first \/ top THEN 0 ELSE r[n - w - chan]>>

\* source has a byte in front of each row
Row(h, n) == (n - 1) \div (chan * h.width)
FilterAt(h, n) == Row(h, n) * (chan * h.width + 1) + 1
Size(h) == h.width * h.height * chan

png_unfilter(h, source) ==
    LET filter(n) == source[FilterAt(h, n)]
        unfiltered[n \in 0..Size(h)] ==
            IF n = 0 THEN << >>
            ELSE LET r == unfiltered[n - 1]
                     at == Around(h, r, n)
                 IN Append(r, (source[n + Row(h, n) + 1]
                               + Added(filter(n), at[1], at[2], at[3])) % 256)
    IN IF ~h.supported \/ \E n \in 1..Size(h) : filter(n) > 4 THEN {}
       ELSE {unfiltered[Size(h)]}

png_filter_dumb(h, source) ==
    IF ~h.supported \/ Len(source) < Size(h) THEN {}
    ELSE LET w == chan * h.width
         IN {FlattenSeq([i \in 1..h.height |-> <<0>> \o SubSeq(source, (i - 1) * w + 1, i * w)])}
-----------------------------------------------------------------------------
(* What the PNG specification says of the filters *)

PaethPredictor(a, b, c) ==
    LET p == a + b - c
        dist(x) == IF p > x THEN p - x ELSE x - p
        best == {x \in {a, b, c} : \A y \in {a, b, c} : dist(x) <= dist(y)}
    IN IF a \in best THEN a ELSE IF b \in best THEN b ELSE c

\* the pixels filtered, each row with its own filter
Filtered(h, filters, pixels) ==
    LET w == chan * h.width
        byte(n) ==
            LET at == Around(h, pixels, n)
                f == filters[Row(h, n) + 1]
                p == CASE f = 0 -> 0 [] f = 1 -> at[1] [] f = 2 -> at[2]
                       [] f = 3 -> (at[1] + at[2]) \div 2
                       [] f = 4 -> PaethPredictor(at[1], at[2], at[3])
            IN (pixels[n] - p) % 256
    IN FlattenSeq([i \in 1..h.height |->
                      <<filters[i]>> \o [k \in 1..w |-> byte((i - 1) * w + k)]])

\* Where the code's Paeth filter is that of PNG: no sum leaves a byte, where the code's
\* p would differ, and the byte above is never as near to p as the one at its left,
\* where the code takes that one and PNG the one above.
NoWrap(h, pixels) ==
    \A n \in 1..Size(h) : LET at == Around(h, pixels, n) IN at[1] + at[2] - at[3] \in 0..255
NoTie(h, pixels) ==
    \A n \in 1..Size(h) : LET at == Around(h, pixels, n)
                          IN at[1] # at[3] => at[2] - at[3] # 2 * (at[3] - at[1])
=============================================================================
