------------------------------ MODULE Huffman -------------------------------
(***************************************************************************)
(* The code tables of inflate: the lengths that instructions spell, the    *)
(* codes that lengths stand for, and how codes are found in the bits of a  *)
(* stream.  A sequence of lengths has that of symbol s at place s + 1, 0   *)
(* where there is no code; bits are in the order of the stream.            *)
(***************************************************************************)
EXTENDS Totals, SequencesExt, FiniteSetsExt

clens_map == <<16, 17, 18, 0, 8, 7, 9, 6, 10, 5, 11, 4, 12, 3, 13, 2, 14, 1, 15>>
\* the lengths of the 19 instructions' codes: hclen of them are read
CodeLens(read) ==
    [place \in 1..19 |->
        LET k == SelectInSeq(clens_map, LAMBDA c : c = place - 1)
        IN IF k <= Len(read) THEN read[k] ELSE 0]

Times(n, len) == [c \in 1..n |-> len]
\* the lengths so far and those of one more instruction; the first is no repetition
Follow(dlens, x) ==
    CASE x.k < 16 -> Append(dlens, x.k)
      [] x.k = 16 -> dlens \o Times(3 + x.extra, Last(dlens))
      [] x.k = 17 -> dlens \o Times(3 + x.extra, 0)
      [] x.k = 18 -> dlens \o Times(11 + x.extra, 0)
Lens(instrs) == FoldLeft(Follow, << >>, instrs)

counts(lens, b) == IF b = 0 THEN 0 ELSE Cardinality({s \in DOMAIN lens : lens[s] = b})
next_code(lens, b) ==
    LET next[i \in 0..b] == IF i = 0 THEN 0 ELSE (next[i - 1] + counts(lens, i - 1)) * 2
    IN next[b]
\* next_code[lens[s]]++, after the symbols before s
Code(lens, s) == next_code(lens, lens[s]) + Cardinality({t \in 1..(s - 1) : lens[t] = lens[s]})

\* the lowest len bits of a code, the other way around
Mirrored(code, len) ==
    LET turned[k \in 0..len] ==
            IF k = 0 THEN [val |-> 0, code |-> code]
            ELSE LET d == turned[k - 1]
                 IN [val |-> 2 * d.val + (d.code % 2), code |-> d.code \div 2]
    IN turned[len].val
dico(lens) == [s \in DOMAIN lens |-> Mirrored(Code(lens, s), lens[s])]

\* acc & ((1<<b) -1)
Low(bits, b) == SumOf([i \in 1..b |-> bits[i] * 2 ^ (i - 1)])

\* the instruction whose code comes next: the first that fits
Searched(lens, d, bits) ==
    LET fits == {k \in DOMAIN lens : lens[k] # 0 /\ Low(bits, lens[k]) = d[k]}
    IN IF fits = {} THEN {} ELSE {Min(fits)}

\* the symbol whose code comes next: the shortest of 2 bits or more for which rdico,
\* where the last symbol of each reversed code is, has a symbol of that length
LookedUp(lens, d, bits) ==
    LET rdico(code) == {s \in DOMAIN lens : lens[s] # 0 /\ d[s] = code}
        found(b) == LET at == rdico(Low(bits, b)) IN at # {} /\ lens[Max(at)] = b
        fits == {b \in 2..Min({15, Len(bits)}) : found(b)}
    IN IF fits = {} THEN {} ELSE {Max(rdico(Low(bits, Min(fits))))}

\* the next symbol behind those in r.syms, whose code r.bits starts with
OneFound(lens, d, r, short) ==
    {[syms |-> Append(r.syms, s), bits |-> SubSeq(r.bits, lens[s] + 1, Len(r.bits))] :
        s \in IF short THEN Searched(lens, d, r.bits) ELSE LookedUp(lens, d, r.bits)}
\* the next n symbols, found one by one
Found(lens, d, bits, n, short) ==
    LET found[i \in 0..n] == IF i = 0 THEN {[syms |-> << >>, bits |-> bits]}
                             ELSE UNION {OneFound(lens, d, r, short) : r \in found[i - 1]}
    IN found[n]
-----------------------------------------------------------------------------
(* RFC 1951, 3.2.2: shorter codes come first, those of one length in the   *)
(* order of their symbols, each where the ones before it leave off.        *)

Precedes(lens, t, s) == lens[t] # 0 /\ (lens[t] < lens[s] \/ (lens[t] = lens[s] /\ t < s))
CanonicalBits(lens, s) ==
    LET code == SumOf([t \in DOMAIN lens |->
                          IF Precedes(lens, t, s) THEN 2 ^ (lens[s] - lens[t]) ELSE 0])
    IN [i \in 1..lens[s] |-> (code \div 2 ^ (lens[s] - i)) % 2]
\* the lengths, to 15 bits, leave no symbol without room
CodesFit(lens) ==
    SumOf([s \in DOMAIN lens |-> IF lens[s] = 0 THEN 0 ELSE 2 ^ (15 - lens[s])]) <= 2 ^ 15
=============================================================================
