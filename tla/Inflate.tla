------------------------------ MODULE Inflate -------------------------------
(***************************************************************************)
(* inflate of compressions.h on a zlib stream, whole or cut short.  What   *)
(* the reader can get wrong is where, in bits, each part of the stream     *)
(* lies: a stream is a sequence of blocks with their sizes, laid out as    *)
(* RFC 1950 and 1951 say, and the reader has the code's byte cursor "at"   *)
(* and its accumulator, which holds the "has" bits before the cursor that  *)
(* are not used yet.  A read gives what lies at that place; where no block *)
(* starts it would give anything, and the reader is "lost".                *)
(*                                                                         *)
(* A coded block has the bits of its code tables and its symbols, each     *)
(* with the bits of its parts; the tables are read as one step, because    *)
(* whatever they hold they leave the reader at the same place, or nowhere  *)
(* where one of their own codes is not "found".  A repeat instruction that *)
(* crosses from the first table to the second, which the FIXME of line 157 *)
(* excludes, is in no stream.                                              *)
(***************************************************************************)
EXTENDS Integers, Sequences

CONSTANTS Streams,  \* the streams to read
          Headers   \* what their headers hold

VARIABLES stream,  \* the blocks of source
          cut,     \* how many bytes are missing at its end
          xnfo,    \* whether the caller wants the trailer read
          header,  \* cm and cinfo of its first byte, and fdict of its second
          pc,      \* "header", "block", a kind of block, "trailer", "done", "exitf", "OOM", "lost"
          at, has, \* the cursor, and the number of bits in acc
          cur,     \* the block being read
          sym,     \* the symbol of it being read, 0 before the tables
          r,       \* the bytes produced
          last_at  \* xnfo->last_at, where the trailer was read

source == <<stream, cut, xnfo, header>>
vars == <<source, pc, at, has, cur, sym, r, last_at>>
-----------------------------------------------------------------------------
(* What a stream is (external: RFC 1950, RFC 1951) *)

Symbols == [kind : {"lit"}, byte : Nat, code : 1..15]
           \cup [kind : {"end"}, code : 1..15]
           \cup [kind : {"copy"}, len : 3..258, dist : Nat \ {0}, code : 1..15, extra : 0..5,
                 dcode : 1..15, dextra : 0..13]
Blocks == [kind : {"stored"}, from : Nat, len : Nat, final : BOOLEAN]
          \cup [kind : {"coded", "fixed"}, tables : Nat, found : BOOLEAN, syms : Seq(Symbols),
                final : BOOLEAN]

Ceil8(bits) == (bits + 7) \div 8
Bits(s) == IF s.kind = "copy" THEN s.code + s.extra + s.dcode + s.dextra ELSE s.code

\* the bit after each of the symbols of block b, when it starts at bit p
SymEnds(p, b) ==
    LET upTo[j \in 0..Len(b.syms)] == IF j = 0 THEN p + 3 + b.tables
                                      ELSE upTo[j - 1] + Bits(b.syms[j])
    IN upTo

\* the bit after block b
BlockEnd(p, b) ==
    IF b.kind = "stored" THEN 8 * (Ceil8(p + 3) + 4 + b.len) ELSE SymEnds(p, b)[Len(b.syms)]

\* the bit after the first i blocks of s, whose header has two bytes
Ends(s) ==
    LET end[i \in 0..Len(s)] == IF i = 0 THEN 16 ELSE BlockEnd(end[i - 1], s[i]) IN end
EndOf(s, i) == Ends(s)[i]

Trailer(s) == Ceil8(EndOf(s, Len(s)))
Whole(s) == Trailer(s) + 4

Data(b) == [i \in 1..b.len |-> b.from + i - 1]

\* o followed by len bytes, each equal to the one dist before it
Repeated(o, len, dist) == o \o [i \in 1..len |-> o[Len(o) - dist + 1 + ((i - 1) % dist)]]

\* what symbol x makes of o, each of the symbols of a coded block, and a block
Made(o, x) == CASE x.kind = "lit"  -> Append(o, x.byte)
                [] x.kind = "copy" -> Repeated(o, x.len, x.dist)
                [] x.kind = "end"  -> o
Outputs(o, syms) ==
    LET upTo[j \in 0..Len(syms)] == IF j = 0 THEN o ELSE Made(upTo[j - 1], syms[j]) IN upTo
Unpacked(o, b) == IF b.kind = "stored" THEN o \o Data(b) ELSE Outputs(o, b.syms)[Len(b.syms)]

\* the bytes that the first blocks of s stand for, and all of them
Expansions(s) ==
    LET upTo[i \in 0..Len(s)] == IF i = 0 THEN << >> ELSE Unpacked(upTo[i - 1], s[i]) IN upTo
Expansion(s) == Expansions(s)[Len(s)]

\* What RFC 1951 asks of the blocks: the final one is the last, a block of symbols ends with the
\* end symbol and has no other, and no distance reaches before the first byte.
WellFormed(s) ==
    /\ s \in Seq(Blocks)
    /\ \A i \in DOMAIN s :
        /\ s[i].final => i = Len(s)
        /\ s[i].kind # "stored" =>
            /\ s[i].syms # << >>
            /\ \A j \in DOMAIN s[i].syms :
                /\ s[i].syms[j].kind = "end" <=> j = Len(s[i].syms)
                /\ s[i].syms[j].kind = "copy" =>
                    s[i].syms[j].dist <= Len(Outputs(Expansions(s)[i - 1], s[i].syms)[j - 1])
Complete(s) == s # << >> /\ s[Len(s)].final

ASSUME StreamsAssumption == \A s \in Streams : WellFormed(s) /\ Complete(s)
-----------------------------------------------------------------------------
(* The accumulator *)

\* mutant: "has <= wants"
AccOneMore(c, w) == LET more == IF c.has <= w THEN (w - c.has) \div 8 + 1 ELSE 0
                    IN [at |-> c.at + more, has |-> c.has + 8 * more]

\* _accbits(w) and _dropbits(w), from cursor c
Acc(c, w) == LET more == IF c.has < w THEN Ceil8(w - c.has) ELSE 0
             IN [at |-> c.at + more, has |-> c.has + 8 * more]
Drop(c, w) == [c EXCEPT !.has = @ - w]

Cursor == [at |-> at, has |-> has]
Enough(c) == c.at <= Whole(stream) - cut
Moves(c) == at' = c.at /\ has' = c.has

Fails(how) == /\ pc' = how /\ r' = << >>
              /\ UNCHANGED <<source, at, has, cur, sym, last_at>>

\* "while (!bfinal)"
BlockDone == pc' = IF stream[cur].final THEN "trailer" ELSE "block"
-----------------------------------------------------------------------------
Init ==
    /\ stream \in Streams /\ cut \in 0..Whole(stream) /\ xnfo \in BOOLEAN /\ header \in Headers
    \* a caller that asks for the trailer has a source that is not cut inside it
    /\ xnfo => cut \notin 1..4
    /\ pc = "header" /\ at = 0 /\ has = 0 /\ cur = 0 /\ sym = 0 /\ r = << >> /\ last_at = 0

\* another method than deflate, a window beyond 32 K or a preset dictionary
Refused == header.cm # 8 \/ header.cinfo > 7 \/ header.fdict

\* cmf and flg, whose check bits are not looked at
Header ==
    /\ pc = "header"
    /\ \/ /\ Enough([at |-> 2]) /\ ~Refused
          /\ at' = 2 /\ pc' = "block"
          /\ UNCHANGED <<source, has, cur, sym, r, last_at>>
       \/ (~Enough([at |-> 2]) \/ Refused) /\ Fails("exitf")

\* bfinal and btype, of the block that starts where the reader is
BlockHeader ==
    /\ pc = "block"
    /\ LET c == Acc(Cursor, 3)
           here == {i \in 1..Len(stream) : EndOf(stream, i - 1) = 8 * at - has}
       IN \/ ~Enough(c) /\ Fails("exitf")
          \/ Enough(c) /\ here = {} /\ Fails("lost")
          \/ /\ Enough(c)
             /\ \E i \in here : cur' = i /\ pc' = stream[i].kind
             /\ Moves(Drop(c, 3)) /\ sym' = 0
             /\ UNCHANGED <<source, r, last_at>>

\* mutant: the bits up to the next byte are kept
StoredKeepsBits ==
    /\ pc = "stored"
    /\ LET b == stream[cur]
       IN \/ at # Ceil8(EndOf(stream, cur - 1) + 3) /\ Fails("lost")
          \/ ~Enough([at |-> at + 4 + b.len]) /\ Fails("exitf")
          \/ /\ at = Ceil8(EndOf(stream, cur - 1) + 3) /\ Enough([at |-> at + 4 + b.len])
             /\ at' = at + 4 + b.len
             /\ r' = r \o Data(b)
             /\ BlockDone
             /\ UNCHANGED <<source, has, cur, sym, last_at>>

\* mutant: len is skipped and its complement is not
StoredForgetsNlen ==
    /\ pc = "stored"
    /\ LET b == stream[cur]
       IN \/ at # Ceil8(EndOf(stream, cur - 1) + 3) /\ Fails("lost")
          \/ ~Enough([at |-> at + 4 + b.len]) /\ Fails("exitf")
          \/ /\ at = Ceil8(EndOf(stream, cur - 1) + 3) /\ Enough([at |-> at + 4 + b.len])
             /\ has' = has - (has % 8)
             /\ at' = at + 2 + b.len
             /\ r' = r \o Data(b)
             /\ BlockDone
             /\ UNCHANGED <<source, cur, sym, last_at>>

\* btype 0: len is read at the cursor, even when acc holds whole bytes before it
StoredBlock ==
    /\ pc = "stored"
    /\ LET b == stream[cur]
       IN \/ at # Ceil8(EndOf(stream, cur - 1) + 3) /\ Fails("lost")
          \/ ~Enough([at |-> at + 4 + b.len]) /\ Fails("exitf")
          \/ Enough([at |-> at + 4 + b.len]) /\ Fails("OOM")
          \/ /\ at = Ceil8(EndOf(stream, cur - 1) + 3) /\ Enough([at |-> at + 4 + b.len])
             /\ has' = has - (has % 8)
             /\ at' = at + 4 + b.len
             /\ r' = r \o Data(b)
             /\ BlockDone
             /\ UNCHANGED <<source, cur, sym, last_at>>

\* btype 1; btype 3, which no stream has, is refused in the same way
FixedCodes == pc = "fixed" /\ Fails("exitf")

\* btype 2: hlit, hdist, hclen and the tables
CodeTables ==
    /\ pc = "coded" /\ sym = 0
    /\ LET c == Acc(Cursor, stream[cur].tables)
       IN \/ (~Enough(c) \/ ~stream[cur].found) /\ Fails("exitf")
          \/ /\ Enough(c) /\ stream[cur].found
             /\ Moves(Drop(c, stream[cur].tables)) /\ sym' = 1
             /\ UNCHANGED <<source, pc, cur, r, last_at>>

\* The symbol to read, and the cursor after its code and after all its parts: a code is looked
\* for among 15 bits, from length 2; that of a distance among 9.
Symbol == stream[cur].syms[sym]
AfterCode == Drop(Acc(Cursor, 15), Symbol.code)
AfterCopy ==
    LET e == Drop(Acc(AfterCode, Symbol.extra), Symbol.extra)
        d == Drop(Acc(e, 9), Symbol.dcode)
    IN Drop(Acc(d, Symbol.dextra), Symbol.dextra)

CodeFound == Enough(AfterCode) /\ Symbol.code \in 2..15
DistFound == Enough(AfterCopy) /\ Symbol.dcode \in 2..9
Reading(kind) == pc = "coded" /\ sym # 0 /\ Symbol.kind = kind

Literal ==
    /\ Reading("lit") /\ CodeFound
    /\ \/ /\ r' = Append(r, Symbol.byte) /\ Moves(AfterCode) /\ sym' = sym + 1
          /\ UNCHANGED <<source, pc, cur, last_at>>
       \/ Fails("OOM")

\* mutant: one move, as if what is copied could not overlap what it is copied to
CopiedAtOnce(o, len, dist) ==
    o \o [i \in 1..len |-> IF i <= dist THEN o[Len(o) - dist + i] ELSE 0]

\* the loop "r.ptr[r.len+h] = r.ptr[r.len-dist+h]"
Copied(o, len, dist) ==
    LET upTo[h \in 0..len] ==
            IF h = 0 THEN o ELSE Append(upTo[h - 1], upTo[h - 1][Len(o) - dist + h])
    IN upTo[len]

Copy ==
    /\ Reading("copy") /\ CodeFound /\ DistFound
    /\ \/ /\ r' = Copied(r, Symbol.len, Symbol.dist) /\ Moves(AfterCopy) /\ sym' = sym + 1
          /\ UNCHANGED <<source, pc, cur, last_at>>
       \/ Fails("OOM")

EndOfBlock ==
    /\ Reading("end") /\ CodeFound
    /\ Moves(AfterCode) /\ BlockDone
    /\ UNCHANGED <<source, cur, sym, r, last_at>>

NoCode ==
    /\ pc = "coded" /\ sym # 0
    /\ CodeFound => Symbol.kind = "copy" /\ ~DistFound
    /\ Fails("exitf")

Return ==
    /\ pc = "trailer" /\ pc' = "done"
    /\ \/ xnfo /\ last_at' = at /\ has' = has - (has % 8)
       \/ ~xnfo /\ UNCHANGED <<last_at, has>>
    /\ UNCHANGED <<source, at, cur, sym, r>>

Next == \/ Header \/ BlockHeader \/ StoredBlock \/ FixedCodes \/ CodeTables
        \/ Literal \/ Copy \/ EndOfBlock \/ NoCode \/ Return

Spec == Init /\ [][Next]_vars
-----------------------------------------------------------------------------
(* Properties *)

\* What this reader is made for: no fixed codes, tables written in codes of their own, codes of
\* 2 to 15 bits and of 2 to 9 for distances, and no stored block after a coded one, whose last
\* look-ahead it would skip.
Readable(s) ==
    \A i \in DOMAIN s :
        /\ s[i].kind # "fixed"
        /\ s[i].kind = "stored" => i = 1 \/ s[i - 1].kind = "stored"
        /\ s[i].kind = "coded" =>
            /\ s[i].found
            /\ \A j \in DOMAIN s[i].syms :
                /\ s[i].syms[j].code \in 2..15
                /\ s[i].syms[j].kind = "copy" => s[i].syms[j].dcode \in 2..9

\* The cursor stays inside what there is of the stream, and the accumulator between two symbols
\* holds at most the 22 bits a look-ahead of 15 may load less the 2 of the shortest code.
TypeOK ==
    /\ pc \in {"header", "block", "stored", "coded", "fixed", "trailer", "done", "exitf", "OOM",
               "lost"}
    /\ at \in 0..(Whole(stream) - cut) /\ has \in 0..20 /\ has <= 8 * at
    /\ cur \in 0..Len(stream) /\ sym \in Nat /\ last_at \in 0..at

\* A stream that is read to its end gives exactly the bytes it stands for, and one that was cut
\* anywhere before its trailer never gets there.
DecodesExactly == pc = "done" => r = Expansion(stream) /\ cut <= 4

\* A whole stream of the readable kind, with a header that is not refused, is neither refused
\* later, for instance by looking ahead beyond its end, nor misread, wherever in a byte its
\* blocks start.
ReadableIsRead == Readable(stream) /\ cut = 0 /\ ~Refused => pc \notin {"exitf", "lost"}

\* After a stored block the trailer is read where it is (the comment on compressions.h 311
\* leaves the other case open).
TrailerFound == pc = "done" /\ xnfo /\ stream[Len(stream)].kind = "stored"
                => last_at = Trailer(stream)
=============================================================================
