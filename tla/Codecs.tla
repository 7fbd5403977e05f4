------------------------------- MODULE Codecs -------------------------------
(***************************************************************************)
(* The codecs of the library at work: something is made by one call or by  *)
(* several, then read back by the call for the other way.  A task says     *)
(* what is made and of what.                                               *)
(***************************************************************************)
EXTENDS Encodings, Ciphers, Checks, Text, Filters, Buizel, Huffman

CONSTANTS Tasks,    \* records with "of", the codec, and what it is given
          Past      \* what memory holds behind a buf that is read past its end

\* how far a shift may go, either way: up to the length of the range.  Below that
\* C's remainder is negative, and characters leave the range.
Shifts(target) == CASE target = "ROT_ONLY_ALPHA" -> -26..26
                    [] target = "ROT_ONLY_ASCIIPR" -> -94..94
                    [] OTHER -> Int

\* the pixels of an image of the kind the code supports, small enough for the
\* 32 bits its size is computed in, and the filters of its rows, if not dumb
Unfilterable(h, filters, pixels) ==
    /\ h.supported /\ h.width \in Nat \ {0} /\ h.height \in Nat \ {0}
    /\ h.width * h.height <= 2147483647
    /\ pixels \in [1..Size(h) -> 0..255]
    /\ filters # << >> => filters \in [1..h.height -> 0..4]
    /\ 4 \in {filters[i] : i \in DOMAIN filters} => NoWrap(h, pixels) /\ NoTie(h, pixels)

\* a sign or none, the prefix of a base, digits: after no prefix the first is not 0,
\* and the number is one of a long long
Prefixes10 == {<< >>, <<Zero>>}
Prefixed(base) == {<<Zero, c>> : c \in {d \in 65..122 : Base(Lowered(d)) = base}}
\* the value of digits, whatever it is kept in
Value(digits, base) ==
    LET upto[k \in 0..Len(digits)] ==
            IF k = 0 THEN 0
            ELSE base * upto[k - 1] + CHOOSE d \in Digit(digits[k], base) : TRUE
    IN upto[Len(digits)]
SpelledBy(text, n, sign, prefix, base) ==
    LET first == Len(sign) + Len(prefix) + 1
        digits == SubSeq(text, first, Len(text))
    IN /\ text = sign \o prefix \o digits /\ first <= Len(text)
       /\ \A k \in DOMAIN digits : Digit(digits[k], base) # {}
       /\ prefix = << >> => digits[1] # Zero
       /\ Value(digits, base) < LongLong
       /\ n = IF sign = <<Minus>> THEN -Value(digits, base) ELSE Value(digits, base)
Spells(text, n) ==
    \E sign \in {<< >>, <<Plus>>, <<Minus>>} :
       \/ \E prefix \in Prefixes10 : SpelledBy(text, n, sign, prefix, 10)
       \/ \E base \in {2, 8, 16} : \E prefix \in Prefixed(base) : SpelledBy(text, n, sign, prefix, base)

\* a directory, with one '/' behind it or none, and a name, with slashes around it or none
Joinable(to, other, dir, name) ==
    /\ name # << >> /\ \A k \in DOMAIN name : name[k] \notin Slashes
    /\ to = Append(dir, Slash) \/ (to = dir /\ (dir = << >> \/ Last(dir) # Slash))
    /\ \E front \in {<< >>, <<Slash>>}, last \in {<< >>} \cup {<<c>> : c \in Slashes} :
          other = front \o name \o last

\* symbols of a table of lengths and the bits of their codes, with as many bits
\* behind them as are looked at at once; a look-up finds no code of one bit
Decodable(lens, source, bits, short) ==
    LET coded == FlattenSeq([i \in DOMAIN source |-> CanonicalBits(lens, source[i])])
    IN /\ lens \in Seq(0..15) /\ CodesFit(lens)
       /\ source \in Seq({s \in DOMAIN lens : lens[s] # 0})
       /\ ~short => \A s \in DOMAIN lens : lens[s] # 1
       /\ bits \in Seq({0, 1}) /\ IsPrefix(coded, bits) /\ Len(bits) >= Len(coded) + 15

\* the highest that four bytes of UTF-8 hold, of 21 bits: the code has no other limit
HighestCodePoint == 2097151

\* What a task may be.  A read of more than 31 bits is left out: the code shifts
\* its bytes as ints.
Given(t) ==
    CASE t.of = "base64" -> t.source \in Seq(0..255) /\ t.source # << >>
      [] t.of = "utf8" -> t.source \in Seq(0..HighestCodePoint)
      [] t.of = "rot" -> /\ t.source \in Seq(0..255)
                         /\ t.target \in {"ROT_ONLY_ALPHA", "ROT_ONLY_ASCIIPR", "ROT_ALL"}
                         /\ t.shift \in Shifts(t.target)
      [] t.of = "vigenere" -> /\ t.source \in Seq(0..255)
                              /\ t.key \in Seq(65..255) /\ t.key # << >>
      [] t.of \in {"crc", "adler"} -> t.source \in Seq(0..255)
      [] t.of = "rows" -> Unfilterable(t.header, t.filters, t.source)
      [] t.of = "number" -> t.text \in Seq(0..255) /\ Spells(t.text, t.source)
      [] t.of = "path" -> /\ t.source \in Seq(0..255) \X Seq(0..255)
                          /\ Joinable(t.to, t.other, t.source[1], t.source[2])
      [] t.of = "bits" -> /\ t.source \in Seq([n : Nat, value : Nat])
                          /\ t.reads \in Seq(0..31) /\ t.left \in Nat
      [] t.of = "tables" -> Decodable(Lens(t.instrs), t.source, t.bits, t.short)
      [] OTHER -> TRUE
ASSUME TasksAssumption == \A t \in Tasks : Given(t)
ASSUME PastAssumption == Past \in Seq(0..255)

VARIABLES task,
          pc,       \* "new", "made", "read"
          made,     \* what was made, or nothing where exitf was called
          back      \* what was read back of it, or nothing

vars == <<task, pc, made, back>>

Init ==
    /\ task \in Tasks
    /\ pc = "new"
    /\ made = {} /\ back = {}

Make(codec, results) ==
    /\ pc = "new" /\ task.of = codec
    /\ made' = results
    /\ pc' = "made"
    /\ UNCHANGED <<task, back>>
Read(codec, ReadBack(_)) ==
    /\ pc = "made" /\ task.of = codec
    /\ back' = UNION {ReadBack(m) : m \in made}
    /\ pc' = "read"
    /\ UNCHANGED <<task, made>>

Base64 == \/ Make("base64", {b64_encode(task.source)})
          \/ Read("base64", b64_decode)
Utf8 == \/ Make("utf8", {utf8_encode(task.source)})
        \/ Read("utf8", utf8_decode)
Rotated == \/ Make("rot", {rot_cipher(task.source, task.shift, task.target)})
           \/ Read("rot", LAMBDA m : {rot_cipher(m, -task.shift, task.target)})

Vigenere == \/ Make("vigenere", vigenere_cipher(task.source, task.key))
            \/ Read("vigenere", LAMBDA m : vigenere_cipher(m, Inverse26(task.key)))

Checked == \/ Make("crc", {crc32(task.source)})
           \/ Make("adler", {adler32(task.source)})

\* the rows of another program, or of png_filter_dumb
Rows == \/ Make("rows", IF task.filters = << >> THEN png_filter_dumb(task.header, task.source)
                        ELSE {Filtered(task.header, task.filters, task.source)})
        \/ Read("rows", LAMBDA m : png_unfilter(task.header, m))

Number10 == \/ Make("number", {task.text})
            \/ Read("number", LAMBDA m : parsenum(m, Past))

Paths == \/ Make("path", {path_join(task.to, task.other)})
         \/ Read("path", LAMBDA m : {<<path_dirname(m), path_basename(m)>>})

\* a writer used write by write, until one fails; its bytes read back in pieces
Written(writes, left) ==
    LET after[k \in 0..Len(writes)] ==
            IF k = 0 THEN Writer(left)
            ELSE LET w == after[k - 1]
                 IN IF w.ok THEN buizel_write(w, writes[k].n, writes[k].value) ELSE w
    IN after[Len(writes)]
ReadOn(src, r, n) ==
    LET c == buizel_read(src, r.reader, n)
    IN [reader |-> [at |-> c.at, has |-> c.has, acc |-> c.acc],
        vals |-> Append(r.vals, [val |-> c.val, actual |-> c.actual])]
ReadIn(src, sizes) ==
    LET after[k \in 0..Len(sizes)] ==
            IF k = 0 THEN [reader |-> Reader, vals |-> << >>]
            ELSE ReadOn(src, after[k - 1], sizes[k])
    IN after[Len(sizes)]
BitStream == \/ Make("bits", {Written(task.source, task.left)})
             \/ Read("bits", LAMBDA m : {ReadIn(m.bytes, task.reads)})

\* the lengths of a table, then symbols found by it; "short" for the instructions
CodeTable == \/ Make("tables", {Lens(task.instrs)})
             \/ Read("tables", LAMBDA lens :
                    {r.syms : r \in Found(lens, dico(lens), task.bits,
                                         Len(task.source), task.short)})

Next == \/ CodeTable \/ Base64 \/ Utf8 \/ Rotated \/ Vigenere \/ Checked \/ Rows
        \/ Number10 \/ Paths \/ BitStream

Spec == Init /\ [][Next]_vars
-----------------------------------------------------------------------------
The(results) == CHOOSE r \in results : TRUE

\* What a codec made is read back as what it was made of: base64 and UTF-8 (of
\* code points), the ciphers with the opposite shift or key, the pixels of every
\* filter, the numbers but 0, up to their last digit, in every base, a directory and
\* a name that were joined, and symbols in the codes that RFC 1951 gives their
\* lengths, by inflate's tables of codes.
Undone ==
    pc = "read" /\ task.of \in {"base64", "utf8", "rot", "vigenere", "rows", "number", "path", "tables"} =>
        back = {IF task.of = "number" THEN [val |-> task.source, end |-> Len(task.text)]
                                      ELSE task.source}

\* the shift of vigenere for place k: by the letters before it
KeyAt(source, key, k) ==
    key[(Cardinality({i \in 1..(k - 1) : Letter(source[i])}) % Len(key)) + 1] - 65

\* What is made is what the standards say: RFC 4648, ISO 3309 and RFC 1950, each
\* said in another way than the code has it, and the layout of RFC 3629 for all
\* of 21 bits, where what it forbids is made of what it forbids and of nothing
\* else; and each letter is turned by the letter of the key that the letters
\* before it have come to.
Standard ==
    pc = "made" =>
        CASE task.of = "base64" -> IsBase64(The(made), task.source)
          [] task.of = "utf8" ->
                \A k \in DOMAIN task.source :
                   LET val == task.source[k]
                       bytes == utf8_encode(<<val>>)
                   IN LayoutOfUtf8(bytes, val) /\ (IsUtf8(bytes) <=> ScalarValue(val))
          [] task.of = "crc" -> IsCrc32(The(made), task.source)
          [] task.of = "adler" -> IsAdler32(The(made), task.source)
          [] task.of = "vigenere" ->
                \A k \in DOMAIN task.source :
                   The(made)[k] = RotAlpha(task.source[k], KeyAt(task.source, task.key, k))
          [] OTHER -> TRUE

BitsOfWrites(writes) == FlattenSeq([k \in DOMAIN writes |-> LowBits(writes[k].value, writes[k].n)])

\* the bits of the first k reads; each asks for more than the one before left of
\* its last byte, and all of them for no more than there is
Asked(reads, k) == SumOf(SubSeq(reads, 1, k))
AsksEnough(reads, len) ==
    /\ Asked(reads, Len(reads)) <= len
    /\ \A k \in DOMAIN reads : reads[k] > (8 - (Asked(reads, k - 1) % 8)) % 8

\* The writer appends the bits it is given and no others, whatever was left of
\* the last byte, and inside the capacity; a write that fails leaves a part of
\* its bits.  Pieces that each ask for more than is left of the last byte are
\* read one behind the other.
BitsKept ==
    /\ pc = "made" /\ task.of = "bits" =>
        LET w == The(made)
            given == BitsOfWrites(task.source)
        IN /\ Len(w.bytes) <= w.cap
           /\ IF w.ok THEN BitsWritten(w) = given ELSE IsPrefix(BitsWritten(w), given)
    /\ pc = "read" /\ task.of = "bits" =>
        LET r == The(back)
            got == FlattenSeq([k \in DOMAIN r.vals |-> LowBits(r.vals[k].val, r.vals[k].actual)])
            all == BitsIn(The(made).bytes)
        IN AsksEnough(task.reads, Len(all)) =>
              /\ IsPrefix(got, all) /\ Len(got) = Asked(task.reads, Len(task.reads))
              /\ buizel_left(The(made).bytes, r.reader) = Len(all) - Len(got)
=============================================================================
