------------------------------ MODULE MCCodecs ------------------------------
(* Inputs around every limit the codecs have: groups of 3 and 4, lengths of *)
(* characters, ends of alphabets, the modulus of adler32, corners of rows,  *)
(* alignments of switches, and the last bits of a byte.                     *)
EXTENDS Library

UpTo(n, S) == UNION {[1..m -> S] : m \in 0..n}

Base64Tasks ==
    {[of |-> "base64", source |-> s] :
        s \in (UpTo(4, {0, 77, 255}) \ {<< >>}) \cup {[i \in 1..n |-> 29 * i] : n \in 5..8}}

Utf8Tasks ==
    {[of |-> "utf8", source |-> s] :
        s \in UpTo(2, {0, 65, 127, 128, 1023, 1024, 2047, 2048, 55295, 55296,
                       57343, 57344, 65535, 65536, 1114111, 1114112, 2097151})}

Corners == <<0, 32, 33, 47, 48, 57, 64, 65, 90, 91, 96, 97, 122, 123, 126, 127, 128, 255>>
RotTasks ==
    {[of |-> "rot", source |-> Corners, shift |-> k, target |-> t] :
        k \in -26..26, t \in {"ROT_ONLY_ALPHA", "ROT_ONLY_ASCIIPR", "ROT_ALL"}}
    \cup {[of |-> "rot", source |-> Corners, shift |-> k, target |-> "ROT_ONLY_ASCIIPR"] :
             k \in {-94, -93, 93, 94}}
    \cup {[of |-> "rot", source |-> Corners, shift |-> k, target |-> "ROT_ALL"] :
             k \in {-300, -256, 256, 300}}

VigenereTasks ==
    {[of |-> "vigenere", source |-> s, key |-> key] :
        s \in UpTo(4, {32, 90, 97}) \cup {Corners}, key \in {<<65>>, <<66, 90>>, <<75, 65, 77>>}}

Checkable == UpTo(2, {0, 1, 128, 255}) \cup {[i \in 1..9 |-> 48 + i]}
CheckTasks == {[of |-> "crc", source |-> s] : s \in Checkable}
              \cup {[of |-> "adler", source |-> s] : s \in Checkable \cup {[i \in 1..n |-> 255] : n \in {22, 60}}}

Header(w, h) == [width |-> w, height |-> h, supported |-> TRUE]
\* a ramp, one that leaves the byte, and two that jump
Pixels(h) == {[n \in 1..Size(h) |-> (k * n + 7) % 256] : k \in {3, 37, 101, 250}}
RowsTasks ==
    {t \in UNION {{[of |-> "rows", header |-> h, filters |-> f, source |-> p] :
                      f \in [1..h.height -> 0..4] \cup {<< >>}, p \in Pixels(h)} :
                     h \in {Header(1, 2), Header(2, 2), Header(2, 3), Header(3, 2)}} :
        4 \in {t.filters[i] : i \in DOMAIN t.filters} =>
            NoWrap(t.header, t.source) /\ NoTie(t.header, t.source)}

Chunk(type, data) == [type |-> type, data |-> data]
IHDR == Type(<<73, 72, 68, 82>>)
ChunksTasks ==
    {[of |-> "chunks", source |-> Append(s, Chunk(IEND, << >>)), behind |-> b] :
        b \in {<< >>, <<7>>, [i \in 1..12 |-> 0]},
        s \in UpTo(3, {Chunk(IHDR, <<1, 2, 3>>), Chunk(IDAT, <<9>>), Chunk(IDAT, << >>),
                       Chunk(IDAT, Reverse(IEND))})}

RECURSIVE InBase(_, _)
InBase(n, b) == IF n < b THEN <<n>> ELSE Append(InBase(n \div b, b), n % b)
Spelled(n, prefix, b, letter) ==
    LET digits == InBase(IF n < 0 THEN -n ELSE n, b)
    IN Sign(n, FALSE) \o prefix
       \o [i \in DOMAIN digits |-> IF digits[i] < 10 THEN Zero + digits[i] ELSE letter + digits[i]]
NumberTask(n, text) == [of |-> "number", source |-> n, text |-> text]
NumberTasks ==
    UNION {{NumberTask(n, Spelled(n, << >>, 10, 0)), NumberTask(n, Spelled(n, <<Zero>>, 10, 0)),
            NumberTask(n, Spelled(n, <<Zero, 98>>, 2, 0)), NumberTask(n, Spelled(n, <<Zero, 79>>, 8, 0)),
            NumberTask(n, Spelled(n, <<Zero, 120>>, 16, 87)),
            NumberTask(n, Spelled(n, <<Zero, 88>>, 16, 55))} :
              n \in {1, 7, 8, 9, 10, 15, 16, 90, 171, 255, 4096, -1, -10, -48,
                     LongLong - 1, 1 - LongLong}}

\* dir with or without a '/' behind it, name with or without one around it
PathTasks ==
    {[of |-> "path", source |-> <<dir, name>>, to |-> dir \o behind, other |-> front \o name \o last] :
        dir \in {<< >>, <<97>>, <<Slash, 97>>, <<97, 92, 98>>}, name \in {<<99>>, <<46, 99>>},
        behind \in {<< >>, <<Slash>>}, front \in {<< >>, <<Slash>>}, last \in {<< >>, <<Slash>>, <<92>>}}

\* some of jvm_bytecode: the names are shortened
Ins(name, codes, masks, format, ops) ==
    [kind |-> "plain", name |-> name, codes |-> codes, masks |-> masks, format |-> format,
     ops |-> ops, words |-> << >>]
Switch(kind, name, code) == [kind |-> kind, name |-> name, codes |-> <<code>>, masks |-> <<255>>]
Local == <<Lit(95), Unsigned>>
TwoArgs == <<Lit(Comma), Lit(Blank)>>
MCInstrs ==
    <<Ins(<<110>>, <<0>>, <<255>>, << >>, << >>),
      Ins(<<98, 112>>, <<16, 0>>, <<255, 0>>, <<Signed(FALSE)>>, <<Op(1, 1, FALSE)>>),
      Ins(<<105>>, <<132, 0, 0>>, <<255, 0, 0>>, Local \o TwoArgs \o <<Signed(FALSE)>>,
          <<Op(1, 1, FALSE), Op(2, 1, FALSE)>>),
      Ins(<<103>>, <<167, 0, 0>>, <<255, 0, 0>>, <<Signed(TRUE)>>, <<Op(1, 2, TRUE)>>),
      Ins(<<119, 105>>, <<196, 21, 0, 0>>, <<255, 255, 0, 0>>, Local, <<Op(2, 2, FALSE)>>),
      Ins(<<105, 105>>, <<185, 0, 0, 0, 0>>, <<255, 0, 0, 0, 255>>,
          <<Lit(35), Unsigned>> \o TwoArgs \o <<Unsigned>>, <<Op(1, 2, FALSE), Op(3, 1, FALSE)>>),
      [Ins(<<97>>, <<188, 0>>, <<255, 0>>, <<Word>>, <<Op(1, 1, FALSE)>>)
          EXCEPT !.words = <<<<105, 110, 116>>, <<108>>>>],
      Switch("table", <<116>>, 170), Switch("lookup", <<108>>, 171)>>

Number32(n) == BytesOf(n, 4)
Opcode(bytes) == [bytes |-> bytes, numbers |-> << >>]
SwitchOf(opcode, numbers) == [bytes |-> <<opcode>>, numbers |-> numbers]
Codes == {Opcode(<<0>>), Opcode(<<16, 200>>), Opcode(<<132, 7, 1>>), Opcode(<<167, 255, 4>>),
          Opcode(<<167, 1, 0>>), Opcode(<<196, 21, 2, 9>>), Opcode(<<185, 1, 2, 3, 0>>),
          Opcode(<<188, 1>>), Opcode(<<188, 2>>), SwitchOf(170, <<-3, 1, 2, 9, 300>>),
          SwitchOf(171, <<70000, 2, 1, -8, 12, 100>>)}
\* the bytes of instructions one behind the other, with ones as padding
Program(codes) ==
    FoldLeft(LAMBDA res, c : res \o c.bytes
                             \o (IF c.numbers = << >> THEN << >>
                                 ELSE Padding(Len(res) + 1, 1)
                                      \o FlattenSeq([k \in DOMAIN c.numbers |-> Number32(c.numbers[k])])),
             << >>, codes)
CodeTasks ==
    {[of |-> "code", source |-> Program(codes), junk |-> 170] : codes \in UpTo(3, Codes)}

Write(n, value) == [n |-> n, value |-> value]
Writes == {Write(0, 0), Write(1, 1), Write(3, 5), Write(8, 150), Write(11, 1365), Write(17, 131071)}
Reads == {<<3, 8>>, <<8, 8, 8>>, <<5, 11>>, <<1, 17>>, <<24>>, <<2, 7, 9>>}
BitsTasks ==
    {[of |-> "bits", source |-> w, reads |-> r, left |-> left] :
        w \in UpTo(3, Writes) \cup {[k \in 1..n |-> Write(17, 70000 + k)] : n \in 6..9},
        r \in Reads, left \in {0, 1, 9}}

\* lengths spelled one by one, or with the instructions that repeat
OneByOne(lens) == [i \in DOMAIN lens |-> [k |-> lens[i], extra |-> 0]]
RECURSIVE Repeats(_)
Repeats(lens) ==
    LET run == Max({n \in 1..Min({Len(lens), 6}) : \A i \in 1..n : lens[i] = lens[1]})
        rest == Repeats(SubSeq(lens, run + 1, Len(lens)))
        first == [k |-> lens[1], extra |-> 0]
    IN IF lens = << >> THEN << >>
       ELSE IF lens[1] = 0 /\ run >= 3 THEN <<[k |-> 17, extra |-> run - 3]>> \o rest
       ELSE IF run >= 4 THEN <<first, [k |-> 16, extra |-> run - 4]>> \o rest
       ELSE [i \in 1..run |-> first] \o rest
\* each symbol that has a code, there and back, with ones behind them
TableTask(lens, instrs, short) ==
    LET syms == SelectSeq([s \in DOMAIN lens |-> s], LAMBDA s : lens[s] # 0)
        text == syms \o Reverse(syms)
    IN [of |-> "tables", instrs |-> instrs, source |-> text, short |-> short,
        bits |-> FlattenSeq([i \in DOMAIN text |-> CanonicalBits(lens, text[i])])
                 \o [i \in 1..15 |-> 1]]
LensOf(S) == {lens \in UNION {[1..n -> S] : n \in 3..5} : CodesFit(lens)}
TableTasks ==
    {TableTask(lens, Repeats(lens), FALSE) : lens \in LensOf({0, 2, 3, 4})}
    \cup {TableTask(lens, OneByOne(lens), TRUE) : lens \in LensOf({0, 1, 2, 4})}
    \cup {TableTask(lens, <<[k |-> 2, extra |-> 0], [k |-> 18, extra |-> 3],
                           [k |-> 2, extra |-> 0], [k |-> 1, extra |-> 0]>>, TRUE) :
             lens \in {<<2>> \o [i \in 1..14 |-> 0] \o <<2, 1>>}}
    \cup {LET lens == CodeLens(read) IN TableTask(lens, OneByOne(lens), TRUE) :
             read \in {<<2, 2, 2, 2>>, <<3, 0, 3, 1, 2>>, [i \in 1..19 |-> IF i < 14 THEN 4 ELSE 5]}}

MCTasks == Base64Tasks \cup Utf8Tasks \cup RotTasks \cup VigenereTasks \cup CheckTasks
           \cup RowsTasks \cup ChunksTasks \cup NumberTasks \cup PathTasks \cup CodeTasks \cup BitsTasks \cup TableTasks
MCPast == <<55, 55, 32>>
=============================================================================
