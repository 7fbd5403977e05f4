------------------------------- MODULE Paras --------------------------------
(***************************************************************************)
(* The assemblers and disassemblers that utils/paras.h generates, and the  *)
(* two switch instructions jvm.h writes itself.  An instruction has its    *)
(* name, its codes and masks, its format, a sequence of literals and       *)
(* conversions, and for each conversion the bytes of its operand; or it is *)
(* a switch.  A disassembled line ends in a comment, of which only the ';' *)
(* is kept.  Sources have no character 0.                                  *)
(***************************************************************************)
EXTENDS Text

CONSTANT ArgLimit   \* 2 ^ 31, for the ints that are scanned
ASSUME ArgLimitAssumption == ArgLimit \in Nat \ {0}

Semicolon == 59
Comma == 44
Open == 91
Close == 93
Dot == 46

Lit(c) == [is |-> "lit", c |-> c]
Signed(plus) == [is |-> "int", plus |-> plus]
Unsigned == [is |-> "unsigned", plus |-> FALSE]
Word == [is |-> "word", plus |-> FALSE]

\* an operand: where its bytes begin, the highest first, and how many they are
Op(at, size, signed) == [at |-> at, size |-> size, signed |-> signed]
-----------------------------------------------------------------------------
(* Disassembling *)

RECURSIVE Decimal(_)
Decimal(n) == IF n < 10 THEN <<Zero + n>> ELSE Append(Decimal(n \div 10), Zero + (n % 10))
Sign(n, plus) == IF n < 0 THEN <<Minus>> ELSE IF plus THEN <<Plus>> ELSE << >>
Printed(n, plus) ==
    Sign(n, plus) \o Decimal(IF n < 0 THEN -n ELSE n)

\* the operand's number at byte p of src
Operand(src, p, op) ==
    LET bytes == SubSeq(src, p + op.at + 1, p + op.at + op.size)
        top == IF op.signed /\ bytes[1] >= 128 THEN bytes[1] - 256 ELSE bytes[1]
    IN FoldLeft(LAMBDA m, b : 256 * m + b, top, Tail(bytes))

\* "???" for a number without a word
WordOf(words, n) == IF n \in DOMAIN words THEN words[n] ELSE <<63, 63, 63>>

\* the text of a format, whose conversions print the operands in their order
FormatText(ins, src, p) ==
    LET convs(j) == Len(SelectSeq(SubSeq(ins.format, 1, j), LAMBDA t : t.is # "lit"))
        text(j) ==
            LET t == ins.format[j]
            IN IF t.is = "lit" THEN <<t.c>>
               ELSE LET n == Operand(src, p, ins.ops[convs(j)])
                    IN IF t.is = "word" THEN WordOf(ins.words, n) ELSE Printed(n, t.plus)
    IN FlattenSeq([j \in DOMAIN ins.format |-> text(j)])

Word32(src, p) == Operand(src, p, Op(0, 4, TRUE))
\* past the opcode at p to the next multiple of 4
Aligned(p) == (p \div 4 + 1) * 4

\* _jvm_tableswitch_f: the text, and where the instruction ends
TableText(src, p) ==
    LET q == Aligned(p)
        lo == Word32(src, q + 4)
        hi == Word32(src, q + 8)
        off(n) == <<Comma, Blank>> \o Printed(Word32(src, q + 8 + 4 * n), TRUE)
    IN [text |-> Printed(Word32(src, q), TRUE) \o <<Comma, Blank, Open>> \o Printed(lo, FALSE)
                 \o <<Dot, Dot>> \o Printed(hi, FALSE) \o <<Close>>
                 \o FlattenSeq([n \in 1..(hi - lo + 1) |-> off(n)]),
        at |-> q + 12 + 4 * (hi - lo + 1)]
\* _jvm_lookupswitch_f
LookupText(src, p) ==
    LET q == Aligned(p)
        np == Word32(src, q + 4)
        pair(n) == <<Comma, Blank, 40>> \o Printed(Word32(src, q + 8 * n), FALSE)
                   \o <<Comma, Blank>> \o Printed(Word32(src, q + 8 * n + 4), TRUE) \o <<41>>
    IN [text |-> Printed(Word32(src, q), TRUE) \o <<Comma, Blank, Open>> \o Printed(np, FALSE)
                 \o <<Close>> \o FlattenSeq([n \in 1..np |-> pair(n)]),
        at |-> q + 8 + 8 * np]

\* the bytes at p match the codes where the masks say so
Fits(ins, src, p) ==
    /\ p + Len(ins.codes) <= Len(src)
    /\ \A k \in DOMAIN ins.codes : (IF ins.masks[k] = 0 THEN 0 ELSE src[p + k]) = ins.codes[k]

\* the padding to column 24, which beyond it grows again
Comment(len) == [i \in 1..(IF len < 24 THEN 24 - len ELSE len - 24) |-> Blank] \o <<Semicolon, Line>>

LineOf(ins, src, p) ==
    CASE ins.kind = "plain" ->
            LET text == ins.name \o <<Blank>> \o FormatText(ins, src, p)
            IN [text |-> text \o Comment(Len(text)), at |-> p + Len(ins.codes)]
      [] OTHER ->
            LET x == IF ins.kind = "table" THEN TableText(src, p) ELSE LookupText(src, p)
            IN [text |-> ins.name \o <<Blank>> \o x.text \o Comment(0), at |-> x.at]

\* paras_disasm: the text, and how far it got
RECURSIVE DisasmFrom(_, _, _, _)
DisasmFrom(instrs, src, p, res) ==
    LET k == SelectInSeq(instrs, LAMBDA ins : Fits(ins, src, p))
        line == LineOf(instrs[k], src, p)
    IN IF p >= Len(src) \/ k = 0 THEN [text |-> res, at |-> p]
       ELSE DisasmFrom(instrs, src, line.at, res \o line.text)
paras_disasm(instrs, src) == DisasmFrom(instrs, src, 0, << >>)
-----------------------------------------------------------------------------
(* Assembling: "at" counts the characters read, text is the source and then *)
(* the "past" that memory holds behind it *)

EndOfWord(opened) == {Blank, Tab, Line, Semicolon, Comma, Plus, Minus} \cup (IF opened THEN {} ELSE {Close})

\* the next place from at on where the source ends or satisfies P
NextPlace(src, at, P(_)) == Min({i \in at..Len(src) : i = Len(src) \/ P(src[i + 1])})
AtText(src, at) == NextPlace(src, at, LAMBDA c : c \notin Blanks)
AtLine(src, at) == NextPlace(src, at, LAMBDA c : c = Line)

Start(at) == [ok |-> TRUE, at |-> at, args |-> << >>]

Taken(c, number) ==
    IF number = {} THEN [c EXCEPT !.ok = FALSE]
    ELSE LET n == CHOOSE n \in number : TRUE
         IN [c EXCEPT !.at = n.end - 1, !.args = Append(@, n.val)]

\* one token of a format, from a cursor with the arguments so far
ScanToken(src, past, t, c) ==
    LET text == src \o past
        here == text[c.at + 1]
        word == NextPlace(src, c.at, LAMBDA d : d \in EndOfWord(here = Open))
    IN CASE t.is = "lit" /\ t.c = Blank -> [c EXCEPT !.at = AtText(src, @)]
         [] t.is = "lit" /\ t.c # Blank -> IF here = t.c THEN [c EXCEPT !.at = @ + 1]
                                                           ELSE [c EXCEPT !.ok = FALSE]
         [] t.is = "word" -> [c EXCEPT !.at = word, !.args = Append(@, SubSeq(text, c.at + 1, Len(text)))]
         [] t.is \in {"int", "unsigned"} ->
               Taken(c, IF t.is = "unsigned" /\ here = Minus THEN {}
                        ELSE NumberAt(text, Len(src), c.at + 1, FALSE, ArgLimit))

\* the end of the line behind a format that was scanned up to place i: blanks,
\* and a comment or the end of the source, but no end of a line behind blanks
LineEnds(src, i) ==
    LET at == IF i >= Len(src) \/ src[i + 1] = Line THEN i ELSE AtText(src, i)
    IN [ok |-> at >= Len(src) \/ src[at + 1] = Semicolon \/ (at = i /\ src[i + 1] = Line), at |-> at]

\* _paras_scan from place "at": what is scanned when it fails stays read, when
\* only what is behind it is wrong
RECURSIVE ScanFrom(_, _, _, _)
ScanFrom(src, past, f, c) ==
    IF ~c.ok \/ f = << >> \/ c.at >= Len(src) \/ src[c.at + 1] \in {Line, Semicolon}
    THEN [c EXCEPT !.ok = @ /\ f = << >>]
    ELSE ScanFrom(src, past, Tail(f), ScanToken(src, past, Head(f), c))
Scanned(src, at, c) ==
    LET end == LineEnds(src, c.at)
    IN IF c.ok THEN [c EXCEPT !.ok = end.ok, !.at = end.at] ELSE [c EXCEPT !.at = at]
_paras_scan(src, past, at, f) == Scanned(src, at, ScanFrom(src, past, f, Start(at)))

BytesOf(n, size) == [k \in 1..size |-> (n \div 256 ^ (size - k)) % 256]

\* the number of the word an argument begins with
NumberOf(words, arg) == {n \in DOMAIN words : SubSeq(arg, 1, Len(words[n])) = words[n]}
\* the number of argument k, none where the word is not one
Argument(ins, args, k) ==
    LET conv == SelectSeq(ins.format, LAMBDA t : t.is # "lit")[k]
    IN IF conv.is = "word" THEN NumberOf(ins.words, args[k]) ELSE {args[k]}

\* the bytes of an instruction whose operands are the arguments
Encoded(ins, args) ==
    LET put(bytes, k) ==
            LET op == ins.ops[k]
                n == CHOOSE n \in Argument(ins, args, k) : TRUE
            IN SubSeq(bytes, 1, op.at) \o BytesOf(n, op.size)
               \o SubSeq(bytes, op.at + op.size + 1, Len(bytes))
    IN FoldLeft(put, ins.codes, [k \in DOMAIN ins.ops |-> k])

\* "junk" stands where the code moves res->len and writes nothing
Padding(len, junk) == [i \in 1..((4 - (len % 4)) % 4) |-> junk]

\* f scanned behind cursor c, whatever follows it: true scan failures are not
\* seen by the code, and leave what it uses next unset
ToLineEnd(line, d) == IF d.ok THEN [d EXCEPT !.at = LineEnds(line, @).at] ELSE d
Piece(line, past, f, c) == ToLineEnd(line, ScanFrom(line, past, f, c))
Pieces(line, past, f, n, c) ==
    FoldLeft(LAMBDA d, i : IF d.ok THEN Piece(line, past, f, d) ELSE d, c, [i \in 1..n |-> i])

TableHead == <<Signed(TRUE), Lit(Comma), Lit(Blank), Lit(Open), Signed(FALSE), Lit(Dot), Lit(Dot),
               Signed(FALSE), Lit(Close)>>
LookupHead == <<Signed(TRUE), Lit(Comma), Lit(Blank), Lit(Open), Unsigned, Lit(Close)>>
Offset == <<Lit(Comma), Lit(Blank), Signed(TRUE)>>
Pair == <<Lit(Comma), Lit(Blank), Lit(40), Signed(FALSE), Lit(Comma), Lit(Blank), Signed(TRUE),
          Lit(41)>>

\* _jvm_tableswitch_e and _jvm_lookupswitch_e: the numbers of a line, in the
\* order the code has them, nothing where it uses one that was not set
AllNumbers(kind, line, past, head) ==
    IF ~head.ok THEN head
    ELSE IF kind = "table"
         THEN Pieces(line, past, Offset, head.args[3] - head.args[2] + 1, head)
         ELSE Pieces(line, past, Pair, head.args[2], head)
SwitchNumbers(kind, line, past) ==
    LET head == Piece(line, past, IF kind = "table" THEN TableHead ELSE LookupHead, Start(0))
        all == AllNumbers(kind, line, past, head)
    IN IF all.ok THEN {all.args} ELSE {}

\* mutant: the padding is counted from the instruction, not from the code
PadOfOne(res, junk) == Padding(1, junk)
PadAfter(res, junk) == Padding(Len(res) + 1, junk)
SwitchBytes(opcode, numbers, res, junk) ==
    <<opcode>> \o PadAfter(res, junk)
    \o FlattenSeq([k \in DOMAIN numbers |-> BytesOf(numbers[k], 4)])

\* the line from "at" that encode_x is given: without comment or blanks behind it
OperandLine(src, at) ==
    LET end == NextPlace(src, at, LAMBDA c : c \in {Line, Semicolon})
        last == Max({k \in at..end : k <= at + 1 \/ src[k] \notin Blanks})
    IN [text |-> SubSeq(src, at + 1, last), rest |-> SubSeq(src, last + 1, Len(src)), end |-> end]

IsNamed(ins, text, word) ==
    LET n == Len(ins.name)
    IN /\ SubSeq(text, word + 1, word + n) = ins.name
       /\ text[word + n + 1] \in {Blank, Tab, Line, Semicolon}

Operands(ins, at, c) ==
    LET valid == c.ok => \A k \in DOMAIN ins.ops : Argument(ins, c.args, k) # {}
    IN [bytes |-> IF c.ok /\ valid THEN {Encoded(ins, c.args)} ELSE {},
        at |-> IF valid THEN c.at ELSE at]

\* instruction ins where its operands are at "at": the bytes, nothing where they
\* are not its operands, and the place to go on from
Attempt(ins, src, past, at, res, junk) ==
    IF ins.kind = "plain" THEN Operands(ins, at, _paras_scan(src, past, at, ins.format))
    ELSE LET line == OperandLine(src, at)
             numbers == SwitchNumbers(ins.kind, line.text, line.rest \o past)
         IN [bytes |-> {SwitchBytes(ins.codes[1], n, res, junk) : n \in numbers},
             at |-> IF numbers = {} THEN at ELSE AtLine(src, line.end)]

\* the instructions one after the other, for the word at "word"
Tried(instrs, src, past, word, at, res, junk) ==
    FoldLeft(LAMBDA t, ins : IF t.bytes # {} \/ ~IsNamed(ins, src \o past, word) THEN t
                             ELSE Attempt(ins, src, past, t.at, res, junk),
             [bytes |-> {}, at |-> at], instrs)

\* paras_asmbl: the bytes, nothing where it returns 0.  A word that the source
\* ends with is not looked at.
RECURSIVE AsmblFrom(_, _, _, _, _, _)
AsmblFrom(instrs, src, past, junk, at, res) ==
    LET word == NextPlace(src, at, LAMBDA c : c \notin {Blank, Tab, Line})
        behind == AtText(src, NextPlace(src, word, LAMBDA c : c \in {Blank, Tab, Line}))
        t == Tried(instrs, src, past, word, behind, res, junk)
    IN IF at >= Len(src) THEN {res}
       ELSE IF behind >= Len(src) \/ src[word + 1] = Semicolon
            THEN AsmblFrom(instrs, src, past, junk, AtLine(src, behind), res)
       ELSE UNION {AsmblFrom(instrs, src, past, junk, t.at, res \o bytes) : bytes \in t.bytes}
paras_asmbl(instrs, src, past, junk) == AsmblFrom(instrs, src, past, junk, 0, << >>)
=============================================================================
