-------------------------------- MODULE Text --------------------------------
(***************************************************************************)
(* Text of base.h: parsenum, whose way paras.h shares, and paths.          *)
(* Characters are numbers.  C code that looks one character too far finds  *)
(* those of "past", what memory holds behind a buf.  What may end in exitf *)
(* gives a set: what is returned, or nothing.                              *)
(***************************************************************************)
EXTENDS Integers, Sequences, SequencesExt

CONSTANT LongLong   \* 2 ^ 63: a long long is below it, and no less than its opposite
ASSUME LongLongAssumption == LongLong \in Nat \ {0}

\* n as a signed integer of limit has it, that wraps around
Wraps(n, limit) == ((n + limit) % (2 * limit)) - limit

Blank == 32
Tab == 9
Line == 10
Plus == 43
Minus == 45
Zero == 48
Blanks == {Blank, Tab}

\* c | 32
Lowered(c) == IF (c \div 32) % 2 = 0 THEN c + 32 ELSE c

\* b: 98, o: 111, x: 120, else decimal
Base(letter) == CASE letter = 98 -> 2 [] letter = 111 -> 8 [] letter = 120 -> 16 [] OTHER -> 10

\* the value of a digit, none for other characters
Digit(c, base) ==
    {d \in 0..(base - 1) : Lowered(c) = IF d < 10 THEN Zero + d ELSE 87 + d}

\* where the digits from place k of text end: the first is read even behind
\* the first len characters, which are the ones to read
DigitsEnd(text, len, k, base) ==
    Min({e \in k..(len + 3) : /\ \A i \in k..(e - 1) : Digit(text[i], base) # {}
                              /\ (e > k /\ e > len) \/ Digit(text[e], base) = {}})

\* the value of digits, the first the highest, in an integer of limit
ValueOf(digits, base, limit) ==
    LET upto[k \in 0..Len(digits)] ==
            IF k = 0 THEN 0
            ELSE Wraps(base * upto[k - 1] + CHOOSE d \in Digit(digits[k], base) : TRUE, limit)
    IN upto[Len(digits)]

\* the number whose digits begin at place first, and the place after it
NumberOfDigits(text, len, first, base, limit) ==
    LET end == DigitsEnd(text, len, first, base)
    IN IF end = first THEN {}
       ELSE {[val |-> ValueOf(SubSeq(text, first, end - 1), base, limit), end |-> end]}

\* the number at place k, and the place after it, or nothing: after a 0 there must
\* be the letter of a base or a digit; "careful" where the 0 must be among the len;
\* what it is read into has a limit
NumberAt(text, len, k, careful, limit) ==
    LET start == IF text[k] \in {Plus, Minus} THEN k + 1 ELSE k
        zero == text[start] = Zero /\ (careful => start <= len)
        base == IF zero THEN Base(Lowered(text[start + 1])) ELSE 10
        first == IF ~zero THEN start ELSE IF base = 10 THEN start + 1 ELSE start + 2
    IN {[n EXCEPT !.val = IF text[k] = Minus THEN Wraps(-@, limit) ELSE @] :
           n \in NumberOfDigits(text, len, first, base, limit)}

\* the number b starts with, and *ends
parsenum(b, past) ==
    IF b = << >> THEN {[val |-> 0, end |-> 0]}
    ELSE {[n EXCEPT !.end = @ - 1] : n \in NumberAt(b \o past, Len(b), 1, TRUE, LongLong)}
-----------------------------------------------------------------------------
(* Paths of base.h: '/' and '\' end a directory's name, '/' joins two *)

Slash == 47
Slashes == {Slash, 92}

\* k: how far from the end of path the last of Slashes is that is not its last
\* character, the length of path where there is none
FromEnd(path) ==
    LET e == IF Last(path) \in Slashes THEN 1 ELSE 0
    IN Min({k \in e..Len(path) : k = Len(path) \/ path[Len(path) - k] \in Slashes})
path_basename(path) ==
    IF path = << >> THEN path
    ELSE SubSeq(path, Len(path) - FromEnd(path) + 1,
                IF Last(path) \in Slashes THEN Len(path) - 1 ELSE Len(path))
\* of a path that has a directory: for others the code's length is below 0
path_dirname(path) ==
    IF path = << >> THEN path ELSE SubSeq(path, 1, Len(path) - 1 - FromEnd(path))

path_join(to, other) ==
    LET a == to # << >> /\ Last(to) = Slash
        b == other # << >> /\ other[1] = Slash
    IN (IF a /\ b THEN Front(to) ELSE IF ~a /\ ~b THEN Append(to, Slash) ELSE to) \o other
=============================================================================
