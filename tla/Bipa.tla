-------------------------------- MODULE Bipa --------------------------------
(***************************************************************************)
(* The builders and parsers that the macros of utils/bipa.h generate.      *)
(* A format is a record for what the macros are given:                     *)
(*   Void, UInt(size, big), Cstr(sentinel), Lstr(length), Packed(..),      *)
(*   Struct(fields), Union(kinds), Array(item, while).                     *)
(* A length and a "while" are C expressions over self, the struct being    *)
(* built or parsed; the ones the library uses are given by the path of the *)
(* field they read.  A value of a format is: the bytes of a number, least  *)
(* significant first; the bytes of a string; the widths' values of packed  *)
(* fields; the sequence of a struct's fields or of an array's items; the   *)
(* kind and the value of a union.  What a dump prints is left out.         *)
(***************************************************************************)
EXTENDS Integers, Sequences, SequencesExt

Void == [of |-> "void"]
UInt(size, big) == [of |-> "uint", size |-> size, big |-> big]
Cstr(sentinel) == [of |-> "cstr", sentinel |-> sentinel]
Lstr(path) == [of |-> "lstr", length |-> path]
Packed(under, widths) == [of |-> "packed", under |-> under, widths |-> widths]
Struct(fields) == [of |-> "struct", fields |-> fields]
Kind(tag, is, f) == [tag |-> tag, is |-> is, val |-> f]
Union(kinds) == [of |-> "union", kinds |-> kinds]
Array(item, while) == [of |-> "array", item |-> item, while |-> while]

\* k + less < self->path;  k == !(mask & self->path);
\* !memcmp(src->ptr+*at, bytes, 4);  *at < src->len
Count(path, less) == [is |-> "count", path |-> path, less |-> less]
Flagged(path, mask) == [is |-> "flagged", path |-> path, mask |-> mask]
Signature(bytes) == [is |-> "signature", bytes |-> bytes]
More == [is |-> "more"]
\* !k || it->ptr[k-1].field != bytes, in the order of a value
Until(field, bytes) == [is |-> "until", field |-> field, bytes |-> bytes]
-----------------------------------------------------------------------------
(* Numbers *)

\* the number that bytes are, and the size bytes of a number
Number(bytes) == FoldRight(LAMBDA b, n : b + 256 * n, bytes, 0)
Bytes(n, size) == [i \in 1..size |-> (n \div 256 ^ (i - 1)) % 256]

Ordered(f, bytes) == IF f.big THEN Reverse(bytes) ELSE bytes

\* what is at the end of a path into self
At(self, path) == FoldLeft(LAMBDA v, i : v[i], self, path)

\* the bits before field i of a packed format
Before(widths, i) == FoldLeft(+, 0, SubSeq(widths, 1, i - 1))
Joined(widths, v) ==
    FoldLeftDomain(LAMBDA it, i : it + v[i] * 2 ^ Before(widths, i), 0, widths)

\* mutant: a field starts where its own width says, not where the others end
SplitUnshifted(widths, it) == [i \in DOMAIN widths |-> it % 2 ^ widths[i]]
Split(widths, it) == [i \in DOMAIN widths |-> (it \div 2 ^ Before(widths, i)) % 2 ^ widths[i]]
-----------------------------------------------------------------------------
(***************************************************************************)
(* Building: res is the buf, "left" how many more allocations succeed,     *)
(* "fits" whether every byte was written inside the capacity.              *)
(***************************************************************************)
EmptyBuf(left) == [ok |-> TRUE, bytes |-> << >>, cap |-> 0, left |-> left, fits |-> TRUE]

\* dyarr_resize(res, res->cap ? res->cap*2 : empty)
Resized(res, empty) ==
    IF res.left = 0 THEN [res EXCEPT !.ok = FALSE]
    ELSE [res EXCEPT !.left = @ - 1, !.cap = IF @ # 0 THEN @ * 2 ELSE empty]

\* mutant: the capacity is compared with the first byte only
RoomForFirst(res, n) ==
    IF res.cap <= Len(res.bytes) THEN Resized(res, IF n = 1 THEN 8 ELSE 16) ELSE res
\* room for a number of n bytes: at most one doubling; dyarr_push starts with 8
Room(res, n) ==
    IF res.cap <= Len(res.bytes) + n - 1 THEN Resized(res, IF n = 1 THEN 8 ELSE 16) ELSE res

\* room for the n bytes of a string: as many doublings as it takes
RECURSIVE RoomFor(_, _)
RoomFor(res, n) == IF res.ok /\ res.cap <= Len(res.bytes) + n THEN RoomFor(Resized(res, 16), n)
                                                              ELSE res

Put(res, bytes) ==
    IF ~res.ok THEN res
    ELSE [res EXCEPT !.bytes = @ \o bytes,
                     !.fits = @ /\ Len(res.bytes) + Len(bytes) <= res.cap]

RECURSIVE Build(_, _, _, _)

BuildLstr(f, v, self, res) ==
    LET len == Number(At(self, f.length))
    IN IF len = 0 THEN res ELSE Put(RoomFor(res, len), SubSeq(v, 1, len))

BuildStruct(f, v, res) ==
    FoldLeftDomain(LAMBDA r, i : IF r.ok THEN Build(f.fields[i], v[i], v, r) ELSE r,
                   res, f.fields)

BuildUnion(f, v, res) ==
    IF v.tag \notin DOMAIN f.kinds THEN [res EXCEPT !.ok = FALSE]
    ELSE LET k == f.kinds[v.tag]
             r == Build(k.tag, k.is, v, res)
         IN IF r.ok THEN Build(k.val, v.val, v, r) ELSE r

BuildArray(f, v, res) ==
    FoldLeft(LAMBDA r, it : IF r.ok THEN Build(f.item, it, v, r) ELSE r, res, v)

\* bipa_build_f of value v, which is in self
Build(f, v, self, res) ==
    CASE f.of = "void"   -> res
      [] f.of = "uint"   -> Put(Room(res, f.size), Ordered(f, v))
      [] f.of = "cstr"   -> Put(RoomFor(res, Len(v) + 1), Append(v, f.sentinel))
      [] f.of = "lstr"   -> BuildLstr(f, v, self, res)
      [] f.of = "packed" -> Build(f.under, Bytes(Joined(f.widths, v), f.under.size), v, res)
      [] f.of = "struct" -> BuildStruct(f, v, res)
      [] f.of = "union"  -> BuildUnion(f, v, res)
      [] f.of = "array"  -> BuildArray(f, v, res)
-----------------------------------------------------------------------------
(***************************************************************************)
(* Parsing: a cursor c has the position "at", the value parsed last, how   *)
(* many more allocations succeed, the blocks allocated so far, and "past", *)
(* what memcmp would say of the bytes past the end of the source.          *)
(***************************************************************************)
Cursor(at, left, past) ==
    [ok |-> TRUE, at |-> at, val |-> << >>, left |-> left, blocks |-> 0, past |-> past]

Fail(c) == [c EXCEPT !.ok = FALSE]
Malloc(c) == IF c.left = 0 THEN Fail(c) ELSE [c EXCEPT !.left = @ - 1, !.blocks = @ + 1]

\* mutant: "src->len < (*at)+n-1", which reads one byte past the end, a 0
ParseUIntShort(f, src, c) ==
    IF Len(src) < c.at + f.size - 1 THEN Fail(c)
    ELSE [c EXCEPT !.val = Ordered(f, SubSeq(Append(src, 0), c.at + 1, c.at + f.size)),
                   !.at = @ + f.size]
ParseUInt(f, src, c) ==
    IF Len(src) <= c.at + f.size - 1 THEN Fail(c)
    ELSE [c EXCEPT !.val = Ordered(f, SubSeq(src, c.at + 1, c.at + f.size)), !.at = @ + f.size]

\* mutant: the sentinel is not read
ParseCstrBefore(f, src, c) ==
    LET found == SelectInSubSeq(src, c.at + 1, Len(src), LAMBDA b : b = f.sentinel)
        m == Malloc(c)
    IN IF found = 0 THEN Fail(c)
       ELSE IF ~m.ok THEN m
       ELSE [m EXCEPT !.val = SubSeq(src, c.at + 1, found - 1), !.at = found - 1]
ParseCstr(f, src, c) ==
    LET found == SelectInSubSeq(src, c.at + 1, Len(src), LAMBDA b : b = f.sentinel)
        m == Malloc(c)
    IN IF found = 0 THEN Fail(c)
       ELSE IF ~m.ok THEN m
       ELSE [m EXCEPT !.val = SubSeq(src, c.at + 1, found - 1), !.at = found]

ParseLstr(f, self, src, c) ==
    LET len == Number(At(self, f.length))
        m == Malloc(c)
    IN IF len = 0 THEN [c EXCEPT !.val = << >>]
       ELSE IF Len(src) < c.at + len THEN Fail(c)
       ELSE IF ~m.ok THEN m
       ELSE [m EXCEPT !.val = SubSeq(src, c.at + 1, c.at + len), !.at = @ + len]

RECURSIVE Parse(_, _, _, _)

ParsePacked(f, src, c) ==
    LET r == ParseUInt(f.under, src, c)
    IN IF r.ok THEN [r EXCEPT !.val = Split(f.widths, Number(@))] ELSE r

\* a field finds in self the fields before it
ParseFields(f, src, c) ==
    FoldLeft(LAMBDA r, g : IF ~r.ok THEN r
                           ELSE LET n == Parse(g, r.val, src, r)
                                IN [n EXCEPT !.val = Append(r.val, @)],
             [c EXCEPT !.val = << >>], f.fields)
\* mutant: "(*at) = at_before" is missing
ParseStructOnward(f, src, c) == ParseFields(f, src, c)
ParseStruct(f, src, c) ==
    LET r == ParseFields(f, src, c) IN IF r.ok THEN r ELSE [r EXCEPT !.at = c.at]

ParseKind(k, src, c) ==
    LET t == Parse(k.tag, << >>, src, c)
    IN IF t.ok /\ t.val = k.is THEN Parse(k.val, << >>, src, t) ELSE Fail(t)
\* the kinds in their order, each from where the union starts
ParseUnion(f, src, c) ==
    FoldLeftDomain(LAMBDA r, i :
                       IF r.ok THEN r
                       ELSE LET n == ParseKind(f.kinds[i], src, [r EXCEPT !.ok = TRUE])
                            IN IF n.ok THEN [n EXCEPT !.val = [tag |-> i, val |-> @]]
                                       ELSE [n EXCEPT !.at = c.at],
                   Fail(c), f.kinds)

\* mutant: two bytes are compared
MatchTwo(bytes, src, c) == \A i \in 1..2 : c.at + i <= Len(src) /\ src[c.at + i] = bytes[i]
\* memcmp, which does not know where src ends
Match(bytes, src, c) ==
    LET there == {i \in DOMAIN bytes : c.at + i <= Len(src)}
    IN (\A i \in there : src[c.at + i] = bytes[i]) /\ (there = DOMAIN bytes \/ c.past)

\* the condition for one more item after those in c.val
Holds(while, self, src, c) ==
    LET k == Len(c.val) IN
    CASE while.is = "count" -> k + while.less < Number(At(self, while.path))
      [] while.is = "flagged" ->
            k = 1 - ((Number(At(self, while.path)) \div while.mask) % 2)
      [] while.is = "signature" -> Match(while.bytes, src, c)
      [] while.is = "more" -> c.at < Len(src)
      [] while.is = "until" -> k = 0 \/ c.val[k][while.field] # while.bytes

\* the len at which dyarr_push reallocates, when only it has grown the array
Full(len) == len = 0 \/ \E j \in 0..len : len = 8 * 2 ^ j
Pushed(c, len) ==
    IF ~Full(len) THEN c
    ELSE IF len = 0 THEN Malloc(c)
    ELSE IF c.left = 0 THEN Fail(c) ELSE [c EXCEPT !.left = @ - 1]

\* one more item after those in c.val
ParseOne(f, src, c) ==
    LET p == Pushed(c, Len(c.val))
        r == Parse(f.item, << >>, src, p)
    IN IF ~p.ok THEN p
       ELSE IF r.ok THEN [r EXCEPT !.val = Append(c.val, @)]
       ELSE [r EXCEPT !.at = c.at]

RECURSIVE ParseItems(_, _, _, _)
ParseItems(f, self, src, c) ==
    IF c.ok /\ Holds(f.while, self, src, c)
    THEN ParseItems(f, self, src, ParseOne(f, src, c)) ELSE c

\* bipa_parse_f at cursor c, into a field of self
Parse(f, self, src, c) ==
    CASE f.of = "void"   -> [c EXCEPT !.val = << >>]
      [] f.of = "uint"   -> ParseUInt(f, src, c)
      [] f.of = "cstr"   -> ParseCstr(f, src, c)
      [] f.of = "lstr"   -> ParseLstr(f, self, src, c)
      [] f.of = "packed" -> ParsePacked(f, src, c)
      [] f.of = "struct" -> ParseStruct(f, src, c)
      [] f.of = "union"  -> ParseUnion(f, src, c)
      [] f.of = "array"  -> ParseItems(f, self, src, [c EXCEPT !.val = << >>])
-----------------------------------------------------------------------------
(* Freeing and measuring *)

Total(Op(_), v) == FoldLeftDomain(LAMBDA n, i : n + Op(i), 0, v)

RECURSIVE Freed(_, _)
\* mutant: an array frees its items, not itself
FreedArrayItems(f, v) == Total(LAMBDA i : Freed(f.item, v[i]), v)
FreedArray(f, v) == Total(LAMBDA i : Freed(f.item, v[i]), v) + (IF v = << >> THEN 0 ELSE 1)

\* how many blocks bipa_free_f frees; free(NULL) frees none
Freed(f, v) ==
    CASE f.of = "cstr"   -> 1
      [] f.of = "lstr"   -> IF v = << >> THEN 0 ELSE 1
      [] f.of = "struct" -> Total(LAMBDA i : Freed(f.fields[i], v[i]), v)
      [] f.of = "union"  -> Freed(f.kinds[v.tag].val, v.val)
      [] f.of = "array"  -> FreedArray(f, v)
      [] OTHER           -> 0

RECURSIVE Bytesz(_, _, _)
\* bipa_bytesz_f of value v, which is in self; a cstr does not count its sentinel
Bytesz(f, v, self) ==
    CASE f.of = "void"   -> 0
      [] f.of = "uint"   -> f.size
      [] f.of = "cstr"   -> Len(v)
      [] f.of = "lstr"   -> Number(At(self, f.length))
      [] f.of = "packed" -> f.under.size
      [] f.of = "struct" -> Total(LAMBDA i : Bytesz(f.fields[i], v[i], v), v)
      [] f.of = "union"  -> Bytesz(f.kinds[v.tag].val, v.val, v)
                            + Bytesz(f.kinds[v.tag].tag, f.kinds[v.tag].is, v)
      [] f.of = "array"  -> Total(LAMBDA i : Bytesz(f.item, v[i], v), v)
=============================================================================
