-------------------------------- MODULE Png ---------------------------------
(***************************************************************************)
(* The chunks of PNG files as tools/images.h has them.  An image is its    *)
(* list of chunks, each as bipa has it.  What may end in exitf gives a     *)
(* set: what is returned, or nothing.  That memory runs out is left out.   *)
(***************************************************************************)
EXTENDS Bipa, Checks

Byte == UInt(1, FALSE)
U32be == UInt(4, TRUE)
Tags(S) == Union(SetToSortSeq({Kind(Byte, <<t>>, Void) : t \in S}, LAMBDA k, l : k.is[1] < l.is[1]))

PngHeader ==
    Struct(<<U32be, U32be, Byte, Tags({0, 2, 3, 4, 6}), Tags({0}), Tags({0}), Tags({0, 1})>>)
PngChunk == Struct(<<U32be, U32be, Lstr(<<1>>), U32be>>)
MagicNumber == Kind(UInt(8, TRUE), <<10, 26, 10, 13, 71, 78, 80, 137>>, Void)

\* png_chunk_type_str
Type(s) == Reverse(s)
IDAT == Type(<<73, 68, 65, 84>>)
IEND == Type(<<73, 69, 78, 68>>)

\* mutant: the chunks end before IEND's own data and checksum are read
PngDataEarly == Struct(<<Union(<<MagicNumber>>), Array(PngChunk, Until(1, Bytes(0, 4)))>>)
PngData == Struct(<<Union(<<MagicNumber>>), Array(PngChunk, Until(2, IEND))>>)
PngOf(chunks) == <<[tag |-> 1, val |-> << >>], chunks>>
-----------------------------------------------------------------------------
(* Chunks *)

\* the bytes of a number from its bits
Packed32(bits) ==
    [i \in 1..4 |-> FoldRight(LAMBDA b, n : b + 2 * n, SubSeq(bits, 8 * i - 7, 8 * i), 0)]

png_add_chunk(chunks, type, data) ==
    Append(chunks, <<Bytes(Len(data), 4), type, data, Packed32(crc32(Reverse(type) \o data))>>)

Named(chunks, type) == SelectSeq(chunks, LAMBDA ch : ch[2] = type)
png_find_chunk(chunks, type) ==
    LET named == Named(chunks, type) IN IF named = << >> THEN {} ELSE {named[1][3]}
png_get_all_data(chunks) ==
    LET idat == Named(chunks, IDAT) IN FlattenSeq([k \in DOMAIN idat |-> idat[k][3]])
png_chunknames(chunks) ==
    FlattenSeq([k \in DOMAIN chunks |-> Append(Reverse(chunks[k][2]), 10)])
=============================================================================
