------------------------------ MODULE Library -------------------------------
(***************************************************************************)
(* The codecs, and with them what is made with bipa.h and paras.h: the     *)
(* chunks of an image, built and parsed, and code, disassembled and        *)
(* assembled again.                                                        *)
(***************************************************************************)
EXTENDS Codecs, Png, Paras

CONSTANT Instrs     \* an instruction set of paras.h

\* png_add_chunk for each of the task's, png_data_build, and png_data_parse of
\* what was built and what is behind it
Image == PngOf(FoldLeft(LAMBDA chunks, ch : png_add_chunk(chunks, ch.type, ch.data),
                        << >>, task.source))
Chunks == \/ Make("chunks", {Build(PngData, Image, Image, EmptyBuf(-1)).bytes})
          \/ Read("chunks", LAMBDA m : {Parse(PngData, << >>, m \o task.behind, Cursor(0, -1, FALSE))})

Assembly == \/ Make("code", {paras_disasm(Instrs, task.source).text})
            \/ Read("code", LAMBDA m : paras_asmbl(Instrs, m, Past, task.junk))

LibraryNext == Next \/ Chunks \/ Assembly

LibrarySpec == Init /\ [][LibraryNext]_vars
-----------------------------------------------------------------------------
\* The chunks that were added are parsed back, all of them and nothing of what is
\* behind IEND, with checksums a reader accepts, and what png_find_chunk,
\* png_get_all_data and png_chunknames find there is what was added.
ChunksKept ==
    pc = "read" /\ task.of = "chunks" =>
        LET r == The(back)
            chunks == r.val[2]
            given == task.source
        IN /\ r.ok /\ r.at = Len(The(made)) /\ Len(chunks) = Len(given)
           /\ \A k \in DOMAIN given :
                 /\ chunks[k][2] = given[k].type /\ chunks[k][3] = given[k].data
                 /\ IsCrc32(FlattenSeq([i \in 1..4 |-> ByteBits(chunks[k][4][i])]),
                            Reverse(given[k].type) \o given[k].data)
                 /\ png_find_chunk(chunks, given[k].type) =
                       {given[Min({i \in DOMAIN given : given[i].type = given[k].type})].data}
           /\ png_get_all_data(chunks) =
                 FlattenSeq([k \in DOMAIN given |-> IF given[k].type = IDAT THEN given[k].data ELSE << >>])
           /\ png_chunknames(chunks) =
                 FlattenSeq([k \in DOMAIN given |-> Append(Reverse(given[k].type), Line)])

\* What was disassembled is assembled to the same length and to bytes that are
\* disassembled to the same text: only the padding of switches may differ.  This
\* asks for operands that are not 0, which the scanner does not read.
Reassembled ==
    pc = "read" /\ task.of = "code" =>
        /\ Cardinality(back) = 1
        /\ Len(The(back)) = Len(task.source)
        /\ {paras_disasm(Instrs, The(back)).text} = made
=============================================================================
