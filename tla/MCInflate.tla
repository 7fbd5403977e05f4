----------------------------- MODULE MCInflate ------------------------------
(* Inflate on streams of one, two and three blocks, starting anywhere in a byte. *)
EXTENDS Inflate

Lit(byte, code) == [kind |-> "lit", byte |-> byte, code |-> code]
End(code) == [kind |-> "end", code |-> code]
CopyOf(len, dist, code, extra, dcode, dextra) ==
    [kind |-> "copy", len |-> len, dist |-> dist, code |-> code, extra |-> extra,
     dcode |-> dcode, dextra |-> dextra]

\* codes from the shortest that can be found to the longest that can be looked ahead for
Texts == {<<End(15)>>, <<End(2)>>, <<Lit(7, 1), End(2)>>, <<Lit(7, 5), Lit(8, 15), End(3)>>}
         \cup {<<Lit(7, 3), Lit(8, c), CopyOf(5, 2, 7, 5, d, 13), End(9)>> :
                   c \in {4, 15}, d \in {2, 9, 10}}

Stored(len, final) == [kind |-> "stored", from |-> 100, len |-> len, final |-> final]
CodedIn(kind, tables, found, syms, final) ==
    [kind |-> kind, tables |-> tables, found |-> found, syms |-> syms, final |-> final]
Coded(kind, final) == {CodedIn(kind, t, TRUE, x, final) :
                          t \in (IF kind = "fixed" THEN {0} ELSE {77, 82}), x \in Texts}
Unfound(final) == CodedIn("coded", 77, FALSE, <<End(2)>>, final)

Firsts == {Stored(0, FALSE), Stored(2, FALSE), Unfound(FALSE)} \cup Coded("coded", FALSE)
Lasts == {Stored(0, TRUE), Stored(3, TRUE), Unfound(TRUE)} \cup Coded("coded", TRUE) \cup Coded("fixed", TRUE)

MCStreams == {<<l>> : l \in Lasts} \cup {<<f, l>> : f \in Firsts, l \in Lasts}
             \cup {<<Stored(1, FALSE), f, Stored(2, TRUE)>> : f \in Firsts}

\* a good header, and one that is wrong in each of the things that are looked at
MCHeaders == {[cm |-> 8, cinfo |-> 7, fdict |-> FALSE], [cm |-> 8, cinfo |-> 8, fdict |-> FALSE],
              [cm |-> 15, cinfo |-> 7, fdict |-> FALSE], [cm |-> 8, cinfo |-> 7, fdict |-> TRUE]}
=============================================================================
