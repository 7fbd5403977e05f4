------------------------------- MODULE MCBipa -------------------------------
(* The shapes of format the library uses: the example of bipa.h, the parts *)
(* of zip files and of class files, and numbers around a full capacity.    *)
EXTENDS BipaType, ClassFile

U8 == UInt(1, FALSE)
U16le == UInt(2, FALSE)
U32le == UInt(4, FALSE)
U64le == UInt(8, FALSE)
U16be == UInt(2, TRUE)
U32be == UInt(4, TRUE)
U64be == UInt(8, TRUE)

\* bidoof and maybe_bidoof of the comment of bipa.h
Bidoof == Struct(<<Cstr(0), U32le>>)
MaybeBidoof == Union(<<Kind(U8, <<42>>, Bidoof), Kind(Void, << >>, Void)>>)

\* the signatures, the arrays and the strings of zip_data
Sig(n) == Union(<<Kind(U32le, <<80, 75, n, n + 1>>, Void)>>)
LocalFile == Struct(<<Sig(3), U16le, Lstr(<<2>>)>>)
Header == Struct(<<Sig(1), U16le, U16le, Lstr(<<2>>), Lstr(<<3>>)>>)
End == Struct(<<Sig(5), U16le, Lstr(<<2>>)>>)
ZipData == Struct(<<Array(LocalFile, Signature(<<80, 75, 3, 4>>)),
                Array(Header, Signature(<<80, 75, 1, 2>>)), End>>)
ExtraFields == Struct(<<Array(Struct(<<Struct(<<U16le, U16le>>), Lstr(<<1, 2>>)>>), More)>>)

\* numbers that meet the end of the first capacity, 8 or 16, and of the second
Numbers(n) == Struct([i \in 1..n |-> U8] \o <<U64le, U32be, U16le, U64be>>)
NumbersOf(n) == [i \in 1..n |-> <<i>>]
                \o <<<<1, 2, 3, 4, 5, 6, 7, 8>>, <<9, 8, 7, 6>>, <<1, 2>>, <<8, 7, 6, 5, 4, 3, 2, 1>>>>

Job(fmt, val, own, tagged) ==
    [fmt |-> fmt, val |-> val, own |-> own, tagged |-> tagged, noisy |-> FALSE]
Noisy(j) == [j EXCEPT !.noisy = TRUE]

SigVal == [tag |-> 1, val |-> << >>]
Name == <<110, 97>>
Long == [i \in 1..40 |-> i]
File(s) == <<SigVal, Bytes(Len(s), 2), s>>
Head2(s, t) == <<SigVal, Bytes(Len(s), 2), Bytes(Len(t), 2), s, t>>
ClassVal == [tag |-> 1, val |-> <<<<2, 0>>>>]
LongVal == [tag |-> 8, val |-> <<<<1, 2, 3, 4, 5, 6, 7, 8>>>>]
Utf8(s) == [tag |-> 11, val |-> <<Bytes(Len(s), 2), s>>]
HandleVal == [tag |-> 12, val |-> <<[tag |-> 6, val |-> << >>], <<1, 0>>>>]
FlagsVal == [i \in 1..15 |-> i % 2]
Listed(items) == <<Bytes(Len(items), 2), items>>
AttributeVal(info) == <<<<1, 0>>, Bytes(Len(info), 4), info>>
MemberVal(infos) == <<FlagsVal, <<2, 0>>, <<3, 0>>>> \o Listed([k \in DOMAIN infos |-> AttributeVal(infos[k])])
ClassOf(pool, members, infos) ==
    <<SigVal, <<0, 0>>, <<51, 0>>, Bytes(Len(pool) + 1, 2), pool, FlagsVal, <<1, 0>>, <<2, 0>>>>
    \o Listed([k \in DOMAIN pool |-> <<k, 0>>])
    \o Listed([k \in DOMAIN members |-> MemberVal(members[k])]) \o Listed(<<MemberVal(<<Name>>)>>)
    \o Listed([k \in DOMAIN infos |-> AttributeVal(infos[k])])
CodeOf(code, table) ==
    <<<<2, 0>>, <<1, 0>>, Bytes(Len(code), 4), code>> \o Listed(table)
    \o Listed(<<AttributeVal(code)>>)

MCJobs ==
    {Job(Bidoof, <<s, <<40, 0, 0, 0>>>>, TRUE, TRUE) : s \in {<< >>, Name, Long}}
    \cup {Job(MaybeBidoof, v, TRUE, FALSE) :
             v \in {[tag |-> 1, val |-> <<Name, <<7, 0, 0, 1>>>>], [tag |-> 2, val |-> << >>],
                    [tag |-> 3, val |-> << >>]}}
    \cup {Job(ZipData, <<f, h, <<SigVal, <<2, 0>>, Name>>>>, TRUE, TRUE) :
             f \in {<< >>, <<File(Name)>>, <<File(<< >>), File(Long)>>},
             h \in {<< >>, <<Head2(Name, << >>), Head2(<< >>, Name)>>}}
    \cup {Job(ExtraFields, <<[i \in 1..n |-> <<<<<<i, 0>>, <<2, 0>>>>, Name>>]>>, FALSE, TRUE) :
             n \in {0, 1, 2, 9}}
    \cup {Job(JvmClass, ClassOf(p, m, i), TRUE, TRUE) :
             p \in {<< >>, <<ClassVal, Utf8(Name)>>, <<LongVal, Utf8(<< >>), HandleVal, Utf8(Long)>>},
             m \in {<< >>, <<<<Name, << >>>>, << >>>>}, i \in {<< >>, <<Name>>}}
    \cup {Job(CodeAttribute, CodeOf(c, t), TRUE, TRUE) :
             c \in {<< >>, Name}, t \in {<< >>, <<<<<<1, 0>>, <<2, 0>>, <<3, 0>>, <<0, 0>>>>>>}}
    \cup {Noisy(Job(Bidoof, <<Name, <<1, 0, 0, 0>>>>, TRUE, TRUE)),
          Noisy(Job(MaybeBidoof, [tag |-> 2, val |-> << >>], TRUE, FALSE)),
          Noisy(Job(ExtraFields, <<<< >>>>, FALSE, TRUE)),
          Noisy(Job(CpInfo, Utf8(Name), TRUE, TRUE)),
          Noisy(Job(AttributeInfo, AttributeVal(Name), TRUE, TRUE)),
          Noisy(Job(ConstantValue, <<<<5, 0>>>>, TRUE, TRUE)),
          Noisy(Job(Packed(U8, <<3, 1, 4>>), <<5, 1, 9>>, TRUE, TRUE))}
    \cup {Job(Numbers(n), NumbersOf(n), TRUE, TRUE) : n \in 0..9}

MCNoise == UNION {[1..n -> {0, 1, 7, 42}] : n \in 0..5}
MCTails == {<< >>, <<9>>, <<80, 75, 3, 4>>}
MCLeads == {<< >>, <<80, 75>>}
=============================================================================
