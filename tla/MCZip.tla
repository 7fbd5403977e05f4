------------------------------- MODULE MCZip --------------------------------
(* Two entries; a name and an extra field that fit a 16 bit length, which   *)
(* ends at 6 here, a name that does not, and data that looks like a local   *)
(* file.                                                                    *)
EXTENDS ZipFile

MCNames == {<<97, 98>>, <<97, 98, 99, 100, 101, 102, 103>>}

\* of the two entries the first is given the short name and the second the long one
NameOfEach == \A k \in DOMAIN files.items : Len(files.items[k].name) \in {0, IF k = 1 THEN 2 ELSE 7}

MCExtras == {ExtraOf(1, <<5>>)}
MCDatas == {<<80, 75, 3, 4, 10>>}
MCComments == {<<33, 33>>}
MCCrc(s) == 1000 * Len(s) + FoldLeft(LAMBDA a, b : a + b, 7, s)
=============================================================================
