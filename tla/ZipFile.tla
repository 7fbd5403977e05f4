------------------------------ MODULE ZipFile -------------------------------
(***************************************************************************)
(* The bytes of an archive made with Zip: the formats archives.h declares  *)
(* with bipa's macros, zip_data_build, and what a reader finds that goes,  *)
(* as zip readers do, from the end record to the central directory and     *)
(* from each header to its local file.                                     *)
(***************************************************************************)
EXTENDS Zip, Bipa

U16le == UInt(2, FALSE)
U32le == UInt(4, FALSE)
Sig(n) == <<80, 75, n, n + 1>>
SigUnion(n) == Union(<<Kind(U32le, Sig(n), Void)>>)

LocalFileHeader ==
    Struct(<<SigUnion(3), U16le, U16le, U16le, U16le, U16le, U32le, U32le, U32le,
             U16le, U16le, Lstr(<<10>>), Lstr(<<11>>)>>)
DataDescriptor ==
    Struct(<<Union(<<Kind(U32le, Sig(7), Void), Kind(Void, << >>, Void)>>), U32le, U32le, U32le>>)
LocalFile ==
    Struct(<<LocalFileHeader, Lstr(<<1, 8>>), Array(DataDescriptor, Flagged(<<1, 3>>, 8))>>)
CentralDirectoryHeader ==
    Struct(<<SigUnion(1), U16le, U16le, U16le, U16le, U16le, U16le, U32le, U32le, U32le,
             U16le, U16le, U16le, U16le, U16le, U32le, U32le,
             Lstr(<<11>>), Lstr(<<12>>), Lstr(<<13>>)>>)
EndOfCentralDirectory ==
    Struct(<<SigUnion(5), U16le, U16le, U16le, U16le, U32le, U32le, U16le, Lstr(<<8>>)>>)
ZipData ==
    Struct(<<Array(LocalFile, Signature(Sig(3))),
             Array(CentralDirectoryHeader, Signature(Sig(1))), EndOfCentralDirectory>>)
ExtraFieldsWrap ==
    Struct(<<Array(Struct(<<Struct(<<U16le, U16le>>), Lstr(<<1, 2>>)>>), More)>>)
-----------------------------------------------------------------------------
(* The value that zip_data_build is given *)

Signed == [tag |-> 1, val |-> << >>]
Zeros(n) == [i \in 1..n |-> Bytes(0, 2)]

LocalValue(f) ==
    <<<<Signed, Bytes(10, 2)>> \o Zeros(4)
      \o <<Bytes(f.crc, 4), Bytes(f.csize, 4), Bytes(f.usize, 4), Bytes(f.nlen, 2),
           Bytes(f.elen, 2), SubSeq(f.name, 1, f.nlen), SubSeq(f.extra, 1, f.elen)>>,
      f.data, << >>>>
HeaderValue(h) ==
    <<Signed, Bytes(0, 2), Bytes(10, 2)>> \o Zeros(4)
    \o <<Bytes(h.crc, 4), Bytes(h.csize, 4), Bytes(h.usize, 4), Bytes(h.nlen, 2),
         Bytes(h.elen, 2)>> \o Zeros(3)
    \o <<Bytes(0, 4), Bytes(h.off, 4), SubSeq(h.name, 1, h.nlen), SubSeq(h.extra, 1, h.elen),
         << >>>>
EndValue(d) ==
    <<Signed>> \o Zeros(2)
    \o <<Bytes(d.entries, 2), Bytes(d.entries, 2), Bytes(d.size, 4), Bytes(d.off, 4),
         Bytes(d.clen, 2), SubSeq(d.comment, 1, d.clen)>>
ZipValue == <<[k \in DOMAIN files.items |-> LocalValue(files.items[k])],
              [k \in DOMAIN headers.items |-> HeaderValue(headers.items[k])], EndValue(dir)>>

Archive == Build(ZipData, ZipValue, ZipValue, EmptyBuf(-1)).bytes

\* what zip_entry_extra_field builds of one field
ExtraOf(id, data) ==
    LET v == <<<<<<<<Bytes(id, 2), Bytes(Len(data), 2)>>, data>>>>>>
    IN Build(ExtraFieldsWrap, v, v, EmptyBuf(-1)).bytes
-----------------------------------------------------------------------------
(* A reader *)

ReadAt(f, src, at) == Parse(f, << >>, src, Cursor(at, -1, FALSE))

\* the headers the end record tells of
Listed(end, src) ==
    ParseItems(Array(CentralDirectoryHeader, Count(<<1>>, 0)), <<end[5]>>, src,
               Cursor(Number(end[7]), -1, FALSE))

\* what is left of a name or an extra field whose length does not fit its field
Fitting(s) == IF Len(s) < W16 THEN s ELSE SubSeq(s, 1, Len(s) % W16)

\* header h leads to the local file f, and tells the same of it
LeadsTo(h, f, src) ==
    LET l == ReadAt(LocalFile, src, Number(h[17]))
    IN /\ l.ok
       /\ l.val[2] = f.data /\ Number(h[8]) = Crc(f.data)
       /\ SubSeq(l.val[1], 7, 13) = SubSeq(h, 8, 12) \o SubSeq(h, 18, 19)
       /\ h[18] = Fitting(f.name) /\ h[19] = Fitting(f.extra)
       /\ h[9] = h[10] /\ Number(h[10]) = Len(f.data)

Finished == ~failed /\ fixed = Entries /\ listed

\* Once every entry and then the directory are fixed, the archive is whole: the
\* end record leads to all headers, each of them to its own local file, whose
\* data, sizes and checksum are the ones that were set, and so are its name and
\* extra field unless their length does not fit 16 bits: zip_entry_file_name and
\* zip_entry_extra_field do not refuse such a one, what is read is its beginning,
\* as long as the remainder (zip_fix_entry's sum, zip_fix_central_dir).
Readable ==
    Finished =>
        LET src == Archive
            endAt == Len(src) - 22 - dir.clen
            end == ReadAt(EndOfCentralDirectory, src, endAt)
            list == Listed(end.val, src)
        IN /\ end.ok /\ end.at = Len(src)
           /\ list.ok /\ list.at = endAt /\ Number(end.val[6]) = endAt - Number(end.val[7])
           /\ Len(list.val) = Len(files.items)
           /\ \A k \in Entries : LeadsTo(list.val[k], files.items[k], src)

\* zip_data_parse finds in those bytes what they were built of, also where the
\* data of a file looks like a signature.
ParsedBack ==
    Finished => LET r == ReadAt(ZipData, Archive, 0) IN r.ok /\ r.val = ZipValue
=============================================================================
