-------------------------------- MODULE Zip ---------------------------------
(***************************************************************************)
(* Making a zip file with archives.h: an archive is two growable arrays,   *)
(* the local files and the central directory headers, where the k-th of    *)
(* each describe the same entry, and the record of the end.  A zip_entry   *)
(* is a pair of pointers into both arrays; the caller keeps some of them   *)
(* ("held") and uses one only while neither array has been reallocated,    *)
(* as the comment of zip_reserve_entries asks.  The fields no function     *)
(* sets or reads are left out here; ZipFile has the whole format.          *)
(***************************************************************************)
EXTENDS Growth

CONSTANTS Names, Extras, Datas, Comments,  \* what a caller sets
          Dangling,        \* a comment that has been freed and not replaced
          Crc(_),       \* crc32 of checks.h
          W16, W32      \* a field of 16 and one of 32 bits hold numbers below these

ASSUME ContentsAssumption ==
    \A S \in {Names, Extras, Datas, Comments} : \A s \in S : s \in Seq(Int)
ASSUME WidthsAssumption == W16 \in Nat \ {0} /\ W32 \in Nat \ {0}
ASSUME CrcAssumption ==
    \A s \in Datas \cup {<< >>} : \A n \in 0..Len(s) : Crc(SubSeq(s, 1, n)) \in Int

VARIABLES files,    \* local_files: its items, and its capacity
          headers,  \* central_directory_headers, the same
          dir,      \* end_of_central_directory_record
          held,     \* the entries the caller has pointers to
          failed,   \* whether a call ended in exitf
          \* for the properties only
          reserved, \* the largest count given to zip_reserve_entries
          fixed,    \* the entries fixed since something they tell of changed
          listed    \* whether the directory was fixed since something it tells of changed

zip == <<files, headers, dir>>
vars == <<zip, held, failed, reserved, fixed, listed>>

ZeroFile == [name |-> << >>, nlen |-> 0, extra |-> << >>, elen |-> 0, data |-> << >>,
             csize |-> 0, usize |-> 0, crc |-> 0]
ZeroHeader == [name |-> << >>, nlen |-> 0, extra |-> << >>, elen |-> 0,
               csize |-> 0, usize |-> 0, crc |-> 0, off |-> 0]
ZeroDir == [entries |-> 0, size |-> 0, off |-> 0, comment |-> << >>, clen |-> 0]

Entries == 1..Len(files.items)
-----------------------------------------------------------------------------
\* realloc may have moved the items: what the caller held is not used again
Kept(arr, niw) == IF arr.cap = niw.cap THEN held ELSE {}

\* exitf("OOM"), with the arrays as the failing call leaves them
OutOfMemory(fs, hs) ==
    /\ files' = fs /\ headers' = hs
    /\ failed' = TRUE
    /\ UNCHANGED <<dir, held, reserved, fixed, listed>>
-----------------------------------------------------------------------------
Init ==
    /\ files = NoItems /\ headers = NoItems /\ dir = ZeroDir
    /\ held = {} /\ failed = FALSE
    /\ reserved = 0 /\ fixed = {} /\ listed = FALSE

\* mutant: only the local files are reserved
ReserveFiles(count) ==
    /\ ~failed
    /\ \E fs \in Reserves(files, count) :
          /\ files' = fs
          /\ held' = Kept(files, fs)
    /\ reserved' = IF count > reserved THEN count ELSE reserved
    /\ UNCHANGED <<headers, dir, failed, fixed, listed>>

ReserveEntries(count) ==
    /\ ~failed
    /\ \/ \E fs \in Reserves(files, count), hs \in Reserves(headers, count) :
            /\ files' = fs /\ headers' = hs
            /\ held' = Kept(files, fs) \cap Kept(headers, hs)
            /\ reserved' = IF count > reserved THEN count ELSE reserved
            /\ UNCHANGED <<dir, failed, fixed, listed>>
       \/ files.cap < count /\ OutOfMemory(files, headers)
       \/ /\ headers.cap < count
          /\ \E fs \in Reserves(files, count) : OutOfMemory(fs, headers)

\* the new entry is the last of both arrays, zeroed; when either push fails
\* the item the other one may have pushed stays, not zeroed
AddEntry ==
    /\ ~failed
    /\ \/ \E fs \in Pushes(files, ZeroFile), hs \in Pushes(headers, ZeroHeader) :
            /\ files' = fs /\ headers' = hs
            /\ held' = (Kept(files, fs) \cap Kept(headers, hs)) \cup {Len(fs.items)}
            /\ listed' = FALSE
            /\ UNCHANGED <<dir, failed, reserved, fixed>>
       \/ \E fs \in Pushes(files, ZeroFile) \cup MayFail(files),
             hs \in Pushes(headers, ZeroHeader) \cup MayFail(headers) :
            /\ fs = files \/ hs = headers
            /\ OutOfMemory(fs, hs)

\* mutant: the entries are counted from one where the pointers are from zero
GetEntryAfter(k) ==
    /\ ~failed /\ k \in Entries
    /\ held' = held \cup {k + 1}
    /\ UNCHANGED <<zip, failed, reserved, fixed, listed>>
GetEntry(k) ==
    /\ ~failed /\ k \in Entries
    /\ held' = held \cup {k}
    /\ UNCHANGED <<zip, failed, reserved, fixed, listed>>

\* a setter changes entry k: what later entries and the directory tell is old
Change(k, file, header, still) ==
    /\ files' = [files EXCEPT !.items[k] = file]
    /\ headers' = [headers EXCEPT !.items[k] = header]
    /\ fixed' = {i \in fixed : i < k} \cup (fixed \cap still)
    /\ listed' = FALSE
    /\ UNCHANGED <<dir, held, failed, reserved>>

\* bufcpy may call exitf after the length before it was set
ChangeFails(k, file, header) ==
    OutOfMemory([files EXCEPT !.items[k] = file], [headers EXCEPT !.items[k] = header])

\* mutant: the header does not get its length
FileNameHalf(k, s) ==
    LET n == Len(s) % W16
        f == files.items[k]
        h == headers.items[k]
    IN ~failed /\ k \in held
       /\ Change(k, [f EXCEPT !.nlen = n, !.name = s], [h EXCEPT !.name = s], {k})
FileName(k, s) ==
    LET n == Len(s) % W16
        f == files.items[k]
        h == headers.items[k]
    IN /\ ~failed /\ k \in held
       /\ \/ Change(k, [f EXCEPT !.nlen = n, !.name = s], [h EXCEPT !.nlen = n, !.name = s], {k})
          \/ ChangeFails(k, [f EXCEPT !.nlen = n], h)
          \/ ChangeFails(k, [f EXCEPT !.nlen = n, !.name = s], [h EXCEPT !.nlen = n])

\* s is what bipa_build_extra_fields_wrap makes; when it fails nothing is set
ExtraField(k, s) ==
    LET n == Len(s) % W16
        f == files.items[k]
        h == headers.items[k]
    IN /\ ~failed /\ k \in held
       /\ \/ Change(k, [f EXCEPT !.elen = n, !.extra = s], [h EXCEPT !.elen = n, !.extra = s], {k})
          \/ ChangeFails(k, [f EXCEPT !.elen = n], h)
          \/ ChangeFails(k, [f EXCEPT !.elen = n, !.extra = s], [h EXCEPT !.elen = n])
          \/ UNCHANGED vars

FileData(k, s) ==
    LET f == [files.items[k] EXCEPT !.csize = Len(s) % W32]
        h == headers.items[k]
    IN /\ ~failed /\ k \in held
       /\ Change(k, [f EXCEPT !.data = s], h, {}) \/ ChangeFails(k, f, h)

\* bipa_bytesz_local_file and bipa_bytesz_central_directory_header
LocalSize(f) == 30 + f.nlen + f.elen + f.csize
HeaderSize(h) == 46 + h.nlen + h.elen

Summed(sizes, n) ==
    LET upTo[i \in 0..n] == IF i = 0 THEN 0 ELSE upTo[i - 1] + sizes[i] IN upTo[n]

\* the bytes of the first n local files, and of all headers
FilesSize(n) == Summed([i \in 1..n |-> LocalSize(files.items[i])], n)
HeadersSize ==
    LET n == Len(headers.items) IN Summed([i \in 1..n |-> HeaderSize(headers.items[i])], n)

\* mutant: the entry itself is counted before it
OffsetAfter(k) == FilesSize(k) % W32
\* relative_offset_of_local_header of entry k
Offset(k) == FilesSize(k - 1) % W32

FixEntry(k) ==
    LET f == files.items[k]
        crc == Crc(SubSeq(f.data, 1, f.csize))
    IN /\ ~failed /\ k \in held
       /\ files' = [files EXCEPT !.items[k] = [@ EXCEPT !.crc = crc, !.usize = f.csize]]
       /\ headers' = [headers EXCEPT !.items[k] =
                         [@ EXCEPT !.crc = crc, !.usize = f.csize, !.csize = f.csize,
                                   !.off = Offset(k)]]
       /\ fixed' = fixed \cup {k}
       /\ UNCHANGED <<dir, held, failed, reserved, listed>>

FixCentralDir ==
    /\ ~failed
    /\ dir' = [dir EXCEPT !.entries = Len(files.items) % W16, !.size = HeadersSize % W32,
                          !.off = FilesSize(Len(files.items)) % W32]
    /\ listed' = TRUE
    /\ UNCHANGED <<files, headers, held, failed, reserved, fixed>>

\* the old comment is freed first: when bufcpy calls exitf the pointer dangles, with the
\* length of the new one, or is still NULL (an empty comment here)
CentralDirComment(s) ==
    /\ ~failed
    /\ \/ /\ dir' = [dir EXCEPT !.clen = Len(s) % W16, !.comment = s]
          /\ UNCHANGED failed
       \/ /\ \E c \in {Dangling} \cup ({dir.comment} \cap {<< >>}) :
                dir' = [dir EXCEPT !.clen = Len(s) % W16, !.comment = c]
          /\ failed' = TRUE
    /\ UNCHANGED <<files, headers, held, reserved, fixed, listed>>

Next ==
    \/ \E count \in 1..MaxCap : ReserveEntries(count)
    \/ AddEntry
    \/ \E k \in Entries : GetEntry(k)
    \/ \E k \in held, s \in Names : FileName(k, s)
    \/ \E k \in held, s \in Extras : ExtraField(k, s)
    \/ \E k \in held, s \in Datas : FileData(k, s)
    \/ \E k \in held : FixEntry(k)
    \/ FixCentralDir
    \/ \E s \in Comments : CentralDirComment(s)

Spec == Init /\ [][Next]_vars
-----------------------------------------------------------------------------
\* The parts of an archive (archives.h) keep their shapes, and a caller has entries that exist.
TypeOK ==
    LET Content == Seq(Int)
        File == [name : Content, nlen : Nat, extra : Content, elen : Nat, data : Content,
                 csize : Nat, usize : Nat, crc : Int]
        HeaderOf == [name : Content, nlen : Nat, extra : Content, elen : Nat, csize : Nat,
                     usize : Nat, crc : Int, off : Nat]
    IN /\ files \in ArraysOf(File)
       /\ headers \in ArraysOf(HeaderOf)
       /\ dir \in [entries : Nat, size : Nat, off : Nat, comment : Content \cup {Dangling},
                  clen : Nat]
       /\ held \subseteq Entries /\ fixed \subseteq Entries
       /\ failed \in BOOLEAN /\ listed \in BOOLEAN /\ reserved \in 0..MaxCap

\* entry k: its local file and its header say the same
SameEntry(k) ==
    LET f == files.items[k]
        h == headers.items[k]
    IN <<f.name, f.nlen, f.extra, f.elen>> = <<h.name, h.nlen, h.extra, h.elen>>

\* entry k tells of its data, and its header of where its local file starts
EntryTells(k) ==
    LET f == files.items[k]
        h == headers.items[k]
    IN /\ f.csize = Len(f.data) % W32 /\ f.usize = f.csize
       /\ f.crc = Crc(SubSeq(f.data, 1, f.csize))
       /\ <<h.csize, h.usize, h.crc>> = <<f.csize, f.usize, f.crc>>
       /\ h.off = FilesSize(k - 1) % W32
DirTells == /\ dir.entries = Len(files.items) % W16 /\ dir.size = HeadersSize % W32
            /\ dir.off = FilesSize(Len(files.items)) % W32

\* The k-th local file and the k-th header are one entry: the arrays have the same length and
\* agree on names and extra fields, and what zip_fix_entry and zip_fix_central_dir have summed
\* up stays true as long as nothing before it changes; until an exitf between the two pushes
\* or the two copies (zip_add_entry and the setters).
Paired ==
    ~failed => /\ Len(files.items) = Len(headers.items)
               /\ \A k \in Entries : SameEntry(k)
               /\ \A k \in fixed : EntryTells(k)
               /\ listed => DirTells

\* After zip_reserve_entries(count), adding entries up to count invalidates
\* no zip_entry held, which is what its comment recommends it for.
HandlesKept ==
    [][Len(files.items) < Len(files'.items) /\ Len(files'.items) <= reserved
          => held \subseteq held']_vars
=============================================================================
