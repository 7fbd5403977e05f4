----------------------------- MODULE GrowthProofs ------------------------------
(***************************************************************************)
(* What the arrays that grow keep.  archives.h, for any number of entries, *)
(* any contents and every failure of realloc: the two arrays describe the  *)
(* same entries, and what was reserved is room for handles.  For that the  *)
(* shape of an item is enough; what the headers and the directory tell of  *)
(* sizes and offsets needs the types, and that a sum depends only on what  *)
(* it is a sum of.  jvm.h, at the end: each count in step with its array.  *)
(***************************************************************************)
EXTENDS Zip, OperatorProofs

\* an item has just its fields
FileFields == {"name", "nlen", "extra", "elen", "data", "csize", "usize", "crc"}
HeaderFields == {"name", "nlen", "extra", "elen", "csize", "usize", "crc", "off"}
IsFile(f) == f = [x \in FileFields |-> f[x]]
IsHeader(h) == h = [x \in HeaderFields |-> h[x]]

Same(f, h) == f.name = h.name /\ f.nlen = h.nlen /\ f.extra = h.extra /\ f.elen = h.elen

Shape ==
    /\ IsArray(files) /\ \A k \in 1..Len(files.items) : IsFile(files.items[k])
    /\ IsArray(headers) /\ \A k \in 1..Len(headers.items) : IsHeader(headers.items[k])
    /\ reserved \in Nat
    /\ failed \in BOOLEAN
    /\ held \subseteq Entries

\* both arrays have room for what was reserved
Room == ~failed => reserved <= files.cap /\ reserved <= headers.cap

InStep ==
    ~failed => /\ Len(files.items) = Len(headers.items)
               /\ \A k \in 1..Len(files.items) : Same(files.items[k], headers.items[k])

IInv == Shape /\ Room /\ InStep
-----------------------------------------------------------------------------
LEMMA InitIInv == Init => IInv
<1> SUFFICES ASSUME Init PROVE IInv
  OBVIOUS
<1>1. IsArray(NoItems) /\ Len(NoItems.items) = 0 /\ NoItems.cap = 0
  BY EmptyArray
<1>2. files = NoItems /\ headers = NoItems /\ held = {} /\ failed = FALSE /\ reserved = 0
  BY DEF Init
<1>3. 1..Len(files.items) = {} /\ Len(files.items) = Len(headers.items)
  BY <1>1, <1>2
<1>4. Shape
  BY <1>1, <1>2, <1>3 DEF Shape
<1>5. Room /\ InStep
  BY <1>1, <1>2, <1>3 DEF Room, InStep
<1>6. QED
  BY <1>4, <1>5 DEF IInv

\* what a call that ends in exitf leaves to be shown
LEMMA OutOfMemoryIInv ==
    ASSUME IInv, NEW fs, NEW hs, OutOfMemory(fs, hs),
           IsArray(fs), \A k \in 1..Len(fs.items) : IsFile(fs.items[k]),
           IsArray(hs), \A k \in 1..Len(hs.items) : IsHeader(hs.items[k]),
           Len(files.items) <= Len(fs.items)
    PROVE  IInv'
<1>1. files' = fs /\ headers' = hs /\ failed' = TRUE /\ held' = held /\ reserved' = reserved
  BY DEF OutOfMemory
<1>2. Len(files.items) \in Nat /\ Len(fs.items) \in Nat
  BY SeqIs DEF IInv, Shape, IsArray
<1>3. held' \subseteq 1..Len(fs.items)
  BY <1>1, <1>2 DEF IInv, Shape, Entries
<1>4. QED
  BY <1>1, <1>3 DEF IInv, Shape, Room, InStep, Entries

LEMMA ReserveIInv == ASSUME IInv, NEW count \in 1..MaxCap, ReserveEntries(count) PROVE IInv'
<1>1. /\ count \in Nat /\ ~failed
      /\ IsArray(files) /\ IsArray(headers) /\ reserved \in Nat
  BY SizesAssumption DEF ReserveEntries, IInv, Shape
<1>2. ASSUME NEW fs \in Reserves(files, count), NEW hs \in Reserves(headers, count),
             files' = fs, headers' = hs,
             held' = Kept(files, fs) \cap Kept(headers, hs),
             reserved' = IF count > reserved THEN count ELSE reserved,
             UNCHANGED <<dir, failed, fixed, listed>>
      PROVE  IInv'
  <2>1. IsArray(fs) /\ fs.items = files.items /\ files.cap <= fs.cap /\ count <= fs.cap
    BY <1>1, ReservedArray
  <2>2. IsArray(hs) /\ hs.items = headers.items /\ headers.cap <= hs.cap /\ count <= hs.cap
    BY <1>1, ReservedArray
  <2>3. held' \subseteq held
    BY <1>2 DEF Kept
  <2>4. Room'
    BY <1>1, <1>2, <2>1, <2>2 DEF IInv, Room, IsArray
  <2>5. Shape'
    BY <1>1, <1>2, <2>1, <2>2, <2>3 DEF IInv, Shape, Entries
  <2>6. QED
    BY <1>2, <2>1, <2>2, <2>4, <2>5 DEF IInv, InStep
<1>3. ASSUME OutOfMemory(files, headers) PROVE IInv'
  BY <1>3, OutOfMemoryIInv, SeqIs DEF IInv, Shape, IsArray
<1>4. ASSUME NEW fs \in Reserves(files, count), OutOfMemory(fs, headers) PROVE IInv'
  <2>1. IsArray(fs) /\ fs.items = files.items
    BY <1>1, ReservedArray
  <2>2. QED
    <3>1. /\ \A k \in 1..Len(fs.items) : IsFile(fs.items[k])
          /\ \A k \in 1..Len(headers.items) : IsHeader(headers.items[k])
      BY <2>1 DEF IInv, Shape
    <3>2. Len(files.items) <= Len(fs.items)
      BY <1>1, <2>1, SeqIs DEF IsArray
    <3>3. QED
      BY <1>1, <1>4, <2>1, <3>1, <3>2, OutOfMemoryIInv
<1>5. QED
  BY <1>2, <1>3, <1>4 DEF ReserveEntries

LEMMA ZeroShapes == IsFile(ZeroFile) /\ IsHeader(ZeroHeader) /\ Same(ZeroFile, ZeroHeader)
BY DEF IsFile, IsHeader, ZeroFile, ZeroHeader, Same, FileFields, HeaderFields

LEMMA PushedFiles ==
    ASSUME IInv, NEW fs \in Pushes(files, ZeroFile)
    PROVE  /\ IsArray(fs) /\ \A k \in 1..Len(fs.items) : IsFile(fs.items[k])
           /\ Len(fs.items) = Len(files.items) + 1 /\ files.cap <= fs.cap
           /\ \A k \in 1..Len(files.items) : fs.items[k] = files.items[k]
           /\ fs.items[Len(files.items) + 1] = ZeroFile
<1>1. IsArray(files) /\ IsSeq(files.items) /\ Len(files.items) \in Nat
  BY SeqIs DEF IInv, Shape, IsArray
<1>2. IsArray(fs) /\ fs.items = Append(files.items, ZeroFile) /\ files.cap <= fs.cap
  BY <1>1, PushedArray
<1>3. /\ Len(fs.items) = Len(files.items) + 1
      /\ \A k \in 1..Len(files.items) : fs.items[k] = files.items[k]
      /\ fs.items[Len(files.items) + 1] = ZeroFile
  BY <1>1, <1>2, Appended
<1>4. \A k \in 1..Len(fs.items) : IsFile(fs.items[k])
  BY <1>1, <1>3, ZeroShapes DEF IInv, Shape
<1>5. QED
  BY <1>2, <1>3, <1>4

LEMMA PushedHeaders ==
    ASSUME IInv, NEW hs \in Pushes(headers, ZeroHeader)
    PROVE  /\ IsArray(hs) /\ \A k \in 1..Len(hs.items) : IsHeader(hs.items[k])
           /\ Len(hs.items) = Len(headers.items) + 1 /\ headers.cap <= hs.cap
           /\ \A k \in 1..Len(headers.items) : hs.items[k] = headers.items[k]
           /\ hs.items[Len(headers.items) + 1] = ZeroHeader
<1>1. IsArray(headers) /\ IsSeq(headers.items) /\ Len(headers.items) \in Nat
  BY SeqIs DEF IInv, Shape, IsArray
<1>2. IsArray(hs) /\ hs.items = Append(headers.items, ZeroHeader) /\ headers.cap <= hs.cap
  BY <1>1, PushedArray
<1>3. /\ Len(hs.items) = Len(headers.items) + 1
      /\ \A k \in 1..Len(headers.items) : hs.items[k] = headers.items[k]
      /\ hs.items[Len(headers.items) + 1] = ZeroHeader
  BY <1>1, <1>2, Appended
<1>4. \A k \in 1..Len(hs.items) : IsHeader(hs.items[k])
  BY <1>1, <1>3, ZeroShapes DEF IInv, Shape
<1>5. QED
  BY <1>2, <1>3, <1>4

LEMMA AddIInv == ASSUME IInv, AddEntry PROVE IInv'
<1>1. /\ ~failed /\ IsArray(files) /\ IsArray(headers)
      /\ Len(files.items) \in Nat /\ Len(headers.items) = Len(files.items)
      /\ reserved <= files.cap /\ reserved <= headers.cap /\ reserved \in Nat
      /\ files.cap \in Nat /\ headers.cap \in Nat
      /\ held \subseteq 1..Len(files.items)
  BY SeqIs DEF AddEntry, IInv, Shape, Room, InStep, IsArray, Entries
<1>2. ASSUME NEW fs \in Pushes(files, ZeroFile), NEW hs \in Pushes(headers, ZeroHeader),
             files' = fs, headers' = hs, failed' = failed, reserved' = reserved,
             held' = (Kept(files, fs) \cap Kept(headers, hs)) \cup {Len(fs.items)}
      PROVE  IInv'
  <2>1. /\ IsArray(fs) /\ \A k \in 1..Len(fs.items) : IsFile(fs.items[k])
        /\ Len(fs.items) = Len(files.items) + 1 /\ files.cap <= fs.cap
        /\ \A k \in 1..Len(files.items) : fs.items[k] = files.items[k]
        /\ fs.items[Len(files.items) + 1] = ZeroFile
    BY PushedFiles
  <2>2. /\ IsArray(hs) /\ \A k \in 1..Len(hs.items) : IsHeader(hs.items[k])
        /\ Len(hs.items) = Len(headers.items) + 1 /\ headers.cap <= hs.cap
        /\ \A k \in 1..Len(headers.items) : hs.items[k] = headers.items[k]
        /\ hs.items[Len(headers.items) + 1] = ZeroHeader
    BY PushedHeaders
  <2>3. held' \subseteq 1..Len(fs.items)
    <3>1. held' \subseteq held \cup {Len(fs.items)}
      BY <1>2 DEF Kept
    <3>2. Len(fs.items) \in 1..Len(fs.items)
          /\ \A k \in 1..Len(files.items) : k \in 1..Len(fs.items)
      BY <1>1, <2>1
    <3>3. QED
      BY <1>1, <3>1, <3>2
  <2>4. Shape'
    BY <1>1, <1>2, <2>1, <2>2, <2>3 DEF Shape, Entries, IInv
  <2>5. Room'
    BY <1>1, <1>2, <2>1, <2>2 DEF Room, IsArray
  <2>6. \A k \in 1..Len(fs.items) : Same(fs.items[k], hs.items[k])
    <3>1. \A k \in 1..Len(files.items) : Same(fs.items[k], hs.items[k])
      BY <1>1, <2>1, <2>2 DEF IInv, InStep
    <3>2. Same(fs.items[Len(files.items) + 1], hs.items[Len(files.items) + 1])
      BY <1>1, <2>1, <2>2, ZeroShapes
    <3>3. \A k \in 1..Len(fs.items) : k \in 1..Len(files.items) \/ k = Len(files.items) + 1
      BY <1>1, <2>1
    <3>4. QED
      BY <3>1, <3>2, <3>3
  <2>7. InStep'
    BY <1>1, <1>2, <2>1, <2>2, <2>6 DEF InStep
  <2>8. QED
    BY <2>4, <2>5, <2>7 DEF IInv
<1>3. ASSUME NEW fs \in Pushes(files, ZeroFile) \cup MayFail(files),
             NEW hs \in Pushes(headers, ZeroHeader) \cup MayFail(headers),
             OutOfMemory(fs, hs)
      PROVE  IInv'
  <2>1. /\ IsArray(fs) /\ \A k \in 1..Len(fs.items) : IsFile(fs.items[k])
        /\ Len(files.items) <= Len(fs.items)
    <3>1. CASE fs \in Pushes(files, ZeroFile)
      BY <1>1, <3>1, PushedFiles
    <3>2. CASE fs = files
      BY <1>1, <3>2 DEF IInv, Shape
    <3>3. QED
      BY <1>3, <3>1, <3>2 DEF MayFail
  <2>2. IsArray(hs) /\ \A k \in 1..Len(hs.items) : IsHeader(hs.items[k])
    <3>1. CASE hs \in Pushes(headers, ZeroHeader)
      BY <1>1, <3>1, PushedHeaders
    <3>2. CASE hs = headers
      BY <1>1, <3>2 DEF IInv, Shape
    <3>3. QED
      BY <1>3, <3>1, <3>2 DEF MayFail
  <2>3. QED
    BY <1>3, <2>1, <2>2, OutOfMemoryIInv
<1>4. QED
  BY <1>2, <1>3 DEF AddEntry
-----------------------------------------------------------------------------
(* The setters: only the entry k changes, to a file and a header alike. *)

\* fs and hs are the entries with the one at k replaced
OnlyEntry(fs, hs, k, f, h) ==
    /\ Len(fs.items) = Len(hs.items)
    /\ \A i \in 1..Len(fs.items) : Same(files.items[i], headers.items[i])
    /\ \A i \in 1..Len(fs.items) :
          /\ fs.items[i] = (IF i = k THEN f ELSE files.items[i])
          /\ hs.items[i] = (IF i = k THEN h ELSE headers.items[i])

\* entry k becomes a file and a header, whatever else changes but held and reserved
LEMMA EntryShape ==
    ASSUME IInv, ~failed, NEW k \in held, NEW f, NEW h, IsFile(f), IsHeader(h),
           files' = [files EXCEPT !.items[k] = f], headers' = [headers EXCEPT !.items[k] = h],
           UNCHANGED <<held, reserved>>, failed' \in BOOLEAN
    PROVE  Shape' /\ Room' /\ OnlyEntry(files', headers', k, f, h)
<1>1. /\ IsArray(files) /\ IsArray(headers) /\ k \in 1..Len(files.items)
      /\ k \in 1..Len(headers.items) /\ Len(headers.items) = Len(files.items)
      /\ \A i \in 1..Len(files.items) : Same(files.items[i], headers.items[i])
  BY DEF IInv, Shape, InStep, Entries
<1>2. PICK fs, hs : files' = fs /\ headers' = hs
  OBVIOUS
<1>3. Altered(files, k, f, fs)
  <2>1. fs = [files EXCEPT !.items[k] = f]
    BY <1>2
  <2>2. QED
    BY <1>1, <2>1, ChangedArray
<1>4. Altered(headers, k, h, hs)
  <2>1. hs = [headers EXCEPT !.items[k] = h]
    BY <1>2
  <2>2. QED
    BY <1>1, <2>1, ChangedArray
<1>5. Room'
  BY <1>2, <1>3, <1>4 DEF IInv, Room, Altered
<1>6. \A i \in 1..Len(fs.items) : IsFile(fs.items[i])
  BY <1>3 DEF IInv, Shape, Altered
<1>7. \A i \in 1..Len(hs.items) : IsHeader(hs.items[i])
  BY <1>4 DEF IInv, Shape, Altered
<1>8. Shape'
  BY <1>2, <1>3, <1>4, <1>6, <1>7 DEF IInv, Shape, Entries, Altered
<1>9. OnlyEntry(fs, hs, k, f, h)
  BY <1>1, <1>3, <1>4 DEF Altered, OnlyEntry
<1>10. QED
  BY <1>2, <1>5, <1>8, <1>9

\* a setter that ends keeps the entries in step
LEMMA EntryIInv ==
    ASSUME IInv, ~failed, NEW k \in held, NEW f, NEW h, IsFile(f), IsHeader(h), Same(f, h),
           files' = [files EXCEPT !.items[k] = f], headers' = [headers EXCEPT !.items[k] = h],
           UNCHANGED <<held, reserved, failed>>
    PROVE  IInv'
<1>1. failed' \in BOOLEAN
  BY DEF IInv, Shape
<1>2. Shape' /\ Room' /\ OnlyEntry(files', headers', k, f, h)
  BY <1>1, EntryShape
<1>3. Len(files'.items) = Len(headers'.items)
  BY <1>2 DEF OnlyEntry
<1>4. \A i \in 1..Len(files'.items) : Same(files'.items[i], headers'.items[i])
  BY <1>2 DEF OnlyEntry
<1>5. QED
  BY <1>2, <1>3, <1>4 DEF IInv, InStep

\* one that fails leaves shapes only
LEMMA EntryFails ==
    ASSUME IInv, ~failed, NEW k \in held, NEW f, NEW h, IsFile(f), IsHeader(h),
           ChangeFails(k, f, h)
    PROVE  IInv'
<1>1. /\ files' = [files EXCEPT !.items[k] = f] /\ headers' = [headers EXCEPT !.items[k] = h]
      /\ held' = held /\ reserved' = reserved /\ failed' = TRUE
  BY DEF ChangeFails, OutOfMemory
<1>2. Shape' /\ Room'
  BY <1>1, EntryShape
<1>3. QED
  BY <1>1, <1>2 DEF IInv, InStep

LEMMA OfEntry ==
    ASSUME IInv, ~failed, NEW k \in held
    PROVE  /\ IsFile(files.items[k]) /\ IsHeader(headers.items[k])
           /\ Same(files.items[k], headers.items[k])
BY DEF IInv, Shape, InStep, Entries

LEMMA FileNameIInv == ASSUME IInv, NEW k \in held, NEW s, FileName(k, s) PROVE IInv'
<1> DEFINE n == Len(s) % W16
           f == files.items[k]
           h == headers.items[k]
           f1 == [f EXCEPT !.nlen = n]
           f2 == [f EXCEPT !.nlen = n, !.name = s]
           h1 == [h EXCEPT !.nlen = n]
           h2 == [h EXCEPT !.nlen = n, !.name = s]
<1>1. ~failed /\ (Change(k, f2, h2, {k}) \/ ChangeFails(k, f1, h) \/ ChangeFails(k, f2, h1))
  BY DEF FileName
<1>2. IsFile(f) /\ IsHeader(h) /\ Same(f, h)
  BY <1>1, OfEntry
<1> HIDE DEF f, h, n
<1>3. IsFile(f1) /\ IsFile(f2) /\ IsHeader(h1) /\ IsHeader(h2)
  <2>1. IsFile(f1)
    BY <1>2 DEF IsFile
  <2>3. IsHeader(h1)
    BY <1>2 DEF IsHeader
  <2>2. IsFile(f2)
    BY <1>2 DEF IsFile
  <2>4. IsHeader(h2)
    BY <1>2 DEF IsHeader
  <2>5. QED
    BY <2>1, <2>2, <2>3, <2>4
<1>4. Same(f2, h2)
  BY <1>2 DEF IsFile, IsHeader, Same, FileFields, HeaderFields
<1> HIDE DEF f1, f2, h1, h2
<1>5. CASE Change(k, f2, h2, {k})
  BY <1>1, <1>3, <1>4, <1>5, EntryIInv DEF Change
<1>6. CASE ChangeFails(k, f1, h)
  BY <1>1, <1>2, <1>3, <1>6, EntryFails
<1>7. CASE ChangeFails(k, f2, h1)
  BY <1>1, <1>3, <1>7, EntryFails
<1>8. QED
  BY <1>1, <1>5, <1>6, <1>7

LEMMA ExtraFieldIInv == ASSUME IInv, NEW k \in held, NEW s, ExtraField(k, s) PROVE IInv'
<1> DEFINE n == Len(s) % W16
           f == files.items[k]
           h == headers.items[k]
           f1 == [f EXCEPT !.elen = n]
           f2 == [f EXCEPT !.elen = n, !.extra = s]
           h1 == [h EXCEPT !.elen = n]
           h2 == [h EXCEPT !.elen = n, !.extra = s]
<1>1. /\ ~failed
      /\ \/ Change(k, f2, h2, {k}) \/ ChangeFails(k, f1, h) \/ ChangeFails(k, f2, h1)
         \/ UNCHANGED vars
  BY DEF ExtraField
<1>2. IsFile(f) /\ IsHeader(h) /\ Same(f, h)
  BY <1>1, OfEntry
<1>9. CASE UNCHANGED vars
  BY <1>9 DEF vars, zip, IInv, Shape, Room, InStep, Entries
<1> HIDE DEF f, h, n
<1>3. IsFile(f1) /\ IsFile(f2) /\ IsHeader(h1) /\ IsHeader(h2)
  <2>1. IsFile(f1)
    BY <1>2 DEF IsFile
  <2>3. IsHeader(h1)
    BY <1>2 DEF IsHeader
  <2>2. IsFile(f2)
    BY <1>2 DEF IsFile
  <2>4. IsHeader(h2)
    BY <1>2 DEF IsHeader
  <2>5. QED
    BY <2>1, <2>2, <2>3, <2>4
<1>4. Same(f2, h2)
  BY <1>2 DEF IsFile, IsHeader, Same, FileFields, HeaderFields
<1> HIDE DEF f1, f2, h1, h2
<1>5. CASE Change(k, f2, h2, {k})
  BY <1>1, <1>3, <1>4, <1>5, EntryIInv DEF Change
<1>6. CASE ChangeFails(k, f1, h)
  BY <1>1, <1>2, <1>3, <1>6, EntryFails
<1>7. CASE ChangeFails(k, f2, h1)
  BY <1>1, <1>3, <1>7, EntryFails
<1>8. QED
  BY <1>1, <1>5, <1>6, <1>7, <1>9

LEMMA FileDataIInv == ASSUME IInv, NEW k \in held, NEW s, FileData(k, s) PROVE IInv'
<1> DEFINE n == Len(s) % W32
           f == files.items[k]
           h == headers.items[k]
           f1 == [f EXCEPT !.csize = n]
           f2 == [f1 EXCEPT !.data = s]
<1>1. ~failed /\ (Change(k, f2, h, {}) \/ ChangeFails(k, f1, h))
  BY DEF FileData
<1>2. IsFile(f) /\ IsHeader(h) /\ Same(f, h)
  BY <1>1, OfEntry
<1> HIDE DEF f, h, n
<1>3. IsFile(f1) /\ Same(f1, h)
  BY <1>2 DEF IsFile, Same, FileFields
<1> HIDE DEF f1
<1>4. IsFile(f2) /\ Same(f2, h)
  BY <1>3 DEF IsFile, Same, FileFields
<1> HIDE DEF f2
<1>5. CASE Change(k, f2, h, {})
  BY <1>1, <1>2, <1>4, <1>5, EntryIInv DEF Change
<1>6. CASE ChangeFails(k, f1, h)
  BY <1>1, <1>2, <1>3, <1>6, EntryFails
<1>7. QED
  BY <1>1, <1>5, <1>6

LEMMA FixEntryIInv == ASSUME IInv, NEW k \in held, FixEntry(k) PROVE IInv'
<1> DEFINE f == files.items[k]
           h == headers.items[k]
           crc == Crc(SubSeq(f.data, 1, f.csize))
           f1 == [f EXCEPT !.crc = crc, !.usize = f.csize]
           h1 == [h EXCEPT !.crc = crc, !.usize = f.csize, !.csize = f.csize, !.off = Offset(k)]
<1>1. /\ ~failed /\ IsArray(files) /\ IsArray(headers)
      /\ k \in 1..Len(files.items) /\ k \in 1..Len(headers.items)
  BY DEF FixEntry, IInv, Shape, InStep, Entries
<1>2. IsFile(f) /\ IsHeader(h) /\ Same(f, h)
  BY <1>1, OfEntry
<1>3. files' = [files EXCEPT !.items[k] = f1] /\ headers' = [headers EXCEPT !.items[k] = h1]
  BY DEF FixEntry
<1>5. UNCHANGED <<held, reserved, failed>>
  BY DEF FixEntry
<1> HIDE DEF f, h, crc
<1>6. IsFile(f1) /\ IsHeader(h1) /\ Same(f1, h1)
  <2>1. IsFile(f1)
    BY <1>2 DEF IsFile
  <2>2. IsHeader(h1)
    BY <1>2 DEF IsHeader
  <2>3. Same(f1, h1)
    BY <1>2 DEF IsFile, IsHeader, Same, FileFields, HeaderFields
  <2>4. QED
    BY <2>1, <2>2, <2>3
<1> HIDE DEF f1, h1
<1>7. QED
  BY <1>1, <1>3, <1>5, <1>6, EntryIInv
-----------------------------------------------------------------------------
LEMMA OtherIInv ==
    ASSUME IInv, UNCHANGED <<files, headers, reserved>>, held' \subseteq Entries,
           failed' = failed \/ failed' = TRUE
    PROVE  IInv'
BY DEF IInv, Shape, Room, InStep, Entries

LEMMA NextIInv == IInv /\ [Next]_vars => IInv'
<1> SUFFICES ASSUME IInv, [Next]_vars PROVE IInv'
  OBVIOUS
<1>1. held \subseteq Entries
  BY DEF IInv, Shape
<1>2. ASSUME NEW k \in Entries, GetEntry(k) PROVE IInv'
  BY <1>1, <1>2, OtherIInv DEF GetEntry, zip
<1>3. CASE FixCentralDir
  BY <1>1, <1>3, OtherIInv DEF FixCentralDir
<1>4. ASSUME NEW s \in Comments, CentralDirComment(s) PROVE IInv'
  BY <1>1, <1>4, OtherIInv DEF CentralDirComment
<1>5. CASE UNCHANGED vars
  BY <1>1, <1>5, OtherIInv DEF vars, zip
<1>6. QED
  BY <1>2, <1>3, <1>4, <1>5, ReserveIInv, AddIInv, FileNameIInv, ExtraFieldIInv, FileDataIInv,
     FixEntryIInv DEF Next

LEMMA Invariant == Spec => []IInv
BY InitIInv, NextIInv, PTL DEF Spec

-----------------------------------------------------------------------------
(* What the entries hold, and what is told of them *)

FileType == [name : Seq(Int), nlen : Nat, extra : Seq(Int), elen : Nat, data : Seq(Int),
             csize : Nat, usize : Nat, crc : Int]
HeaderType == [name : Seq(Int), nlen : Nat, extra : Seq(Int), elen : Nat, csize : Nat,
               usize : Nat, crc : Int, off : Nat]
DirType == [entries : Nat, size : Nat, off : Nat, comment : Seq(Int) \cup {Dangling}, clen : Nat]

Typed == /\ files \in ArraysOf(FileType) /\ headers \in ArraysOf(HeaderType) /\ dir \in DirType
         /\ held \subseteq Entries /\ fixed \subseteq Entries
         /\ failed \in BOOLEAN /\ listed \in BOOLEAN /\ reserved \in 0..MaxCap

\* the data of f is what a caller has set, all of it
Filled(f) == f.data \in Datas \cup {<< >>} /\ f.csize = Len(f.data) % W32

Told == ~failed => /\ \A k \in Entries : Filled(files.items[k])
                   /\ \A k \in fixed : EntryTells(k)
                   /\ listed => DirTells

TInv == IInv /\ Typed /\ Told

LEMMA TypedIs == Typed => TypeOK
BY DEF Typed, TypeOK, FileType, HeaderType, DirType

\* What a caller sets is typed.
LEMMA Contents ==
    /\ \A s \in Names \cup Extras \cup Datas \cup Comments : s \in Seq(Int)
    /\ \A n \in Nat : n % W16 \in Nat /\ n % W32 \in Nat
    /\ \A s \in Seq(Int) : Len(s) \in Nat /\ Len(s) % W16 \in Nat /\ Len(s) % W32 \in Nat
<1>1. \A s \in Names \cup Extras \cup Datas \cup Comments : s \in Seq(Int)
  BY ContentsAssumption
<1>2. ASSUME NEW n \in Nat PROVE n % W16 \in Nat /\ n % W32 \in Nat
  BY WidthsAssumption
<1>3. \A s \in Seq(Int) : Len(s) \in Nat
  OBVIOUS
<1>4. QED
  BY <1>1, <1>2, <1>3

LEMMA ZeroTypes ==
    ZeroFile \in FileType /\ ZeroHeader \in HeaderType /\ ZeroDir \in DirType /\ Filled(ZeroFile)
<1>1. << >> \in Seq(Int) /\ Len(<< >>) = 0
  OBVIOUS
<1>2. 0 % W32 = 0
  BY WidthsAssumption
<1>3. QED
  BY <1>1, <1>2 DEF ZeroFile, ZeroHeader, ZeroDir, FileType, HeaderType, DirType, Filled

\* A sum of sizes is a size.
LEMMA SummedIs ==
    ASSUME NEW n \in Nat, NEW sizes, \A i \in 1..n : sizes[i] \in Nat
    PROVE  Summed(sizes, n) \in Nat
<1> DEFINE step == [x \in (1..n) \X Nat |-> x[2] + sizes[x[1]]]
           Is(f) == f = [i \in 0..n |-> IF i = 0 THEN 0 ELSE f[i - 1] + sizes[i]]
<1>1. step \in [(1..n) \X Nat -> Nat]
  OBVIOUS
<1>2. \A i \in 1..n, y \in Nat : step[<<i, y>>] = y + sizes[i]
  OBVIOUS
<1>3. Summed(sizes, n) = (CHOOSE g : Is(g))[n]
  BY DEF Summed
<1> HIDE DEF step
<1>4. PICK z \in Nat : z = 0
  OBVIOUS
<1>5. \E f : Is(f)
  <2>1. PICK f \in [0..n -> Nat] : Follows(f, n, z, step)
    BY <1>1, Recursion
  <2>2. f[0] = 0 /\ \A i \in 1..n : f[i] = step[<<i, f[i - 1]>>]
    BY <1>4, <2>1 DEF Follows
  <2>3. \A i \in 1..n : i - 1 \in 0..n /\ i # 0
    OBVIOUS
  <2>4. \A i \in 1..n : f[i] = f[i - 1] + sizes[i]
    BY <1>2, <2>2, <2>3
  <2>5. \A i \in 0..n : f[i] = IF i = 0 THEN 0 ELSE f[i - 1] + sizes[i]
    BY <2>2, <2>4
  <2>6. QED
    BY <2>5
<1>6. PICK g : g = (CHOOSE h : Is(h)) /\ Is(g)
  BY <1>5
<1>7. g[0] = 0 /\ \A i \in 1..n : g[i] = g[i - 1] + sizes[i]
  <2>1. \A i \in 0..n : g[i] = (IF i = 0 THEN 0 ELSE g[i - 1] + sizes[i])
    BY <1>6
  <2>2. 0 \in 0..n /\ \A i \in 1..n : i \in 0..n /\ i # 0
    OBVIOUS
  <2> HIDE DEF Is
  <2>3. QED
    BY <2>1, <2>2
<1>8. Recurs(g, n, z, step, Nat)
  <2>1. g = [i \in 0..n |-> g[i]]
    BY <1>6
  <2>2. \A i \in 1..n : g[i - 1] \in Nat => g[i] = step[<<i, g[i - 1]>>]
    BY <1>2, <1>7
  <2> HIDE DEF Is
  <2>3. QED
    BY <1>4, <1>7, <2>1, <2>2 DEF Recurs
<1>9. g \in [0..n -> Nat]
  BY <1>1, <1>8, RecursIs
<1>10. n \in 0..n
  OBVIOUS
<1> HIDE DEF Is
<1>11. QED
  BY <1>3, <1>6, <1>9, <1>10

LEMMA Sizes ==
    ASSUME Typed
    PROVE  /\ \A n \in 0..Len(files.items) : FilesSize(n) \in Nat
           /\ HeadersSize \in Nat
<1>1. Len(files.items) \in Nat /\ \A i \in 1..Len(files.items) : files.items[i] \in FileType
  BY OfType DEF Typed
<1>2. Len(headers.items) \in Nat /\ \A i \in 1..Len(headers.items) : headers.items[i] \in HeaderType
  BY OfType DEF Typed
<1>3. /\ \A f \in FileType : LocalSize(f) \in Nat
      /\ \A h \in HeaderType : HeaderSize(h) \in Nat
  <2>1. ASSUME NEW f \in FileType PROVE LocalSize(f) \in Nat
    <3>1. f.nlen \in Nat /\ f.elen \in Nat /\ f.csize \in Nat
      BY DEF FileType
    <3>2. QED
      BY <3>1 DEF LocalSize
  <2>2. ASSUME NEW h \in HeaderType PROVE HeaderSize(h) \in Nat
    <3>1. h.nlen \in Nat /\ h.elen \in Nat
      BY DEF HeaderType
    <3>2. QED
      BY <3>1 DEF HeaderSize
  <2>3. QED
    BY <2>1, <2>2
<1>4. ASSUME NEW n \in 0..Len(files.items) PROVE FilesSize(n) \in Nat
  <2> DEFINE sizes == [i \in 1..n |-> LocalSize(files.items[i])]
  <2>1. n \in Nat /\ \A i \in 1..n : i \in 1..Len(files.items)
    BY <1>1
  <2>2. \A i \in 1..n : sizes[i] \in Nat
    BY <1>1, <1>3, <2>1
  <2> HIDE DEF sizes
  <2>3. Summed(sizes, n) \in Nat
    BY <2>1, <2>2, SummedIs
  <2>4. QED
    BY <2>3 DEF FilesSize, sizes
<1>5. HeadersSize \in Nat
  <2>1. PICK n : n = Len(headers.items)
    OBVIOUS
  <2> DEFINE sizes == [i \in 1..n |-> HeaderSize(headers.items[i])]
  <2>2. \A i \in 1..n : sizes[i] \in Nat
    BY <1>2, <1>3, <2>1
  <2>3. HeadersSize = Summed(sizes, n)
    BY <2>1 DEF HeadersSize
  <2> HIDE DEF sizes
  <2>4. Summed(sizes, n) \in Nat
    BY <1>2, <2>1, <2>2, SummedIs
  <2>5. QED
    BY <2>3, <2>4
<1>6. QED
  BY <1>4, <1>5

\* Sums of the same sizes are the same.
LEMMA FilesSizeKept ==
    ASSUME NEW n, \A i \in 1..n : LocalSize(files'.items[i]) = LocalSize(files.items[i])
    PROVE  FilesSize(n)' = FilesSize(n)
<1>1. [i \in 1..n |-> LocalSize(files'.items[i])] = [i \in 1..n |-> LocalSize(files.items[i])]
  OBVIOUS
<1>2. FilesSize(n)' = Summed([i \in 1..n |-> LocalSize(files'.items[i])], n)
  BY DEF FilesSize, LocalSize
<1>3. QED
  BY <1>1, <1>2 DEF FilesSize

LEMMA HeadersSizeKept ==
    ASSUME Len(headers'.items) = Len(headers.items),
           \A i \in 1..Len(headers.items) : HeaderSize(headers'.items[i]) = HeaderSize(headers.items[i])
    PROVE  HeadersSize' = HeadersSize
<1>1. PICK n : n = Len(headers.items)
  OBVIOUS
<1>2. [i \in 1..n |-> HeaderSize(headers'.items[i])] = [i \in 1..n |-> HeaderSize(headers.items[i])]
  BY <1>1
<1>3. HeadersSize' = Summed([i \in 1..n |-> HeaderSize(headers'.items[i])], n)
  BY <1>1 DEF HeadersSize, HeaderSize
<1>4. HeadersSize = Summed([i \in 1..n |-> HeaderSize(headers.items[i])], n)
  BY <1>1 DEF HeadersSize
<1>5. QED
  BY <1>2, <1>3, <1>4

-----------------------------------------------------------------------------
(* Every step keeps what is told *)

LEMMA InitTold == Init => TInv
<1> SUFFICES ASSUME Init PROVE TInv
  OBVIOUS
<1>1. IInv
  BY InitIInv
<1>2. IsArray(NoItems) /\ Len(NoItems.items) = 0 /\ NoItems.cap = 0
  BY EmptyArray
<1>3. 0 <= MaxCap /\ 0 \in 0..MaxCap
  BY SizesAssumption
<1>4. NoItems \in ArraysOf(FileType)
  BY <1>2, <1>3, HasType
<1>5. NoItems \in ArraysOf(HeaderType)
  BY <1>2, <1>3, HasType
<1>6. Entries = {}
  BY <1>2 DEF Init, Entries
<1>7. Typed
  BY <1>3, <1>4, <1>5, ZeroTypes DEF Init, Typed
<1>8. Told
  BY <1>6 DEF Init, Told
<1>9. QED
  BY <1>1, <1>7, <1>8 DEF TInv

\* the counts and the items of typed arrays
LEMMA EntryTypes ==
    ASSUME TInv
    PROVE  /\ IsArray(files) /\ IsArray(headers)
           /\ files.cap \in 0..MaxCap /\ headers.cap \in 0..MaxCap
           /\ Len(files.items) \in Nat /\ Len(headers.items) \in Nat
           /\ \A i \in 1..Len(files.items) : files.items[i] \in FileType
           /\ \A i \in 1..Len(headers.items) : headers.items[i] \in HeaderType
           /\ ~failed => Len(headers.items) = Len(files.items)
<1>1. files \in ArraysOf(FileType) /\ headers \in ArraysOf(HeaderType)
  BY DEF TInv, Typed
<1>2. ~failed => Len(headers.items) = Len(files.items)
  BY DEF TInv, IInv, InStep
<1>3. QED
  BY <1>1, <1>2, OfType

\* a call that fails leaves types only
LEMMA FailedTold ==
    ASSUME TInv, NEW fs \in ArraysOf(FileType), NEW hs \in ArraysOf(HeaderType),
           OutOfMemory(fs, hs), Len(files.items) <= Len(fs.items), IInv'
    PROVE  TInv'
<1>1. /\ files' = fs /\ headers' = hs /\ failed' = TRUE
      /\ UNCHANGED <<dir, held, reserved, fixed, listed>>
  BY DEF OutOfMemory
<1>2. Len(files.items) \in Nat /\ Len(fs.items) \in Nat
  BY EntryTypes, OfType
<1>3. Entries \subseteq 1..Len(fs.items)
  BY <1>2 DEF Entries
<1>4. Typed'
  BY <1>1, <1>3 DEF TInv, Typed, Entries
<1>5. QED
  BY <1>1, <1>4 DEF TInv, Told

\* where nothing but held, failed and reserved may change
LEMMA SameTold ==
    ASSUME TInv, UNCHANGED <<files, headers, dir, fixed, listed>>, held' \subseteq Entries,
           failed' \in BOOLEAN, failed => failed', reserved' \in 0..MaxCap, IInv'
    PROVE  TInv'
<1>1. Typed'
  BY DEF TInv, Typed, Entries
<1>2. Told'
  BY DEF TInv, Told, Entries, EntryTells, DirTells, FilesSize, HeadersSize, LocalSize, HeaderSize
<1>3. QED
  BY <1>1, <1>2 DEF TInv

LEMMA ReserveTold ==
    ASSUME TInv, NEW count \in 1..MaxCap, ReserveEntries(count), IInv' PROVE TInv'
<1>1. count \in Nat /\ IsArray(files) /\ IsArray(headers) /\ held \subseteq Entries
  BY EntryTypes DEF TInv, Typed
<1>2. \A fs \in Reserves(files, count) : fs \in ArraysOf(FileType) /\ fs.items = files.items
  <2>1. ASSUME NEW fs \in Reserves(files, count)
        PROVE  fs \in ArraysOf(FileType) /\ fs.items = files.items
    <3>1. IsArray(fs) /\ fs.items = files.items
      BY <1>1, ReservedArray
    <3>2. fs.cap <= MaxCap
      BY <1>1, EntryTypes, GrownWithin
    <3>3. \A i \in 1..Len(fs.items) : fs.items[i] \in FileType
      BY <3>1, EntryTypes
    <3>4. QED
      BY <3>1, <3>2, <3>3, HasType
  <2>2. QED
    BY <2>1
<1>3. \A hs \in Reserves(headers, count) : hs \in ArraysOf(HeaderType) /\ hs.items = headers.items
  <2>1. ASSUME NEW hs \in Reserves(headers, count)
        PROVE  hs \in ArraysOf(HeaderType) /\ hs.items = headers.items
    <3>1. IsArray(hs) /\ hs.items = headers.items
      BY <1>1, ReservedArray
    <3>2. hs.cap <= MaxCap
      BY <1>1, EntryTypes, GrownWithin
    <3>3. \A i \in 1..Len(hs.items) : hs.items[i] \in HeaderType
      BY <3>1, EntryTypes
    <3>4. QED
      BY <3>1, <3>2, <3>3, HasType
  <2>2. QED
    BY <2>1
<1>4. ASSUME NEW fs \in Reserves(files, count), NEW hs \in Reserves(headers, count),
             files' = fs, headers' = hs, held' = Kept(files, fs) \cap Kept(headers, hs),
             reserved' = IF count > reserved THEN count ELSE reserved,
             UNCHANGED <<dir, failed, fixed, listed>>
      PROVE  TInv'
  <2>1. held' \subseteq held
    BY <1>4 DEF Kept
  <2>2. files'.items = files.items /\ headers'.items = headers.items
    BY <1>2, <1>3, <1>4
  <2>3. reserved' \in 0..MaxCap
    BY <1>1, <1>4 DEF TInv, Typed
  <2>4. Entries' = Entries
    BY <2>2 DEF Entries
  <2>5. Typed'
    BY <1>1, <1>2, <1>3, <1>4, <2>1, <2>3, <2>4 DEF TInv, Typed
  <2>6. Told'
    BY <1>4, <2>2, <2>4 DEF TInv, Told, EntryTells, DirTells, FilesSize, HeadersSize, LocalSize,
                            HeaderSize
  <2>7. QED
    BY <2>5, <2>6 DEF TInv
<1>5. \A fs : fs.items = files.items => Len(files.items) <= Len(fs.items)
  BY EntryTypes
<1>6. files \in ArraysOf(FileType) /\ headers \in ArraysOf(HeaderType)
  BY DEF TInv, Typed
<1>7. CASE OutOfMemory(files, headers)
  BY <1>5, <1>6, <1>7, FailedTold
<1>8. ASSUME NEW fs \in Reserves(files, count), OutOfMemory(fs, headers) PROVE TInv'
  BY <1>2, <1>5, <1>6, <1>8, FailedTold
<1>9. QED
  BY <1>4, <1>7, <1>8 DEF ReserveEntries

LEMMA AddTold == ASSUME TInv, AddEntry, IInv' PROVE TInv'
<1>1. /\ ~failed /\ held \subseteq 1..Len(files.items) /\ fixed \subseteq 1..Len(files.items)
      /\ Len(files.items) \in Nat
  BY EntryTypes DEF AddEntry, TInv, Typed, Entries
<1>2. ASSUME NEW fs \in Pushes(files, ZeroFile)
      PROVE  /\ fs \in ArraysOf(FileType) /\ Len(fs.items) = Len(files.items) + 1
             /\ \A i \in 1..Len(files.items) : fs.items[i] = files.items[i]
             /\ fs.items[Len(files.items) + 1] = ZeroFile
  <2>1. /\ IsArray(fs) /\ Len(fs.items) = Len(files.items) + 1
        /\ \A i \in 1..Len(files.items) : fs.items[i] = files.items[i]
        /\ fs.items[Len(files.items) + 1] = ZeroFile
    BY PushedFiles DEF TInv
  <2>2. fs.cap <= MaxCap
    BY EntryTypes, GrownWithin
  <2>3. \A i \in 1..Len(fs.items) : i \in 1..Len(files.items) \/ i = Len(files.items) + 1
    BY <1>1, <2>1
  <2>4. \A i \in 1..Len(fs.items) : fs.items[i] \in FileType
    BY <2>1, <2>3, EntryTypes, ZeroTypes
  <2>5. QED
    BY <2>1, <2>2, <2>4, HasType
<1>3. ASSUME NEW hs \in Pushes(headers, ZeroHeader)
      PROVE  /\ hs \in ArraysOf(HeaderType) /\ Len(hs.items) = Len(headers.items) + 1
             /\ \A i \in 1..Len(headers.items) : hs.items[i] = headers.items[i]
  <2>1. /\ IsArray(hs) /\ Len(hs.items) = Len(headers.items) + 1
        /\ \A i \in 1..Len(headers.items) : hs.items[i] = headers.items[i]
        /\ hs.items[Len(headers.items) + 1] = ZeroHeader
    BY PushedHeaders DEF TInv
  <2>2. hs.cap <= MaxCap
    BY EntryTypes, GrownWithin
  <2>3. \A i \in 1..Len(hs.items) : i \in 1..Len(headers.items) \/ i = Len(headers.items) + 1
    BY <2>1, EntryTypes
  <2>4. \A i \in 1..Len(hs.items) : hs.items[i] \in HeaderType
    BY <2>1, <2>3, EntryTypes, ZeroTypes
  <2>5. QED
    BY <2>1, <2>2, <2>4, HasType
<1>4. ASSUME NEW fs \in Pushes(files, ZeroFile), NEW hs \in Pushes(headers, ZeroHeader),
             files' = fs, headers' = hs, listed' = FALSE,
             held' = (Kept(files, fs) \cap Kept(headers, hs)) \cup {Len(fs.items)},
             UNCHANGED <<dir, failed, reserved, fixed>>
      PROVE  TInv'
  <2>1. PICK n \in Nat : n = Len(files.items)
    BY <1>1
  <2>2. Entries' = 1..(n + 1) /\ \A i \in 1..(n + 1) : i \in 1..n \/ i = n + 1
    BY <1>2, <1>4, <2>1 DEF Entries
  <2>3. 1..n \subseteq 1..(n + 1) /\ n + 1 \in 1..(n + 1)
    OBVIOUS
  <2>4. held' \subseteq held \cup {n + 1}
    BY <1>2, <1>4, <2>1 DEF Kept
  <2>5. Typed'
    BY <1>1, <1>2, <1>3, <1>4, <2>1, <2>2, <2>3, <2>4 DEF TInv, Typed
  <2>6. /\ \A i \in 1..n : files'.items[i] = files.items[i] /\ headers'.items[i] = headers.items[i]
        /\ files'.items[n + 1] = ZeroFile
    <3>1. \A i \in 1..n : files'.items[i] = files.items[i]
      BY <1>2, <1>4, <2>1
    <3>2. \A i \in 1..n : headers'.items[i] = headers.items[i]
      BY <1>1, <1>3, <1>4, <2>1, EntryTypes
    <3>3. files'.items[n + 1] = ZeroFile
      BY <1>2, <1>4, <2>1
    <3>4. QED
      BY <3>1, <3>2, <3>3
  <2>7. \A i \in Entries' : Filled(files'.items[i])
    <3>1. \A i \in 1..n : Filled(files.items[i])
      BY <1>1, <2>1 DEF TInv, Told, Entries
    <3>2. QED
      BY <2>2, <2>6, <3>1, ZeroTypes
  <2>8. ASSUME NEW k \in fixed PROVE EntryTells(k)'
    <3>1. k \in 1..n /\ \A i \in 1..(k - 1) : i \in 1..n
      BY <1>1, <2>1
    <3>2. FilesSize(k - 1)' = FilesSize(k - 1)
      BY <2>6, <3>1, FilesSizeKept
    <3>3. EntryTells(k)
      BY <1>1 DEF TInv, Told
    <3>4. QED
      BY <2>6, <3>1, <3>2, <3>3 DEF EntryTells
  <2>9. Told'
    BY <1>4, <2>7, <2>8 DEF Told, Filled
  <2>10. QED
    BY <2>5, <2>9 DEF TInv
<1>5. ASSUME NEW fs \in Pushes(files, ZeroFile) \cup MayFail(files),
             NEW hs \in Pushes(headers, ZeroHeader) \cup MayFail(headers),
             OutOfMemory(fs, hs)
      PROVE  TInv'
  <2>1. fs \in ArraysOf(FileType) /\ Len(files.items) <= Len(fs.items)
    <3>1. CASE fs \in Pushes(files, ZeroFile)
      BY <1>1, <1>2, <3>1
    <3>2. CASE fs = files
      BY <1>1, <3>2 DEF TInv, Typed
    <3>3. QED
      BY <1>5, <3>1, <3>2 DEF MayFail
  <2>2. hs \in ArraysOf(HeaderType)
    <3>1. CASE hs \in Pushes(headers, ZeroHeader)
      BY <1>3, <3>1
    <3>2. CASE hs = headers
      BY <3>2 DEF TInv, Typed
    <3>3. QED
      BY <1>5, <3>1, <3>2 DEF MayFail
  <2>3. QED
    BY <1>5, <2>1, <2>2, FailedTold
<1>6. QED
  BY <1>4, <1>5 DEF AddEntry

\* fs and hs are the arrays in which entry k has become a file and a header
Reset(k, f, h, fs, hs) ==
    /\ fs \in ArraysOf(FileType) /\ hs \in ArraysOf(HeaderType)
    /\ Len(fs.items) = Len(files.items) /\ Len(hs.items) = Len(files.items)
    /\ \A i \in 1..Len(files.items) :
         /\ fs.items[i] = (IF i = k THEN f ELSE files.items[i])
         /\ hs.items[i] = (IF i = k THEN h ELSE headers.items[i])

LEMMA EntryTyped ==
    ASSUME TInv, ~failed, NEW k \in held, NEW f \in FileType, NEW h \in HeaderType,
           NEW fs, NEW hs, fs = [files EXCEPT !.items[k] = f],
           hs = [headers EXCEPT !.items[k] = h]
    PROVE  Reset(k, f, h, fs, hs)
<1>1. k \in 1..Len(files.items) /\ k \in 1..Len(headers.items)
      /\ Len(headers.items) = Len(files.items)
  BY EntryTypes DEF TInv, Typed, Entries
<1>2. Altered(files, k, f, fs)
  BY <1>1, EntryTypes, ChangedArray
<1>3. Altered(headers, k, h, hs)
  BY <1>1, EntryTypes, ChangedArray
<1>4. fs \in ArraysOf(FileType)
  <2>1. IsArray(fs) /\ fs.cap = files.cap /\ \A i \in 1..Len(fs.items) : fs.items[i] \in FileType
    BY <1>2, EntryTypes DEF Altered
  <2>2. fs.cap <= MaxCap
    BY <2>1, EntryTypes, SizesAssumption
  <2>3. QED
    BY <2>1, <2>2, HasType
<1>5. hs \in ArraysOf(HeaderType)
  <2>1. IsArray(hs) /\ hs.cap = headers.cap /\ \A i \in 1..Len(hs.items) : hs.items[i] \in HeaderType
    BY <1>3, EntryTypes DEF Altered
  <2>2. hs.cap <= MaxCap
    BY <2>1, EntryTypes, SizesAssumption
  <2>3. QED
    BY <2>1, <2>2, HasType
<1>6. QED
  BY <1>1, <1>2, <1>3, <1>4, <1>5 DEF Altered, Reset

LEMMA EntryFailsTold ==
    ASSUME TInv, ~failed, NEW k \in held, NEW f \in FileType, NEW h \in HeaderType,
           ChangeFails(k, f, h), IInv'
    PROVE  TInv'
<1>1. PICK fs, hs : /\ fs = [files EXCEPT !.items[k] = f] /\ hs = [headers EXCEPT !.items[k] = h]
                    /\ OutOfMemory(fs, hs)
  BY DEF ChangeFails
<1>2. /\ fs \in ArraysOf(FileType) /\ hs \in ArraysOf(HeaderType)
      /\ Len(fs.items) = Len(files.items)
  <2>1. Reset(k, f, h, fs, hs)
    BY <1>1, EntryTyped
  <2>2. QED
    BY <2>1 DEF Reset
<1>3. Len(files.items) <= Len(fs.items)
  BY <1>2, EntryTypes
<1>4. QED
  BY <1>1, <1>2, <1>3, FailedTold

\* a setter: the entries before it go on telling the truth, and so may the entry itself
LEMMA EntryTold ==
    ASSUME TInv, ~failed, NEW k \in held, NEW f \in FileType, NEW h \in HeaderType, NEW still,
           Change(k, f, h, still), still \subseteq {k}, Filled(f),
           k \in still => /\ f.data = files.items[k].data /\ f.csize = files.items[k].csize
                          /\ f.usize = files.items[k].usize /\ f.crc = files.items[k].crc
                          /\ h.csize = headers.items[k].csize /\ h.usize = headers.items[k].usize
                          /\ h.crc = headers.items[k].crc /\ h.off = headers.items[k].off,
           IInv'
    PROVE  TInv'
<1>1. /\ files' = [files EXCEPT !.items[k] = f] /\ headers' = [headers EXCEPT !.items[k] = h]
      /\ fixed' = {i \in fixed : i < k} \cup (fixed \cap still) /\ listed' = FALSE
      /\ UNCHANGED <<dir, held, failed, reserved>>
  BY DEF Change
<1>2. /\ files' \in ArraysOf(FileType) /\ headers' \in ArraysOf(HeaderType)
      /\ Len(files'.items) = Len(files.items)
      /\ \A i \in 1..Len(files.items) :
           /\ files'.items[i] = (IF i = k THEN f ELSE files.items[i])
           /\ headers'.items[i] = (IF i = k THEN h ELSE headers.items[i])
  <2>1. PICK fs, hs : fs = files' /\ hs = headers'
    OBVIOUS
  <2>2. fs = [files EXCEPT !.items[k] = f] /\ hs = [headers EXCEPT !.items[k] = h]
    BY <1>1, <2>1
  <2>3. Reset(k, f, h, fs, hs)
    BY <2>2, EntryTyped
  <2>4. QED
    BY <2>1, <2>3 DEF Reset
<1>3. Entries' = Entries /\ k \in Entries /\ fixed \subseteq Entries
  BY <1>2 DEF TInv, Typed, Entries
<1>4. fixed' \subseteq fixed /\ \A i \in fixed' : i < k \/ (i = k /\ k \in still)
  BY <1>1
<1>5. Typed'
  BY <1>1, <1>2, <1>3, <1>4 DEF TInv, Typed
<1>6. \A i \in Entries : Filled(files'.items[i])
  BY <1>2 DEF TInv, Told, Entries
<1>7. ASSUME NEW i \in fixed' PROVE EntryTells(i)'
  <2>1. EntryTells(i) /\ i \in 1..Len(files.items) /\ k \in 1..Len(files.items) /\ i <= k
    BY <1>3, <1>4 DEF TInv, Told, Entries
  <2>2. \A j \in 1..(i - 1) : j \in 1..Len(files.items) /\ j # k
    BY <2>1, EntryTypes
  <2>3. FilesSize(i - 1)' = FilesSize(i - 1)
    BY <1>2, <2>2, FilesSizeKept
  <2>4. CASE i # k
    BY <1>2, <2>1, <2>3, <2>4 DEF EntryTells
  <2>5. CASE i = k
    <3>1. k \in still
      BY <1>4, <2>1, <2>5
    <3>2. files'.items[i] = f /\ headers'.items[i] = h
      BY <1>2, <2>1, <2>5
    <3>3. QED
      BY <2>1, <2>3, <2>5, <3>1, <3>2 DEF EntryTells
  <2>6. QED
    BY <2>4, <2>5
<1>8. Told'
  BY <1>1, <1>3, <1>6, <1>7 DEF Told, Filled
<1>9. QED
  BY <1>5, <1>8 DEF TInv

LEMMA HeldEntry ==
    ASSUME TInv, ~failed, NEW k \in held
    PROVE  /\ files.items[k] \in FileType /\ headers.items[k] \in HeaderType
           /\ Filled(files.items[k])
BY EntryTypes DEF TInv, Typed, Told, Entries

LEMMA FileNameTold ==
    ASSUME TInv, NEW k \in held, NEW s \in Names, FileName(k, s), IInv' PROVE TInv'
<1> DEFINE n == Len(s) % W16
           f == files.items[k]
           h == headers.items[k]
           f1 == [f EXCEPT !.nlen = n]
           f2 == [f EXCEPT !.nlen = n, !.name = s]
           h1 == [h EXCEPT !.nlen = n]
           h2 == [h EXCEPT !.nlen = n, !.name = s]
<1>1. ~failed /\ (Change(k, f2, h2, {k}) \/ ChangeFails(k, f1, h) \/ ChangeFails(k, f2, h1))
  BY DEF FileName
<1>2. f \in FileType /\ h \in HeaderType /\ Filled(f)
  BY <1>1, HeldEntry
<1>3. s \in Seq(Int) /\ n \in Nat
  BY Contents
<1> HIDE DEF n, f, h
<1>4. f1 \in FileType /\ f2 \in FileType /\ h1 \in HeaderType /\ h2 \in HeaderType
  BY <1>2, <1>3 DEF FileType, HeaderType
<1>5. /\ f2.data = f.data /\ f2.csize = f.csize /\ f2.usize = f.usize /\ f2.crc = f.crc
      /\ h2.csize = h.csize /\ h2.usize = h.usize /\ h2.crc = h.crc /\ h2.off = h.off
  BY <1>2 DEF FileType, HeaderType
<1>6. Filled(f2)
  BY <1>2, <1>5 DEF Filled
<1> HIDE DEF f1, f2, h1, h2
<1>7. CASE Change(k, f2, h2, {k})
  <2>1. /\ f2.data = files.items[k].data /\ f2.csize = files.items[k].csize
        /\ f2.usize = files.items[k].usize /\ f2.crc = files.items[k].crc
        /\ h2.csize = headers.items[k].csize /\ h2.usize = headers.items[k].usize
        /\ h2.crc = headers.items[k].crc /\ h2.off = headers.items[k].off
    BY <1>5 DEF f, h
  <2>2. QED
    BY <1>1, <1>4, <1>6, <1>7, <2>1, EntryTold
<1>8. CASE ChangeFails(k, f1, h)
  BY <1>1, <1>2, <1>4, <1>8, EntryFailsTold
<1>9. CASE ChangeFails(k, f2, h1)
  BY <1>1, <1>4, <1>9, EntryFailsTold
<1>10. QED
  BY <1>1, <1>7, <1>8, <1>9

LEMMA ExtraFieldTold ==
    ASSUME TInv, NEW k \in held, NEW s \in Extras, ExtraField(k, s), IInv' PROVE TInv'
<1> DEFINE n == Len(s) % W16
           f == files.items[k]
           h == headers.items[k]
           f1 == [f EXCEPT !.elen = n]
           f2 == [f EXCEPT !.elen = n, !.extra = s]
           h1 == [h EXCEPT !.elen = n]
           h2 == [h EXCEPT !.elen = n, !.extra = s]
<1>1. /\ ~failed
      /\ \/ Change(k, f2, h2, {k}) \/ ChangeFails(k, f1, h) \/ ChangeFails(k, f2, h1)
         \/ UNCHANGED vars
  BY DEF ExtraField
<1>2. f \in FileType /\ h \in HeaderType /\ Filled(f)
  BY <1>1, HeldEntry
<1>3. s \in Seq(Int) /\ n \in Nat
  BY Contents
<1> HIDE DEF n, f, h
<1>4. f1 \in FileType /\ f2 \in FileType /\ h1 \in HeaderType /\ h2 \in HeaderType
  BY <1>2, <1>3 DEF FileType, HeaderType
<1>5. /\ f2.data = f.data /\ f2.csize = f.csize /\ f2.usize = f.usize /\ f2.crc = f.crc
      /\ h2.csize = h.csize /\ h2.usize = h.usize /\ h2.crc = h.crc /\ h2.off = h.off
  BY <1>2 DEF FileType, HeaderType
<1>6. Filled(f2)
  BY <1>2, <1>5 DEF Filled
<1> HIDE DEF f1, f2, h1, h2
<1>7. CASE Change(k, f2, h2, {k})
  <2>1. /\ f2.data = files.items[k].data /\ f2.csize = files.items[k].csize
        /\ f2.usize = files.items[k].usize /\ f2.crc = files.items[k].crc
        /\ h2.csize = headers.items[k].csize /\ h2.usize = headers.items[k].usize
        /\ h2.crc = headers.items[k].crc /\ h2.off = headers.items[k].off
    BY <1>5 DEF f, h
  <2>2. QED
    BY <1>1, <1>4, <1>6, <1>7, <2>1, EntryTold
<1>8. CASE ChangeFails(k, f1, h)
  BY <1>1, <1>2, <1>4, <1>8, EntryFailsTold
<1>9. CASE ChangeFails(k, f2, h1)
  BY <1>1, <1>4, <1>9, EntryFailsTold
<1>10. CASE UNCHANGED vars
  BY <1>10, SameTold DEF vars, zip, TInv, Typed
<1>11. QED
  BY <1>1, <1>7, <1>8, <1>9, <1>10

LEMMA FileDataTold ==
    ASSUME TInv, NEW k \in held, NEW s \in Datas, FileData(k, s), IInv' PROVE TInv'
<1> DEFINE n == Len(s) % W32
           f == files.items[k]
           h == headers.items[k]
           f1 == [f EXCEPT !.csize = n]
           f2 == [f1 EXCEPT !.data = s]
<1>1. ~failed /\ (Change(k, f2, h, {}) \/ ChangeFails(k, f1, h))
  BY DEF FileData
<1>2. f \in FileType /\ h \in HeaderType
  BY <1>1, HeldEntry
<1>3. s \in Seq(Int) /\ n \in Nat
  BY Contents
<1> HIDE DEF f, h
<1>4. f2.data = s /\ f2.csize = n
  BY <1>2 DEF FileType
<1>5. Filled(f2)
  BY <1>4 DEF Filled
<1> HIDE DEF n
<1>6. f1 \in FileType /\ f2 \in FileType
  BY <1>2, <1>3 DEF FileType
<1> HIDE DEF f1, f2
<1>7. CASE Change(k, f2, h, {})
  <2>1. {} \subseteq {k} /\ ~(k \in {})
    OBVIOUS
  <2>2. QED
    BY <1>1, <1>2, <1>5, <1>6, <1>7, <2>1, EntryTold
<1>8. CASE ChangeFails(k, f1, h)
  BY <1>1, <1>2, <1>6, <1>8, EntryFailsTold
<1>9. QED
  BY <1>1, <1>7, <1>8

\* zip_fix_entry takes the checksum of no more than there is
LEMMA Remainder ==
    ASSUME NEW n \in Nat, NEW w \in Nat \ {0}
    PROVE  n % w \in 0..n
<1>1. PICK x : x = n % w
  OBVIOUS
<1>2. x \in 0..(w - 1) /\ (n < w => x = n)
  BY <1>1, ModIs
<1>3. x \in 0..n
  BY <1>2
<1>4. QED
  BY <1>1, <1>3

LEMMA FixEntryTold == ASSUME TInv, NEW k \in held, FixEntry(k), IInv' PROVE TInv'
<1> DEFINE f == files.items[k]
           h == headers.items[k]
           crc == Crc(SubSeq(f.data, 1, f.csize))
           off == Offset(k)
           f1 == [f EXCEPT !.crc = crc, !.usize = f.csize]
           h1 == [h EXCEPT !.crc = crc, !.usize = f.csize, !.csize = f.csize, !.off = off]
<1>1. /\ ~failed /\ fixed' = fixed \cup {k} /\ UNCHANGED <<dir, held, failed, reserved, listed>>
      /\ files' = [files EXCEPT !.items[k] = f1] /\ headers' = [headers EXCEPT !.items[k] = h1]
  BY DEF FixEntry
<1>2. /\ f \in FileType /\ h \in HeaderType /\ Filled(f)
      /\ k \in 1..Len(files.items) /\ Len(files.items) \in Nat
  BY <1>1, HeldEntry, EntryTypes DEF TInv, Typed, Entries
<1>3. crc = Crc(SubSeq(f.data, 1, f.csize)) /\ crc \in Int
  <2>1. PICK m \in Nat : m = Len(f.data)
    BY <1>2 DEF FileType
  <2>2. f.csize = m % W32 /\ f.data \in Datas \cup {<< >>}
    BY <1>2, <2>1 DEF Filled
  <2>3. m % W32 \in 0..m
    BY Remainder, WidthsAssumption
  <2>4. QED
    BY <2>1, <2>2, <2>3, CrcAssumption
<1>4. off \in Nat /\ off = FilesSize(k - 1) % W32
  <2>1. k - 1 \in 0..Len(files.items)
    BY <1>2
  <2>2. PICK m \in Nat : m = FilesSize(k - 1)
    BY <2>1, Sizes DEF TInv
  <2>3. m % W32 \in Nat
    BY Contents
  <2>4. QED
    BY <2>2, <2>3 DEF Offset
<1> HIDE DEF f, h, crc, off
<1>5. f1 \in FileType /\ h1 \in HeaderType
  <2>1. f.csize \in Nat
    BY <1>2 DEF FileType
  <2>2. f1 \in FileType
    BY <1>2, <1>3, <2>1 DEF FileType
  <2>3. h1 \in HeaderType
    BY <1>2, <1>3, <1>4, <2>1 DEF HeaderType
  <2>4. QED
    BY <2>2, <2>3
<1>6. /\ f1.data = f.data /\ f1.csize = f.csize /\ f1.nlen = f.nlen /\ f1.elen = f.elen
      /\ f1.usize = f.csize /\ f1.crc = crc
      /\ h1.nlen = h.nlen /\ h1.elen = h.elen
      /\ h1.csize = f.csize /\ h1.usize = f.csize /\ h1.crc = crc /\ h1.off = off
  BY <1>2 DEF FileType, HeaderType
<1> HIDE DEF f1, h1
<1>7. /\ files' \in ArraysOf(FileType) /\ headers' \in ArraysOf(HeaderType)
      /\ Len(files'.items) = Len(files.items) /\ Len(headers'.items) = Len(files.items)
      /\ \A i \in 1..Len(files.items) :
           /\ files'.items[i] = (IF i = k THEN f1 ELSE files.items[i])
           /\ headers'.items[i] = (IF i = k THEN h1 ELSE headers.items[i])
  <2>1. PICK fs, hs : fs = files' /\ hs = headers'
    OBVIOUS
  <2>2. fs = [files EXCEPT !.items[k] = f1] /\ hs = [headers EXCEPT !.items[k] = h1]
    BY <1>1, <2>1
  <2>3. Reset(k, f1, h1, fs, hs)
    BY <1>1, <1>5, <2>2, EntryTyped
  <2>4. QED
    BY <2>1, <2>3 DEF Reset
<1>8. Entries' = Entries /\ k \in Entries
  BY <1>2, <1>7 DEF Entries
<1>9. Typed'
  BY <1>1, <1>7, <1>8 DEF TInv, Typed
<1>10. \A i \in 1..Len(files.items) :
          /\ LocalSize(files'.items[i]) = LocalSize(files.items[i])
          /\ HeaderSize(headers'.items[i]) = HeaderSize(headers.items[i])
  <2>1. LocalSize(f1) = LocalSize(f) /\ HeaderSize(h1) = HeaderSize(h)
    BY <1>6 DEF LocalSize, HeaderSize
  <2>2. QED
    BY <1>7, <2>1 DEF f, h
<1>11. \A n \in 0..Len(files.items) : FilesSize(n)' = FilesSize(n)
  <2>1. ASSUME NEW n \in 0..Len(files.items) PROVE FilesSize(n)' = FilesSize(n)
    <3>1. \A i \in 1..n : i \in 1..Len(files.items)
      BY <1>2
    <3>2. QED
      BY <1>10, <3>1, FilesSizeKept
  <2>2. QED
    BY <2>1
<1>12. HeadersSize' = HeadersSize
  <2>1. Len(headers.items) = Len(files.items)
    BY <1>1, EntryTypes
  <2>2. QED
    BY <1>7, <1>10, <2>1, HeadersSizeKept
<1>13. \A i \in Entries : Filled(files'.items[i])
  <2>1. Filled(f1)
    BY <1>2, <1>6 DEF Filled
  <2>2. QED
    BY <1>1, <1>7, <2>1 DEF TInv, Told, Entries
<1>14. ASSUME NEW i \in fixed' PROVE EntryTells(i)'
  <2>1. i \in 1..Len(files.items) /\ i - 1 \in 0..Len(files.items)
    <3>1. i \in 1..Len(files.items)
      BY <1>1, <1>8 DEF TInv, Typed, Entries
    <3>2. QED
      BY <1>2, <3>1
  <2>2. FilesSize(i - 1)' = FilesSize(i - 1)
    BY <1>11, <2>1
  <2>3. CASE i = k
    <3>1. files'.items[i] = f1 /\ headers'.items[i] = h1
      BY <1>7, <2>1, <2>3
    <3>2. f.csize = Len(f.data) % W32
      BY <1>2 DEF Filled
    <3>3. /\ f1.csize = Len(f1.data) % W32 /\ f1.usize = f1.csize
          /\ f1.crc = Crc(SubSeq(f1.data, 1, f1.csize))
          /\ h1.csize = f1.csize /\ h1.usize = f1.usize /\ h1.crc = f1.crc
          /\ h1.off = FilesSize(k - 1) % W32
      BY <1>3, <1>4, <1>6, <3>2
    <3>4. QED
      BY <2>2, <2>3, <3>1, <3>3 DEF EntryTells
  <2>4. CASE i # k
    <3>1. files'.items[i] = files.items[i] /\ headers'.items[i] = headers.items[i]
      BY <1>7, <2>1, <2>4
    <3>2. EntryTells(i)
      BY <1>1, <2>4 DEF TInv, Told
    <3>3. QED
      BY <2>2, <3>1, <3>2 DEF EntryTells
  <2>5. QED
    BY <2>3, <2>4
<1>15. listed' => DirTells'
  <2>1. listed => DirTells
    BY <1>1 DEF TInv, Told
  <2>2. Len(files.items) \in 0..Len(files.items)
    BY <1>2
  <2>3. FilesSize(Len(files.items))' = FilesSize(Len(files.items))
    <3>1. PICK n : n = Len(files.items)
      OBVIOUS
    <3>2. FilesSize(n)' = FilesSize(n)
      BY <1>11, <2>2, <3>1
    <3>3. Len(files.items)' = n
      BY <1>7, <3>1
    <3>4. QED
      BY <3>1, <3>2, <3>3 DEF FilesSize
  <2>4. QED
    BY <1>1, <1>7, <1>12, <2>1, <2>3 DEF DirTells
<1>16. Told'
  BY <1>1, <1>8, <1>13, <1>14, <1>15 DEF Told, Filled
<1>17. QED
  BY <1>9, <1>16 DEF TInv

LEMMA FixCentralDirTold == ASSUME TInv, FixCentralDir, IInv' PROVE TInv'
<1>1. /\ ~failed /\ listed' = TRUE /\ UNCHANGED <<files, headers, held, failed, reserved, fixed>>
      /\ dir' = [dir EXCEPT !.entries = Len(files.items) % W16, !.size = HeadersSize % W32,
                            !.off = FilesSize(Len(files.items)) % W32]
  BY DEF FixCentralDir
<1>2. PICK n, size, off : /\ n = Len(files.items) % W16 /\ size = HeadersSize % W32
                          /\ off = FilesSize(Len(files.items)) % W32
  OBVIOUS
<1>3. n \in Nat /\ size \in Nat /\ off \in Nat
  <2>1. Len(files.items) \in Nat /\ Len(files.items) \in 0..Len(files.items)
    BY EntryTypes
  <2>2. n \in Nat
    <3>1. PICK m \in Nat : m = Len(files.items)
      BY <2>1
    <3>2. m % W16 \in Nat
      BY Contents
    <3>3. QED
      BY <1>2, <3>1, <3>2
  <2>3. size \in Nat /\ off \in Nat
    <3>1. PICK s \in Nat, o \in Nat : s = HeadersSize /\ o = FilesSize(Len(files.items))
      BY <2>1, Sizes DEF TInv
    <3>2. s % W32 \in Nat /\ o % W32 \in Nat
      BY <3>1, Contents
    <3>3. QED
      BY <1>2, <3>1, <3>2
  <2>4. QED
    BY <2>2, <2>3
<1>4. dir' = [dir EXCEPT !.entries = n, !.size = size, !.off = off] /\ dir \in DirType
  BY <1>1, <1>2 DEF TInv, Typed
<1>5. dir' \in DirType /\ dir'.entries = n /\ dir'.size = size /\ dir'.off = off
  BY <1>3, <1>4 DEF DirType
<1>6. Typed'
  BY <1>1, <1>5 DEF TInv, Typed, Entries
<1>7. Told'
  <2>1. /\ \A k \in Entries : Filled(files.items[k])
        /\ \A k \in fixed : EntryTells(k)
    BY <1>1 DEF TInv, Told
  <2>2. \A k \in fixed : EntryTells(k)'
    BY <1>1, <2>1 DEF EntryTells, FilesSize, LocalSize
  <2>3. DirTells'
    BY <1>1, <1>2, <1>5 DEF DirTells, HeadersSize, FilesSize, LocalSize, HeaderSize
  <2>4. QED
    BY <1>1, <2>1, <2>2, <2>3 DEF Told, Entries, Filled
<1>8. QED
  BY <1>6, <1>7 DEF TInv

LEMMA CommentTold ==
    ASSUME TInv, NEW s \in Comments, CentralDirComment(s), IInv' PROVE TInv'
<1>1. /\ ~failed /\ failed' \in BOOLEAN
      /\ UNCHANGED <<files, headers, held, reserved, fixed, listed>>
      /\ \/ dir' = [dir EXCEPT !.clen = Len(s) % W16, !.comment = s]
         \/ \E c \in {Dangling, << >>} : dir' = [dir EXCEPT !.clen = Len(s) % W16, !.comment = c]
  BY DEF CentralDirComment, TInv, Typed
<1>2. PICK n \in Nat : n = Len(s) % W16
  BY Contents
<1>3. s \in Seq(Int) /\ dir \in DirType
  BY Contents DEF TInv, Typed
<1>4. dir' \in DirType /\ dir'.entries = dir.entries /\ dir'.size = dir.size /\ dir'.off = dir.off
  <2>1. CASE dir' = [dir EXCEPT !.clen = n, !.comment = s]
    BY <1>2, <1>3, <2>1 DEF DirType
  <2>2. ASSUME NEW c \in {Dangling, << >>}, dir' = [dir EXCEPT !.clen = n, !.comment = c]
        PROVE  /\ dir' \in DirType
               /\ dir'.entries = dir.entries /\ dir'.size = dir.size /\ dir'.off = dir.off
    <3>1. << >> \in Seq(Int)
      OBVIOUS
    <3>2. QED
      BY <1>2, <1>3, <2>2, <3>1 DEF DirType
  <2>3. QED
    BY <1>1, <1>2, <2>1, <2>2
<1>5. Typed'
  BY <1>1, <1>4 DEF TInv, Typed, Entries
<1>6. Told'
  <2>1. /\ \A k \in Entries : Filled(files.items[k])
        /\ \A k \in fixed : EntryTells(k)
        /\ listed => DirTells
    BY <1>1 DEF TInv, Told
  <2>2. \A k \in fixed : EntryTells(k)'
    BY <1>1, <2>1 DEF EntryTells, FilesSize, LocalSize
  <2>3. DirTells => DirTells'
    BY <1>1, <1>4 DEF DirTells, HeadersSize, FilesSize, LocalSize, HeaderSize
  <2>4. QED
    BY <1>1, <2>1, <2>2, <2>3 DEF Told, Entries, Filled
<1>7. QED
  BY <1>5, <1>6 DEF TInv

LEMMA NextTold == TInv /\ [Next]_vars => TInv'
<1> SUFFICES ASSUME TInv, [Next]_vars PROVE TInv'
  OBVIOUS
<1>1. IInv'
  BY NextIInv DEF TInv
<1>2. held \subseteq Entries /\ failed \in BOOLEAN /\ reserved \in 0..MaxCap
  BY DEF TInv, Typed
<1>3. ASSUME NEW k \in Entries, GetEntry(k) PROVE TInv'
  BY <1>1, <1>2, <1>3, SameTold DEF GetEntry, zip
<1>4. CASE UNCHANGED vars
  BY <1>1, <1>2, <1>4, SameTold DEF vars, zip
<1>5. QED
  BY <1>1, <1>3, <1>4, ReserveTold, AddTold, FileNameTold, ExtraFieldTold, FileDataTold,
     FixEntryTold, FixCentralDirTold, CommentTold DEF Next

LEMMA ToldInvariant == Spec => []TInv
BY InitTold, NextTold, PTL DEF Spec

\* However many entries, whatever they hold and wherever realloc fails, the k-th local file and
\* the k-th header are one entry: archives.h never lets the two arrays drift apart, and what
\* zip_fix_entry and zip_fix_central_dir have told stays true until something it is about changes.
THEOREM EntriesPaired == Spec => []Paired
<1>1. TInv => Paired
  BY DEF TInv, IInv, InStep, Told, Paired, Same, SameEntry, Entries
<1>2. QED
  BY <1>1, ToldInvariant, PTL

\* The parts of an archive keep their shapes, however many entries it has, and a caller has only
\* entries that exist.
THEOREM TypeCorrect == Spec => []TypeOK
<1>1. TInv => TypeOK
  BY TypedIs DEF TInv
<1>2. QED
  BY <1>1, ToldInvariant, PTL

\* What zip_reserve_entries is recommended for, for every count and every order of calls: adding
\* entries up to the count invalidates no zip_entry, for both arrays got the room.
THEOREM ReservedKeepsHandles == Spec => HandlesKept
<1>1. IInv /\ [Next]_vars =>
        [Len(files.items) < Len(files'.items) /\ Len(files'.items) <= reserved
            => held \subseteq held']_vars
  <2> SUFFICES ASSUME IInv, Next, Len(files.items) < Len(files'.items),
                      Len(files'.items) <= reserved
               PROVE  held \subseteq held'
    OBVIOUS
  <2>1. /\ IsArray(files) /\ IsArray(headers)
        /\ Len(files.items) \in Nat /\ files.cap \in Nat /\ headers.cap \in Nat
        /\ reserved \in Nat
    BY SeqIs DEF IInv, Shape, IsArray
  <2>2. CASE AddEntry
    <3>1. ASSUME NEW fs \in Pushes(files, ZeroFile), NEW hs \in Pushes(headers, ZeroHeader),
                 files' = fs,
                 held' = (Kept(files, fs) \cap Kept(headers, hs)) \cup {Len(fs.items)}
          PROVE  held \subseteq held'
      <4>1. /\ ~failed /\ Len(headers.items) = Len(files.items)
            /\ reserved <= files.cap /\ reserved <= headers.cap
        BY <2>2 DEF AddEntry, IInv, Room, InStep
      <4>2. Len(fs.items) = Len(files.items) + 1
        BY PushedFiles
      <4>3. Len(files.items) < files.cap /\ Len(headers.items) < headers.cap
        BY <2>1, <3>1, <4>1, <4>2
      <4>4. files.cap = fs.cap /\ headers.cap = hs.cap
        BY <2>1, <4>3, PushedArray
      <4>5. QED
        BY <3>1, <4>4 DEF Kept
    <3>2. QED
      BY <2>2, <3>1 DEF AddEntry, OutOfMemory
  <2>3. ASSUME NEW count \in 1..MaxCap, ReserveEntries(count) PROVE FALSE
    <3>1. \A fs \in Reserves(files, count) : fs.items = files.items
      BY <2>1, ReservedArray, SizesAssumption
    <3>2. files'.items = files.items
      BY <2>3, <3>1 DEF ReserveEntries, OutOfMemory
    <3>3. QED
      BY <2>1, <3>2
  <2>4. ASSUME NEW k \in held, \/ \E s \in Names : FileName(k, s)
                               \/ \E s \in Extras : ExtraField(k, s)
                               \/ \E s \in Datas : FileData(k, s)
                               \/ FixEntry(k)
        PROVE  held \subseteq held'
    BY <2>4 DEF FileName, ExtraField, FileData, FixEntry, Change, ChangeFails, OutOfMemory, vars
  <2>5. ASSUME \/ \E k \in Entries : GetEntry(k)
               \/ FixCentralDir
               \/ \E s \in Comments : CentralDirComment(s)
        PROVE  held \subseteq held'
    BY <2>5 DEF GetEntry, FixCentralDir, CentralDirComment
  <2>6. QED
    BY <2>2, <2>3, <2>4, <2>5 DEF Next
<1>2. QED
  BY <1>1, Invariant, PTL DEF Spec, HandlesKept
-----------------------------------------------------------------------------
(***************************************************************************)
(* jvm.h: the counts that it keeps beside its arrays, for any class, any   *)
(* names and every failure of realloc.                                     *)
(***************************************************************************)

CONSTANTS Class, Kinds, JvmNames, Infos, Parsed

VARIABLES pool, constant_pool_count, members, members_count, own, using, ended

J == INSTANCE Jvm WITH Names <- JvmNames, held <- using, failed <- ended

\* its growable arrays are those of the zip files
LEMMA SameArrays ==
    /\ J!NoItems = NoItems
    /\ \A arr, item : J!Pushes(arr, item) = Pushes(arr, item)
    /\ \A arr : J!MayFail(arr) = MayFail(arr)
    /\ \A arr, count : J!Reserves(arr, count) = Reserves(arr, count)
BY DEF J!NoItems, NoItems, J!Pushes, Pushes, J!MayFail, MayFail, J!Reserves, Reserves

Counted(has) == has.count = Len(has.attributes.items) % W16

\* attributes with their count; a member; an array of members
IsHas(has) == has = [attributes |-> has.attributes, count |-> has.count] /\ IsArray(has.attributes)
IsMember(m) == m = [index |-> m.index, has |-> m.has] /\ IsHas(m.has)
IsMembers(arr) == IsArray(arr) /\ \A k \in 1..Len(arr.items) : IsMember(arr.items[k])

\* the members the caller has are there
Present(hs, ms) == \A h \in hs : h[1] \in Kinds /\ h[2] \in 1..Len(ms[h[1]].items)

IsMemberArrays(ms) ==
    ms = [kind \in Kinds |-> ms[kind]] /\ \A kind \in Kinds : IsMembers(ms[kind])

ClassShape ==
    /\ IsArray(pool) /\ IsMemberArrays(members) /\ IsHas(own)
    /\ members_count = [kind \in Kinds |-> members_count[kind]]
    /\ Present(using, members) /\ ended \in BOOLEAN

MembersCounted(arr, count) ==
    count = Len(arr.items) % W16 /\ \A k \in 1..Len(arr.items) : Counted(arr.items[k].has)

Counts ==
    ~ended => /\ constant_pool_count = (Len(pool.items) + 1) % W16
               /\ Counted(own)
               /\ \A kind \in Kinds : MembersCounted(members[kind], members_count[kind])

ClassInv == ClassShape /\ Counts
-----------------------------------------------------------------------------
(* Counting modulo the size of a count *)

LEMMA Times == ASSUME NEW W \in Nat \ {0}, NEW p \in Nat, NEW q \in Nat, p < q PROVE W * p + W <= W * q
<1>1. PICK d \in Nat : q = p + 1 + d
  BY SMT
<1>2. W * q = W * p + W + W * d
  BY <1>1
<1>3. W * d \in Nat
  OBVIOUS
<1>4. QED
  BY <1>2, <1>3
LEMMA DivMod == ASSUME NEW W \in Nat \ {0}, NEW n \in Nat
  PROVE n = W * (n \div W) + (n % W) /\ n % W \in 0..(W-1) /\ n \div W \in Nat
OBVIOUS
LEMMA Unique == ASSUME NEW W \in Nat \ {0}, NEW q \in Nat, NEW r \in 0..(W-1)
  PROVE (W * q + r) % W = r
<1> DEFINE n == W * q + r
           p == n \div W
           s == n % W
<1>1. n \in Nat /\ W * q \in Nat
  OBVIOUS
<1>2. n = W * p + s /\ s \in 0..(W-1) /\ p \in Nat
  BY <1>1, DivMod
<1> HIDE DEF p, s
<1>3. CASE p < q
  BY <1>2, <1>3, Times
<1>4. CASE q < p
  BY <1>2, <1>4, Times
<1>5. QED
  BY <1>2, <1>3, <1>4 DEF s
LEMMA CountedOn == ASSUME NEW W \in Nat \ {0}, NEW n \in Nat PROVE ((n % W) + 1) % W = (n + 1) % W
<1> DEFINE q == n \div W
           r == n % W
<1>1. n = W * q + r /\ r \in 0..(W - 1) /\ q \in Nat
  BY DivMod
<1> HIDE DEF q, r
<1>2. CASE r + 1 < W
  <2>1. r + 1 \in 0..(W - 1) /\ n + 1 = W * q + (r + 1)
    BY <1>1, <1>2
  <2>2. (n + 1) % W = r + 1
    BY <1>1, <2>1, Unique
  <2>3. (W * 0 + (r + 1)) % W = r + 1
    BY <2>1, Unique
  <2>4. QED
    BY <2>1, <2>2, <2>3 DEF r
<1>3. CASE r + 1 = W
  <2>1. q + 1 \in Nat /\ n + 1 = W * (q + 1) + 0
    BY <1>1, <1>3
  <2>2. 0 \in 0..(W - 1) /\ 1 \in Nat
    OBVIOUS
  <2>3. (W * (q + 1) + 0) % W = 0 /\ (W * 1 + 0) % W = 0
    BY <2>1, <2>2, Unique
  <2>4. (n + 1) % W = 0
    BY <2>1, <2>3
  <2>5. r + 1 = W * 1 + 0
    BY <1>3
  <2>6. (r + 1) % W = 0
    BY <2>3, <2>5
  <2>7. QED
    BY <2>4, <2>6 DEF r
<1>4. QED
  BY <1>1, <1>2, <1>3
-----------------------------------------------------------------------------
LEMMA ArrayIs == ASSUME NEW a, IsArray(a) PROVE Len(a.items) \in Nat /\ DOMAIN a.items = 1..Len(a.items)
BY SeqIs DEF IsArray

\* a kind gets other members
OtherKind(old, kind, arr, ms) ==
    IsMemberArrays(ms) /\ ms[kind] = arr /\ \A x \in Kinds : x # kind => ms[x] = old[x]

LEMMA KindSet ==
    ASSUME NEW old, IsMemberArrays(old), NEW kind \in Kinds, NEW arr, IsMembers(arr),
           NEW ms, ms = [old EXCEPT ![kind] = arr]
    PROVE  OtherKind(old, kind, arr, ms)
<1>1. ms[kind] = arr /\ \A x \in Kinds : x # kind => ms[x] = old[x]
  BY DEF IsMemberArrays
<1>2. ms = [x \in Kinds |-> ms[x]]
  BY DEF IsMemberArrays
<1>3. \A x \in Kinds : IsMembers(ms[x])
  BY <1>1 DEF IsMemberArrays
<1>4. QED
  BY <1>1, <1>2, <1>3 DEF IsMemberArrays, OtherKind

\* a member gets other attributes
Attributed(arr, k, has, b) ==
    /\ IsMembers(b) /\ Len(b.items) = Len(arr.items)
    /\ \A i \in 1..Len(arr.items) : b.items[i].has = IF i = k THEN has ELSE arr.items[i].has

LEMMA MemberSet ==
    ASSUME NEW arr, IsMembers(arr), NEW k \in 1..Len(arr.items), NEW has, IsHas(has),
           NEW b, b = [arr EXCEPT !.items[k].has = has]
    PROVE  Attributed(arr, k, has, b)
<1> DEFINE m == [arr.items[k] EXCEPT !.has = has]
<1>1. IsArray(arr) /\ IsMember(arr.items[k])
  BY DEF IsMembers
<1>2. IsMember(m) /\ m.has = has
  <2>1. m = [index |-> arr.items[k].index, has |-> has]
    BY <1>1 DEF IsMember
  <2>2. QED
    BY <2>1 DEF IsMember
<1>3. b = [arr EXCEPT !.items[k] = m]
  OBVIOUS
<1> HIDE DEF m
<1>4. Altered(arr, k, m, b)
  BY <1>1, <1>3, ChangedArray
<1>5. \A i \in 1..Len(b.items) : IsMember(b.items[i])
  BY <1>2, <1>4 DEF Altered, IsMembers
<1>6. IsMembers(b) /\ Len(b.items) = Len(arr.items)
  BY <1>4, <1>5 DEF Altered, IsMembers
<1>7. QED
  BY <1>2, <1>4, <1>6 DEF Altered, Attributed
-----------------------------------------------------------------------------
LEMMA InitClassInv ==
    ASSUME W16 \in Nat \ {0}, NEW S, Parsed \subseteq Seq(S), J!Init
    PROVE  ClassInv
<1>1. IsArray(NoItems) /\ Len(NoItems.items) = 0 /\ 1..Len(NoItems.items) = {}
  BY EmptyArray
<1>2. PICK constants \in Parsed : /\ pool = [items |-> constants, cap |-> Len(constants)]
                                  /\ constant_pool_count = (Len(constants) + 1) % W16
  BY SameArrays DEF J!Init
<1>3. IsArray(pool) /\ constant_pool_count = (Len(pool.items) + 1) % W16
  <2>1. constants \in Seq(S)
    OBVIOUS
  <2>2. IsSeq(constants)
    BY <2>1, SeqIsOf
  <2>3. pool.items = constants /\ pool.cap = Len(constants) /\ Len(constants) \in Nat
    BY <1>2, <2>1
  <2>4. QED
    BY <1>2, <2>2, <2>3 DEF IsArray
<1>4. IsMembers(NoItems)
  BY <1>1 DEF IsMembers
<1>5. /\ members = [kind \in Kinds |-> NoItems] /\ members_count = [kind \in Kinds |-> 0]
      /\ own = J!NoAttributes /\ using = {} /\ ended = FALSE
  BY SameArrays DEF J!Init
<1>6. IsMemberArrays(members)
  BY <1>4, <1>5 DEF IsMemberArrays
<1>7. IsHas(own) /\ own.count = 0 /\ own.attributes = NoItems
  BY SameArrays, <1>1, <1>5 DEF IsHas, J!NoAttributes
<1>8. ClassShape
  BY <1>3, <1>5, <1>6, <1>7 DEF ClassShape, Present
<1>9. 0 = 0 % W16
  OBVIOUS
<1>10. Counted(own) /\ \A kind \in Kinds : MembersCounted(members[kind], members_count[kind])
  BY <1>1, <1>5, <1>7, <1>9 DEF Counted, MembersCounted
<1>11. QED
  BY <1>3, <1>8, <1>10 DEF ClassInv, Counts
\* what a call that ends in exitf leaves to be shown
LEMMA FailsClassInv == ASSUME ClassShape', ended' = TRUE PROVE ClassInv'
BY DEF ClassInv, Counts

LEMMA UnchangedClassInv ==
    ASSUME ClassInv, UNCHANGED <<pool, constant_pool_count, members, members_count, own, ended>>,
           Present(using', members)
    PROVE  ClassInv'
BY DEF ClassInv, ClassShape, Counts

LEMMA FailsHere == ASSUME ClassInv, J!Fails, UNCHANGED <<pool, members, own>> PROVE ClassInv'
<1>1. ClassShape'
  BY DEF ClassInv, ClassShape, J!Fails
<1>2. QED
  BY <1>1, FailsClassInv DEF J!Fails

\* a reserved array has the same members
LEMMA ReservedMembers ==
    ASSUME NEW arr, IsMembers(arr), NEW count \in Nat, NEW b \in Reserves(arr, count)
    PROVE  IsMembers(b) /\ b.items = arr.items
<1>1. IsArray(b) /\ b.items = arr.items
  BY ReservedArray DEF IsMembers
<1>2. QED
  BY <1>1 DEF IsMembers

LEMMA ReserveMembersClassInv ==
    ASSUME ClassInv, NEW kind \in Kinds, NEW count \in 1..MaxCap, J!ReserveMembers(kind, count)
    PROVE  ClassInv'
<1>1. count \in Nat /\ IsMemberArrays(members) /\ IsMembers(members[kind])
  BY SizesAssumption DEF ClassInv, ClassShape, IsMemberArrays
<1>2. ASSUME NEW arr \in Reserves(members[kind], count),
             members' = [members EXCEPT ![kind] = arr], using' = J!Kept(kind, arr),
             UNCHANGED <<pool, constant_pool_count, members_count, own, ended>>
      PROVE  ClassInv'
  <2>1. IsMembers(arr) /\ arr.items = members[kind].items
    BY <1>1, ReservedMembers
  <2>2. PICK ms : members' = ms
    OBVIOUS
  <2>3. ms = [members EXCEPT ![kind] = arr]
    BY <1>2, <2>2
  <2>4. IsMemberArrays(ms) /\ ms[kind] = arr /\ \A x \in Kinds : x # kind => ms[x] = members[x]
    <3>1. OtherKind(members, kind, arr, ms)
      BY <1>1, <2>1, <2>3, KindSet
    <3>2. QED
      BY <3>1 DEF OtherKind
  <2>5. \A x \in Kinds : ms[x].items = members[x].items
    BY <2>1, <2>4
  <2>6. using' \subseteq using
    BY <1>2 DEF J!Kept
  <2>7. Present(using', ms)
    BY <2>5, <2>6 DEF ClassInv, ClassShape, Present
  <2>8. ClassShape'
    BY <1>2, <2>2, <2>4, <2>7 DEF ClassInv, ClassShape
  <2>9. Counts'
    BY <1>2, <2>2, <2>5 DEF ClassInv, Counts, MembersCounted
  <2>10. QED
    BY <2>8, <2>9 DEF ClassInv
<1>3. QED
  BY SameArrays, <1>2, FailsHere DEF J!ReserveMembers

\* a new member has no attributes, and the count counts it
LEMMA PushedMember ==
    ASSUME W16 \in Nat \ {0}, NEW arr, IsMembers(arr), NEW index,
           NEW b \in Pushes(arr, [index |-> index, has |-> J!NoAttributes])
    PROVE  /\ IsMembers(b) /\ Len(b.items) = Len(arr.items) + 1
           /\ \A count : MembersCounted(arr, count) => MembersCounted(b, (count + 1) % W16)
<1> DEFINE m == [index |-> index, has |-> J!NoAttributes]
<1>1. IsArray(arr) /\ IsSeq(arr.items) /\ Len(arr.items) \in Nat
  BY ArrayIs DEF IsMembers, IsArray
<1>2. IsArray(NoItems) /\ Len(NoItems.items) = 0
  BY EmptyArray
<1>3. m.has = J!NoAttributes /\ IsHas(J!NoAttributes) /\ IsMember(m)
  BY SameArrays, <1>2 DEF IsMember, IsHas, J!NoAttributes
<1>4. Counted(m.has)
  <2>1. 0 = 0 % W16
    OBVIOUS
  <2>2. m.has.attributes = NoItems /\ m.has.count = 0
    BY SameArrays, <1>3 DEF J!NoAttributes
  <2>3. QED
    BY <1>2, <2>1, <2>2 DEF Counted
<1> HIDE DEF m
<1>5. IsArray(b) /\ b.items = Append(arr.items, m)
  BY <1>1, PushedArray DEF m
<1>6. /\ Len(b.items) = Len(arr.items) + 1 /\ b.items[Len(arr.items) + 1] = m
      /\ \A k \in 1..Len(arr.items) : b.items[k] = arr.items[k]
  BY <1>1, <1>5, Appended
<1>7. \A k \in 1..Len(b.items) : k \in 1..Len(arr.items) \/ k = Len(arr.items) + 1
  BY <1>1, <1>6
<1>8. IsMembers(b)
  BY <1>3, <1>5, <1>6, <1>7 DEF IsMembers
<1>9. ASSUME NEW count, MembersCounted(arr, count) PROVE MembersCounted(b, (count + 1) % W16)
  <2>1. (count + 1) % W16 = (Len(arr.items) + 1) % W16
    BY <1>1, <1>9, CountedOn DEF MembersCounted
  <2>2. \A k \in 1..Len(b.items) : Counted(b.items[k].has)
    BY <1>4, <1>6, <1>7, <1>9 DEF MembersCounted
  <2>3. QED
    BY <1>6, <2>1, <2>2 DEF MembersCounted
<1>10. QED
  BY <1>6, <1>8, <1>9

LEMMA AddMemberClassInv ==
    ASSUME W16 \in Nat \ {0}, ClassInv, NEW kind \in Kinds, NEW index, J!AddMember(kind, index)
    PROVE  ClassInv'
<1>1. IsMemberArrays(members) /\ IsMembers(members[kind])
  BY DEF ClassInv, ClassShape, IsMemberArrays
<1>2. ASSUME NEW arr \in Pushes(members[kind], [index |-> index, has |-> J!NoAttributes]),
             members' = [members EXCEPT ![kind] = arr],
             members_count' = [members_count EXCEPT ![kind] = (@ + 1) % W16],
             using' = J!Kept(kind, arr) \cup {<<kind, Len(arr.items)>>},
             UNCHANGED <<pool, constant_pool_count, own, ended>>
      PROVE  ClassInv'
  <2>1. /\ IsMembers(arr) /\ Len(arr.items) = Len(members[kind].items) + 1
        /\ \A count : MembersCounted(members[kind], count) => MembersCounted(arr, (count + 1) % W16)
    BY <1>1, PushedMember
  <2>2. PICK ms : members' = ms
    OBVIOUS
  <2>3. ms = [members EXCEPT ![kind] = arr]
    BY <1>2, <2>2
  <2>4. IsMemberArrays(ms) /\ ms[kind] = arr /\ \A x \in Kinds : x # kind => ms[x] = members[x]
    <3>1. OtherKind(members, kind, arr, ms)
      BY <1>1, <2>1, <2>3, KindSet
    <3>2. QED
      BY <3>1 DEF OtherKind
  <2>5. Present(using', ms)
    <3>1. Len(members[kind].items) \in Nat
      BY <1>1, ArrayIs DEF IsMembers
    <3>2. Present(using, ms)
      <4>1. ASSUME NEW x \in using PROVE x[1] \in Kinds /\ x[2] \in 1..Len(members[x[1]].items)
        BY <4>1 DEF ClassInv, ClassShape, Present
      <4>2. 1..Len(members[kind].items) \subseteq 1..Len(ms[kind].items)
        BY <2>1, <2>4, <3>1
      <4>3. ASSUME NEW x \in using PROVE x[2] \in 1..Len(ms[x[1]].items)
        BY <2>4, <4>1, <4>2
      <4>4. QED
        BY <4>1, <4>3 DEF Present
    <3>3. Len(arr.items) \in 1..Len(arr.items)
      BY <2>1, <3>1
    <3>4. using' \subseteq using \cup {<<kind, Len(arr.items)>>}
      BY <1>2 DEF J!Kept
    <3>5. QED
      BY <2>4, <3>2, <3>3, <3>4 DEF Present
  <2>6. /\ members_count' = [x \in Kinds |-> members_count'[x]]
        /\ members_count'[kind] = (members_count[kind] + 1) % W16
        /\ \A x \in Kinds : x # kind => members_count'[x] = members_count[x]
    BY <1>2 DEF ClassInv, ClassShape
  <2>7. ClassShape'
    BY <1>2, <2>2, <2>4, <2>5, <2>6 DEF ClassInv, ClassShape
  <2>8. ASSUME ~ended, NEW x \in Kinds PROVE MembersCounted(ms[x], members_count'[x])
    <3>1. MembersCounted(members[x], members_count[x])
      BY <2>8 DEF ClassInv, Counts
    <3>2. QED
      BY <2>1, <2>4, <2>6, <3>1
  <2>9. Counts'
    BY <1>2, <2>2, <2>8 DEF ClassInv, Counts
  <2>10. QED
    BY <2>7, <2>9 DEF ClassInv
<1>3. QED
  BY SameArrays, <1>2, FailsHere DEF J!AddMember

LEMMA GetMemberClassInv ==
    ASSUME ClassInv, NEW kind \in Kinds, NEW name, J!GetMember(kind, name)
    PROVE  ClassInv'
<1> DEFINE indices == J!Indices(members[kind].items)
<1>1. CASE UNCHANGED <<pool, members, own>> /\ J!Fails
  BY <1>1, FailsHere
<1>2. ASSUME NEW k \in J!Firsts(name, indices), using' = using \cup {<<kind, k>>},
             UNCHANGED <<constant_pool_count, members_count, ended, pool, members, own>>
      PROVE  ClassInv'
  <2>1. DOMAIN members[kind].items = 1..Len(members[kind].items)
    BY ArrayIs DEF ClassInv, ClassShape, IsMemberArrays, IsMembers
  <2>2. k \in 1..Len(members[kind].items)
    BY <2>1 DEF J!Firsts, J!Indices
  <2>3. Present(using', members)
    BY <1>2, <2>2 DEF ClassInv, ClassShape, Present
  <2>4. QED
    BY <1>2, <2>3, UnchangedClassInv
<1>3. QED
  BY <1>1, <1>2 DEF J!GetMember
-----------------------------------------------------------------------------
(* Attributes, of the class or of a member *)

LEMMA OwnerHas == ASSUME ClassInv, NEW owner \in J!Owners PROVE IsHas(J!Has(owner))
<1>1. CASE owner = Class
  BY <1>1 DEF J!Has, ClassInv, ClassShape
<1>2. CASE owner # Class
  <2>1. owner \in using
    BY <1>2 DEF J!Owners
  <2>2. owner[1] \in Kinds /\ owner[2] \in 1..Len(members[owner[1]].items)
    BY <2>1 DEF ClassInv, ClassShape, Present
  <2>3. IsMembers(members[owner[1]])
    BY <2>2 DEF ClassInv, ClassShape, IsMemberArrays
  <2>4. IsMember(members[owner[1]].items[owner[2]])
    BY <2>2, <2>3 DEF IsMembers
  <2>5. QED
    BY <1>2, <2>4 DEF J!Has, IsMember
<1>3. QED
  BY <1>1, <1>2

OwnersCounted == Counted(own) /\ \A kind \in Kinds : MembersCounted(members[kind], members_count[kind])

LEMMA OwnerCounted ==
    ASSUME ClassInv, NEW owner \in J!Owners, OwnersCounted
    PROVE  Counted(J!Has(owner))
<1>1. CASE owner = Class
  BY <1>1 DEF J!Has, OwnersCounted
<1>2. CASE owner # Class
  <2>1. owner \in using
    BY <1>2 DEF J!Owners
  <2>2. owner[1] \in Kinds /\ owner[2] \in 1..Len(members[owner[1]].items)
    BY <2>1 DEF ClassInv, ClassShape, Present
  <2>3. QED
    BY <1>2, <2>2 DEF J!Has, OwnersCounted, MembersCounted
<1>3. QED
  BY <1>1, <1>2

\* other attributes for an owner leave everything in its shape, and counted if they are
LEMMA OwnerSet ==
    ASSUME ClassInv, NEW owner \in J!Owners, NEW has, IsHas(has), J!SetHas(owner, has),
           using' = using, members_count' = members_count, NEW p, IsArray(p), pool' = p,
           ended' \in BOOLEAN
    PROVE  ClassShape' /\ (OwnersCounted /\ Counted(has) => OwnersCounted')
<1>1. CASE owner = Class
  <2>1. own' = has /\ members' = members
    BY <1>1 DEF J!SetHas
  <2>2. ClassShape'
    BY <2>1 DEF ClassInv, ClassShape
  <2>3. QED
    BY <2>1, <2>2 DEF OwnersCounted
<1>2. CASE owner # Class
  <2>1. owner \in using
    BY <1>2 DEF J!Owners
  <2> DEFINE kind == owner[1]
             k == owner[2]
             arr == [members[kind] EXCEPT !.items[k].has = has]
  <2>2. kind \in Kinds /\ k \in 1..Len(members[kind].items) /\ IsMemberArrays(members)
    BY <2>1 DEF ClassInv, ClassShape, Present
  <2>3. IsMembers(members[kind])
    BY <2>2 DEF IsMemberArrays
  <2>4. own' = own /\ members' = [members EXCEPT ![kind] = arr]
    BY <1>2 DEF J!SetHas
  <2> HIDE DEF kind, k
  <2>5. Attributed(members[kind], k, has, arr)
    BY <2>2, <2>3, MemberSet
  <2> HIDE DEF arr
  <2>6. PICK ms : members' = ms
    OBVIOUS
  <2>7. ms = [members EXCEPT ![kind] = arr]
    BY <2>4, <2>6
  <2>8. IsMembers(arr) /\ Len(arr.items) = Len(members[kind].items)
    BY <2>5 DEF Attributed
  <2>9. OtherKind(members, kind, arr, ms)
    BY <2>2, <2>7, <2>8, KindSet
  <2>10. Present(using', ms)
    BY <2>8, <2>9 DEF ClassInv, ClassShape, Present, OtherKind
  <2>11. ClassShape'
    BY <2>4, <2>6, <2>9, <2>10 DEF ClassInv, ClassShape, OtherKind
  <2>12. ASSUME OwnersCounted, Counted(has), NEW x \in Kinds
         PROVE  MembersCounted(ms[x], members_count[x])
    <3>1. MembersCounted(members[x], members_count[x])
      BY <2>12 DEF OwnersCounted
    <3>2. CASE x # kind
      BY <2>9, <3>1, <3>2 DEF OtherKind
    <3>3. CASE x = kind
      <4>1. \A i \in 1..Len(arr.items) : Counted(arr.items[i].has)
        BY <2>5, <2>12, <3>1, <3>3 DEF Attributed, MembersCounted
      <4>2. MembersCounted(arr, members_count[x])
        BY <2>8, <3>1, <3>3, <4>1 DEF MembersCounted
      <4>3. QED
        BY <2>9, <3>3, <4>2 DEF OtherKind
    <3>4. QED
      BY <3>2, <3>3
  <2>13. OwnersCounted /\ Counted(has) => OwnersCounted'
    BY <2>4, <2>6, <2>12 DEF OwnersCounted
  <2>14. QED
    BY <2>11, <2>13
<1>3. QED
  BY <1>1, <1>2

LEMMA ReserveAttributesClassInv ==
    ASSUME ClassInv, NEW owner \in J!Owners, NEW count \in 1..MaxCap, J!ReserveAttributes(owner, count)
    PROVE  ClassInv'
<1>1. count \in Nat /\ IsHas(J!Has(owner))
  BY SizesAssumption, OwnerHas
<1>2. ASSUME NEW arr \in Reserves(J!Has(owner).attributes, count),
             J!SetHas(owner, [J!Has(owner) EXCEPT !.attributes = arr]),
             UNCHANGED <<pool, constant_pool_count, members_count, using, ended>>
      PROVE  ClassInv'
  <2> DEFINE has == [J!Has(owner) EXCEPT !.attributes = arr]
  <2>1. IsArray(arr) /\ arr.items = J!Has(owner).attributes.items
    BY <1>1, ReservedArray DEF IsHas
  <2>2. has = [attributes |-> arr, count |-> J!Has(owner).count]
    BY <1>1 DEF IsHas
  <2>3. IsHas(has) /\ (Counted(J!Has(owner)) => Counted(has))
    BY <2>1, <2>2 DEF IsHas, Counted
  <2> HIDE DEF has
  <2>4. IsArray(pool) /\ pool' = pool /\ ended' \in BOOLEAN
    BY <1>2 DEF ClassInv, ClassShape
  <2>5. J!SetHas(owner, has) /\ using' = using /\ members_count' = members_count
    BY <1>2 DEF has
  <2>6. ClassShape' /\ (OwnersCounted /\ Counted(has) => OwnersCounted')
    BY <2>3, <2>4, <2>5, OwnerSet
  <2>7. ~ended => OwnersCounted'
    BY <2>3, <2>6, OwnerCounted DEF ClassInv, Counts, OwnersCounted
  <2>8. QED
    BY <1>2, <2>4, <2>6, <2>7 DEF ClassInv, Counts, OwnersCounted
<1>3. QED
  BY SameArrays, <1>2, FailsHere DEF J!ReserveAttributes
LEMMA PushedOrNot ==
    ASSUME NEW a, IsArray(a), NEW e, NEW b \in Pushes(a, e) \cup MayFail(a)
    PROVE  IsArray(b)
BY PushedArray DEF MayFail

LEMMA AddAttributeClassInv ==
    ASSUME W16 \in Nat \ {0}, ClassInv, NEW owner \in J!Owners, NEW name, NEW info,
           J!AddAttribute(owner, name, info)
    PROVE  ClassInv'
<1> DEFINE has == J!Has(owner)
           count == (constant_pool_count + 1) % W16
           attribute == [index |-> count, info |-> info, given |-> name]
<1>1. IsHas(has) /\ IsArray(has.attributes) /\ IsArray(pool)
  BY OwnerHas DEF IsHas, ClassInv, ClassShape
<1>2. ASSUME NEW arr \in Pushes(has.attributes, attribute), NEW p \in Pushes(pool, J!Utf8(name)),
             J!SetHas(owner, [attributes |-> arr, count |-> (has.count + 1) % W16]),
             pool' = p, constant_pool_count' = count,
             UNCHANGED <<members_count, using, ended>>
      PROVE  ClassInv'
  <2> DEFINE niw == [attributes |-> arr, count |-> (has.count + 1) % W16]
  <2>1. IsArray(arr) /\ arr.items = Append(has.attributes.items, attribute)
    BY <1>1, PushedArray
  <2>2. IsArray(p) /\ p.items = Append(pool.items, J!Utf8(name))
    BY <1>1, PushedArray
  <2>3. /\ Len(arr.items) = Len(has.attributes.items) + 1 /\ Len(has.attributes.items) \in Nat
        /\ Len(p.items) = Len(pool.items) + 1 /\ Len(pool.items) \in Nat
    BY <1>1, <2>1, <2>2, Appended, ArrayIs DEF IsArray
  <2>4. IsHas(niw) /\ niw.count = (has.count + 1) % W16 /\ niw.attributes = arr
    BY <2>1 DEF IsHas
  <2>5. Counted(has) => Counted(niw)
    <3>1. ((Len(has.attributes.items) % W16) + 1) % W16 = (Len(has.attributes.items) + 1) % W16
      BY <2>3, CountedOn
    <3>2. QED
      BY <2>3, <2>4, <3>1 DEF Counted
  <2>6. ASSUME ~ended PROVE count = (Len(p.items) + 1) % W16
    <3>1. constant_pool_count = (Len(pool.items) + 1) % W16
      BY <2>6 DEF ClassInv, Counts
    <3>2. Len(pool.items) + 1 \in Nat /\ (Len(pool.items) + 1) + 1 = Len(p.items) + 1
      BY <2>3
    <3>3. (((Len(pool.items) + 1) % W16) + 1) % W16 = ((Len(pool.items) + 1) + 1) % W16
      BY <3>2, CountedOn
    <3>4. QED
      BY <3>1, <3>2, <3>3
  <2>7. ended' \in BOOLEAN /\ J!SetHas(owner, niw) /\ using' = using /\ members_count' = members_count
    BY <1>2 DEF ClassInv, ClassShape
  <2> HIDE DEF niw, has, count
  <2>8. ClassShape' /\ (OwnersCounted /\ Counted(niw) => OwnersCounted')
    BY <1>2, <2>2, <2>4, <2>7, OwnerSet
  <2>9. ~ended => OwnersCounted'
    BY <2>5, <2>8, OwnerCounted DEF ClassInv, Counts, OwnersCounted, has
  <2>10. Counts'
    BY <1>2, <2>6, <2>9 DEF Counts, OwnersCounted
  <2>11. QED
    BY <2>8, <2>10 DEF ClassInv
<1>3. ASSUME NEW arr \in Pushes(has.attributes, attribute) \cup MayFail(has.attributes),
             NEW p \in Pushes(pool, J!Utf8(name)) \cup MayFail(pool),
             J!SetHas(owner, [has EXCEPT !.attributes = arr]), pool' = p, ended' = TRUE,
             UNCHANGED <<members_count, using>>
      PROVE  ClassInv'
  <2> DEFINE niw == [has EXCEPT !.attributes = arr]
  <2>1. IsArray(arr) /\ IsArray(p)
    BY <1>1, PushedOrNot
  <2>2. niw = [attributes |-> arr, count |-> has.count]
    BY <1>1 DEF IsHas
  <2>3. IsHas(niw)
    BY <2>1, <2>2 DEF IsHas
  <2>4. ended' \in BOOLEAN /\ J!SetHas(owner, niw) /\ using' = using /\ members_count' = members_count
    BY <1>3
  <2> HIDE DEF niw, has, count
  <2>5. ClassShape'
    BY <1>3, <2>1, <2>3, <2>4, OwnerSet
  <2>6. QED
    BY <1>3, <2>5, FailsClassInv
<1>4. QED
  BY SameArrays, <1>2, <1>3 DEF J!AddAttribute
-----------------------------------------------------------------------------
LEMMA NextClassInv == ASSUME W16 \in Nat \ {0} PROVE ClassInv /\ [J!Next]_(J!vars) => ClassInv'
<1> SUFFICES ASSUME ClassInv, [J!Next]_(J!vars) PROVE ClassInv'
  OBVIOUS
<1>1. ASSUME NEW owner \in J!Owners, NEW name, J!GetAttributeFails(owner, name) PROVE ClassInv'
  BY <1>1, FailsHere DEF J!GetAttributeFails
<1>2. CASE UNCHANGED J!vars
  <2>1. Present(using', members)
    BY <1>2 DEF J!vars, ClassInv, ClassShape
  <2>2. QED
    BY <1>2, <2>1, UnchangedClassInv DEF J!vars
<1>3. QED
  BY <1>1, <1>2, ReserveMembersClassInv, AddMemberClassInv, GetMemberClassInv,
     ReserveAttributesClassInv, AddAttributeClassInv DEF J!Next

\* The counts that go to a class file are those of the arrays that go there, modulo 2^16, for any
\* class that was parsed and every order of jvm_add_*, jvm_reserve_* and jvm_get_*, failures
\* included: they move on in the same step as the arrays, in every owner.
THEOREM CountsKept ==
    ASSUME NEW S, Parsed \subseteq Seq(S)
    PROVE  J!Spec => []J!CountsMatch
<1>1. J!Init => ClassInv
  BY WidthsAssumption, InitClassInv
<1>2. ClassInv /\ [J!Next]_(J!vars) => ClassInv'
  BY WidthsAssumption, NextClassInv
<1>3. ClassInv => J!CountsMatch
  <2> SUFFICES ASSUME ClassInv, ~ended PROVE J!CountsMatch
    BY DEF J!CountsMatch
  <2>1. \A kind \in Kinds : DOMAIN members[kind].items = 1..Len(members[kind].items)
    BY ArrayIs DEF ClassInv, ClassShape, IsMemberArrays, IsMembers
  <2>2. QED
    BY <2>1 DEF ClassInv, Counts, Counted, MembersCounted, J!CountsMatch
<1>4. QED
  BY <1>1, <1>2, <1>3, PTL DEF J!Spec
=============================================================================
