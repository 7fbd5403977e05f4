---------------------------- MODULE DyarrProofs -----------------------------
(***************************************************************************)
(* Memory safety of dyarr.h for any number of arrays, any allocator        *)
(* addresses and any bound on the sizes.  The four invariants of Dyarr     *)
(* only hold together: a block is resized correctly because cap is its     *)
(* true size, and cap stays its true size because nobody else owns it.     *)
(* With that invariant, the memory is a refinement of ArrayStore: each     *)
(* lemma on an operation says that it keeps the invariant and which step   *)
(* of ArrayStore it is.                                                    *)
(***************************************************************************)
EXTENDS Dyarr, SequenceTheorems, TLAPS

IInv == TypeOK /\ FitsBlock /\ OwnedOnce /\ HeldPointerLive

Block(n) == [0..(n - 1) -> Cell]

-----------------------------------------------------------------------------
(* What the memory operators return *)

\* memmove inside a block gives a block of the same size, if it reads inside the block.
LEMMA MovedIsBlock ==
    ASSUME NEW c \in Nat, NEW m \in Block(c),
           NEW dst \in Nat, NEW src \in Nat, NEW n \in Int, src + n <= c
    PROVE  Moved(m, dst, src, n) \in Block(c)
<1>1. ASSUME NEW i \in 0..(c - 1), dst <= i, i < dst + n
      PROVE  i - dst + src \in 0..(c - 1)
  BY <1>1
<1>2. DOMAIN m = 0..(c - 1)
  BY DEF Block
<1>3. QED
  BY <1>1, <1>2 DEF Moved, Block

\* memcpy into a block gives a block of the same size, if the source has the n cells.
LEMMA CopiedIsBlock ==
    ASSUME NEW c \in Nat, NEW m \in Block(c),
           NEW dst \in Nat, NEW n \in Nat, NEW src \in [0..(n - 1) -> Cell]
    PROVE  Copied(m, dst, src, n) \in Block(c)
<1>1. ASSUME NEW i \in 0..(c - 1), dst <= i, i < dst + n
      PROVE  i - dst \in 0..(n - 1)
  BY <1>1
<1>2. DOMAIN m = 0..(c - 1)
  BY DEF Block
<1>3. QED
  BY <1>1, <1>2 DEF Copied, Block

\* Memory m is ready for array a: a block of m.cap cells for a, the other arrays' blocks
\* where they were, and no other block with cells.
Prepared(a, m) ==
    /\ m.ptr \in Blocks /\ m.cap \in 0..MaxCap
    /\ DOMAIN m.heap = Blocks
    /\ m.heap[m.ptr] \in Block(m.cap)
    /\ \A b \in Arrays \ {a} : Owns(b) => /\ arr[b].ptr # m.ptr
                                          /\ m.heap[arr[b].ptr] = heap[arr[b].ptr]
    /\ \A x \in Blocks : m.heap[x] # Free /\ x # m.ptr =>
            /\ m.heap[x] = heap[x]
            /\ heap[x] = NoCells \/ \E b \in Arrays \ {a} : arr[b].ptr = x

\* What _dyarr_resize leaves behind when it succeeds: the array has a block of exactly rsz
\* cells, every other array keeps its own, and nothing else is allocated.
LEMMA ResizesSafely ==
    ASSUME IInv, NEW a \in Arrays, NEW rsz \in Nat \ {0}, NEW m \in Resizes(a, rsz)
    PROVE  Prepared(a, m) /\ m.cap = rsz
<1> USE BlocksAssumption, SizesAssumption
<1>1. /\ arr[a] \in Header /\ arr[a].cap \in Nat
      /\ Owns(a) => arr[a].ptr \in Blocks /\ heap[arr[a].ptr] \in Block(arr[a].cap)
      /\ ~Owns(a) => arr[a].cap = 0
  BY DEF IInv, TypeOK, FitsBlock, Header, Block
<1>2. PICK p \in Targets(a) : m = [heap |-> Reallocated(a, p, rsz), ptr |-> p, cap |-> rsz]
  BY DEF Resizes
<1>3. /\ m.ptr = p /\ m.cap = rsz /\ m.heap = Reallocated(a, p, rsz)
      /\ p \in Blocks /\ (heap[p] = Free \/ p = arr[a].ptr)
      /\ rsz \in 1..MaxCap
  BY <1>2 DEF Targets, Resizes
<1>4. Resized(a, rsz) \in Block(rsz)
  <2>1. ASSUME NEW i \in 0..(rsz - 1), i < arr[a].cap
        PROVE  heap[arr[a].ptr][i] \in Cell
    BY <1>1, <2>1 DEF Owns, Block
  <2>2. QED
    BY <2>1 DEF Resized, Block, Cell
<1>5. m.heap[p] = Resized(a, rsz) /\ DOMAIN m.heap = Blocks
  BY <1>3 DEF Reallocated
<1>6. ASSUME NEW b \in Arrays \ {a}, Owns(b)
      PROVE  arr[b].ptr # p /\ m.heap[arr[b].ptr] = heap[arr[b].ptr]
  <2>1. arr[b].ptr \in Blocks /\ heap[arr[b].ptr] \in [0..(arr[b].cap - 1) -> Cell]
        /\ arr[b].cap \in 0..MaxCap
    BY <1>6 DEF IInv, TypeOK, FitsBlock, Header
  <2>2. heap[arr[b].ptr] # Free
    BY <2>1, FreeAssumption
  <2>3. arr[b].ptr # arr[a].ptr
    BY <1>6 DEF IInv, OwnedOnce
  <2>4. QED
    BY <1>3, <2>1, <2>2, <2>3 DEF Reallocated
<1>7. ASSUME NEW x \in Blocks, m.heap[x] # Free, x # p
      PROVE  /\ m.heap[x] = heap[x]
             /\ heap[x] = NoCells \/ \E b \in Arrays \ {a} : arr[b].ptr = x
  <2>1. m.heap[x] = heap[x] /\ x # arr[a].ptr
    BY <1>3, <1>7 DEF Reallocated
  <2>2. QED
    BY <1>7, <2>1 DEF IInv, OwnedOnce
<1>8. QED
  BY <1>3, <1>4, <1>5, <1>6, <1>7 DEF Prepared

\* The same for the whole "grow if needed" idiom: the memory is ready, it has the capacity
\* asked for, and when nothing had to grow it is the memory there was.
LEMMA EnsuredIsPrepared ==
    ASSUME IInv, NEW a \in Arrays, NEW grow \in BOOLEAN, NEW rsz,
           grow => rsz \in Nat \ {0}, ~grow => Owns(a), NEW m \in Ensured(a, grow, rsz)
    PROVE  /\ Prepared(a, m)
           /\ grow => m.cap = rsz
           /\ ~grow => m.heap = heap /\ m.ptr = arr[a].ptr /\ m.cap = arr[a].cap
<1>1. CASE grow
  BY <1>1, ResizesSafely DEF Ensured
<1>2. CASE ~grow
  <2>1. m.heap = heap /\ m.ptr = arr[a].ptr /\ m.cap = arr[a].cap
    BY <1>2 DEF Ensured, Kept
  <2>2. /\ arr[a].ptr \in Blocks /\ arr[a].cap \in 0..MaxCap /\ DOMAIN heap = Blocks
        /\ heap[arr[a].ptr] \in Block(arr[a].cap)
    BY <1>2 DEF IInv, TypeOK, FitsBlock, Header, Owns, Block
  <2>3. \A b \in Arrays \ {a} : Owns(b) => arr[b].ptr # arr[a].ptr
    BY DEF IInv, OwnedOnce
  <2>4. ASSUME NEW x \in Blocks, heap[x] # Free, x # arr[a].ptr
        PROVE  heap[x] = NoCells \/ \E b \in Arrays \ {a} : arr[b].ptr = x
    BY <2>4 DEF IInv, OwnedOnce
  <2>5. QED
    BY <1>2, <2>1, <2>2, <2>3, <2>4 DEF Prepared
<1>3. QED
  BY <1>1, <1>2

\* An array put on prepared memory, with a length that fits it, is safe with all the others.
LEMMA InstallKeepsSafety ==
    ASSUME IInv, NEW a \in Arrays, NEW m, Prepared(a, m),
           NEW cells \in Block(m.cap), NEW nln \in 0..m.cap,
           heap' = [m.heap EXCEPT ![m.ptr] = cells],
           arr' = [arr EXCEPT ![a] = [ptr |-> m.ptr, len |-> nln, cap |-> m.cap]],
           held' \in Handle \cup {NULL}
    PROVE  TypeOK' /\ FitsBlock' /\ OwnedOnce'
<1>1. /\ arr'[a] = [ptr |-> m.ptr, len |-> nln, cap |-> m.cap]
      /\ \A b \in Arrays \ {a} : arr'[b] = arr[b]
      /\ arr' \in [Arrays -> Header] /\ arr \in [Arrays -> Header]
  BY SizesAssumption DEF IInv, TypeOK, Header, Prepared
<1>2. /\ m.ptr \in Blocks /\ heap'[m.ptr] = cells
      /\ \A x \in Blocks \ {m.ptr} : heap'[x] = m.heap[x]
  BY DEF Prepared
<1>3. TypeOK'
  <2>1. ASSUME NEW b \in Blocks
        PROVE  heap'[b] \in {Free} \cup UNION {Block(n) : n \in 0..MaxCap}
    <3>1. CASE b = m.ptr
      BY <1>2, <3>1 DEF Prepared
    <3>2. CASE b # m.ptr /\ m.heap[b] # Free
      BY <1>2, <3>2 DEF Prepared, IInv, TypeOK, Block
    <3>3. QED
      BY <1>2, <3>1, <3>2
  <2>2. heap' \in [Blocks -> {Free} \cup UNION {Block(n) : n \in 0..MaxCap}]
    BY <2>1 DEF Prepared
  <2>3. QED
    BY <1>1, <2>2 DEF TypeOK, Block
<1>4. FitsBlock'
  <2>1. ASSUME NEW b \in Arrays \ {a}, Owns(b)
        PROVE  heap'[arr[b].ptr] = heap[arr[b].ptr] /\ arr[b].ptr \in Blocks
    BY <1>2, <2>1 DEF Prepared, IInv, FitsBlock
  <2>2. /\ arr'[a].len <= arr'[a].cap /\ arr'[a].ptr # NULL
        /\ arr'[a].ptr \in Blocks /\ heap'[arr'[a].ptr] \in [0..(arr'[a].cap - 1) -> Cell]
    BY <1>1, <1>2, BlocksAssumption DEF Prepared, Block
  <2>3. QED
    BY <1>1, <2>1, <2>2 DEF IInv, FitsBlock, Owns
<1>5. OwnedOnce'
  <2>1. ASSUME NEW b \in Arrays, NEW c \in Arrays, b # c, Owns(b)'
        PROVE  arr'[b].ptr # arr'[c].ptr
    <3>1. CASE b = a
      <4>1. CASE Owns(c)
        BY <1>1, <2>1, <3>1, <4>1 DEF Prepared
      <4>2. CASE ~Owns(c)
        <5>1. arr'[c].ptr = NULL
          BY <1>1, <2>1, <3>1, <4>2 DEF Owns
        <5>2. QED
          BY <1>1, <1>2, <3>1, <5>1, BlocksAssumption
      <4>3. QED
        BY <4>1, <4>2
    <3>2. CASE c = a
      BY <1>1, <2>1, <3>2 DEF Prepared, Owns
    <3>3. CASE b # a /\ c # a
      BY <1>1, <2>1, <3>3 DEF IInv, OwnedOnce, Owns
    <3>4. QED
      BY <3>1, <3>2, <3>3
  <2>2. ASSUME NEW x \in Blocks, heap'[x] # Free
        PROVE  heap'[x] = NoCells \/ \E b \in Arrays : arr'[b].ptr = x
    <3>1. CASE x = m.ptr
      BY <1>1, <3>1
    <3>2. CASE x # m.ptr
      BY <1>1, <1>2, <2>2, <3>2 DEF Prepared
    <3>3. QED
      BY <3>1, <3>2
  <2>3. QED
    BY <2>1, <2>2 DEF OwnedOnce, NoCells
<1>6. QED
  BY <1>3, <1>4, <1>5

\* The pointer the caller keeps is into the array's block whether it is the one the call
\* returned or an older one that nothing invalidated.
LEMMA MayKeepIsLive ==
    ASSUME IInv, NEW a \in Arrays, NEW m, Prepared(a, m), NEW at \in 0..m.cap,
           NEW grow \in BOOLEAN,
           ~grow => m.ptr = arr[a].ptr /\ m.cap = arr[a].cap,
           NEW nln, arr' = [arr EXCEPT ![a] = [ptr |-> m.ptr, len |-> nln, cap |-> m.cap]],
           MayKeep(a, m, at, grow)
    PROVE  held' \in Handle \cup {NULL} /\ HeldPointerLive'
<1>1. /\ arr'[a] = [ptr |-> m.ptr, len |-> nln, cap |-> m.cap]
      /\ \A b \in Arrays \ {a} : arr'[b] = arr[b]
      /\ m.ptr \in Blocks /\ m.cap \in 0..MaxCap
  BY DEF IInv, TypeOK, Prepared
<1>2. CASE held' = Returned(a, m.ptr, at)
  BY <1>1, <1>2, SizesAssumption, BlocksAssumption DEF Returned, HeldPointerLive, Owns, Handle
<1>3. CASE held' = Outdated(a, grow)
  <2>1. held \in Handle \cup {NULL}
    BY DEF IInv, TypeOK
  <2>2. CASE held' = NULL
    BY <2>2 DEF HeldPointerLive
  <2>3. CASE held' = held /\ held # NULL /\ held.of # a
    <3>1. held.of \in Arrays
      BY <2>1, <2>3 DEF Handle
    <3>2. QED
      BY <1>1, <2>1, <2>3, <3>1 DEF IInv, HeldPointerLive, Owns
  <2>4. CASE held' = held /\ held # NULL /\ held.of = a /\ ~grow
    BY <1>1, <2>1, <2>4 DEF IInv, HeldPointerLive, Owns
  <2>5. QED
    BY <1>3, <2>2, <2>3, <2>4 DEF Outdated
<1>4. QED
  BY <1>2, <1>3 DEF MayKeep
\* The facts about one array that every step below starts from.
LEMMA ArrayFacts ==
    ASSUME IInv, NEW a \in Arrays
    PROVE  /\ arr[a].len \in Nat /\ arr[a].cap \in 0..MaxCap /\ arr[a].len <= arr[a].cap
           /\ Owns(a) => arr[a].ptr \in Blocks /\ heap[arr[a].ptr] \in Block(arr[a].cap)
           /\ ~Owns(a) => arr[a].cap = 0 /\ arr[a].len = 0
BY SizesAssumption DEF IInv, TypeOK, FitsBlock, Header, Owns, Block

-----------------------------------------------------------------------------
(* The arrays as sequences *)

\* The first n cells of a block, as the sequence a caller sees.
Elements(cells, n) == [i \in 1..n |-> cells[i - 1]]

Contents == [a \in Arrays |-> Elements(heap[arr[a].ptr], arr[a].len)]

\* The first n cells of a block, read as a sequence of length n.
LEMMA ElementsAreSeq ==
    ASSUME NEW c \in Nat, NEW cells \in Block(c), NEW n \in 0..c
    PROVE  /\ Elements(cells, n) \in Seq(Cell)
           /\ Len(Elements(cells, n)) = n
           /\ \A i \in 1..n : Elements(cells, n)[i] = cells[i - 1]
<1>1. \A i \in 1..n : cells[i - 1] \in Cell
  BY DEF Block
<1> HIDE DEF Cell
<1>2. Elements(cells, n) \in Seq(Cell)
  BY <1>1, IsASeq DEF Elements
<1>3. DOMAIN Elements(cells, n) = 1..n
  BY DEF Elements
<1>4. Len(Elements(cells, n)) = n
  <2>1. Len(Elements(cells, n)) \in Nat /\ DOMAIN Elements(cells, n) = 1..Len(Elements(cells, n))
    BY <1>2, LenProperties
  <2>2. QED
    BY <1>3, <2>1
<1>5. QED
  BY <1>2, <1>4 DEF Elements

\* Element by element, what replacing n elements at k by t leaves.
SplicedAt(s, k, n, t, i) ==
    IF i <= k THEN s[i] ELSE IF i <= k + Len(t) THEN t[i - k] ELSE s[i - Len(t) + n]

\* A splice is a sequence, and its length and its elements are these.
LEMMA SpliceIs ==
    ASSUME NEW S, NEW s \in Seq(S), NEW t \in Seq(S),
           NEW k \in 0..Len(s), NEW n \in 0..(Len(s) - k)
    PROVE  /\ Store!Splice(s, k, n, t) \in Seq(S)
           /\ Len(Store!Splice(s, k, n, t)) = Len(s) - n + Len(t)
           /\ \A i \in 1..(Len(s) - n + Len(t)) :
                Store!Splice(s, k, n, t)[i] = SplicedAt(s, k, n, t, i)
<1>1. Len(s) \in Nat /\ Len(t) \in Nat /\ \A i \in 1..Len(s) : s[i] \in S
  BY LenProperties, ElementOfSeq
<1> DEFINE u == SubSeq(s, 1, k)
           v == SubSeq(s, k + n + 1, Len(s))
<1>2. u \in Seq(S) /\ Len(u) = k /\ \A i \in 1..k : u[i] = s[i]
  <2>1. \A i \in 1..k : s[i] \in S
    BY <1>1
  <2>2. /\ u \in Seq(S)
        /\ Len(u) = IF 1 <= k THEN k - 1 + 1 ELSE 0
        /\ \A i \in 1..(k - 1 + 1) : u[i] = s[1 + i - 1]
    BY <1>1, <2>1, SubSeqProperties
  <2>3. QED
    BY <1>1, <2>2
<1>3. /\ v \in Seq(S) /\ Len(v) = Len(s) - k - n
      /\ \A i \in 1..(Len(s) - k - n) : v[i] = s[k + n + i]
  <2>1. \A i \in (k + n + 1)..Len(s) : s[i] \in S
    BY <1>1
  <2>2. /\ v \in Seq(S)
        /\ Len(v) = IF k + n + 1 <= Len(s) THEN Len(s) - (k + n + 1) + 1 ELSE 0
        /\ \A i \in 1..(Len(s) - (k + n + 1) + 1) : v[i] = s[(k + n + 1) + i - 1]
    BY <1>1, <2>1, SubSeqProperties
  <2>3. QED
    BY <1>1, <2>2
<1>4. Store!Splice(s, k, n, t) = (u \o t) \o v
  BY DEF Store!Splice
<1> HIDE DEF u, v
<1>5. /\ u \o t \in Seq(S) /\ Len(u \o t) = k + Len(t)
      /\ \A i \in 1..(k + Len(t)) : (u \o t)[i] = IF i <= k THEN u[i] ELSE t[i - k]
  BY <1>1, <1>2, ConcatProperties
<1> DEFINE w == u \o t
<1>6. /\ w \in Seq(S) /\ Len(w) = k + Len(t)
      /\ \A i \in 1..(k + Len(t)) : w[i] = IF i <= k THEN s[i] ELSE t[i - k]
  BY <1>1, <1>2, <1>5
<1> HIDE DEF w
<1>7. /\ w \o v \in Seq(S) /\ Len(w \o v) = Len(w) + Len(v)
      /\ \A i \in 1..(Len(w) + Len(v)) : (w \o v)[i] = IF i <= Len(w) THEN w[i] ELSE v[i - Len(w)]
  BY <1>3, <1>6, ConcatProperties
<1>8. Len(w) + Len(v) = Len(s) - n + Len(t)
  BY <1>1, <1>3, <1>6
<1>9. ASSUME NEW i \in 1..(Len(s) - n + Len(t))
      PROVE  (w \o v)[i] = SplicedAt(s, k, n, t, i)
  <2>1. i \in 1..(Len(w) + Len(v)) /\ Len(w) = k + Len(t)
    BY <1>6, <1>8
  <2>2. CASE i <= k + Len(t)
    BY <1>1, <1>6, <1>7, <2>1, <2>2 DEF SplicedAt
  <2>3. CASE i > k + Len(t)
    <3>1. (w \o v)[i] = v[i - (k + Len(t))]
      BY <1>1, <1>7, <2>1, <2>3
    <3>2. i - (k + Len(t)) \in 1..(Len(s) - k - n)
      BY <1>1, <2>3
    <3>3. v[i - (k + Len(t))] = s[k + n + (i - (k + Len(t)))]
      BY <1>3, <3>2
    <3>4. k + n + (i - (k + Len(t))) = i - Len(t) + n /\ ~(i <= k) /\ ~(i <= k + Len(t))
      BY <1>1, <2>3
    <3>5. QED
      BY <3>1, <3>3, <3>4 DEF SplicedAt
  <2>4. i <= k + Len(t) \/ i > k + Len(t)
    BY <1>1
  <2>5. QED
    BY <2>2, <2>3, <2>4
<1>10. Store!Splice(s, k, n, t) = w \o v
  BY <1>4 DEF w
<1>11. QED
  BY <1>7, <1>8, <1>9, <1>10

\* A sequence is a splice when its elements are those of the splice.
LEMMA IsSplice ==
    ASSUME NEW S, NEW s \in Seq(S), NEW t \in Seq(S), NEW u \in Seq(S),
           NEW k \in 0..Len(s), NEW n \in 0..(Len(s) - k),
           Len(u) = Len(s) - n + Len(t),
           \A i \in 1..Len(u) : u[i] = SplicedAt(s, k, n, t, i)
    PROVE  u = Store!Splice(s, k, n, t)
<1> DEFINE w == Store!Splice(s, k, n, t)
<1>1. /\ w \in Seq(S) /\ Len(w) = Len(s) - n + Len(t)
      /\ \A i \in 1..(Len(s) - n + Len(t)) : w[i] = SplicedAt(s, k, n, t, i)
  BY ONLY s \in Seq(S), t \in Seq(S), k \in 0..Len(s), n \in 0..(Len(s) - k), SpliceIs
<1> HIDE DEF w
<1>2. \A i \in 1..Len(u) : u[i] = w[i]
  BY <1>1
<1>3. u = w
  BY <1>1, <1>2, SeqEqual
<1>4. QED
  BY <1>3 DEF w

\* An array without elements is the empty sequence, whatever its pointer names.
LEMMA NoElements == \A cells : Elements(cells, 0) = << >>
BY DEF Elements

\* Every array holds a finite sequence of cells: those below len in its block.
LEMMA ArrayIsSeq ==
    ASSUME IInv, NEW a \in Arrays
    PROVE  /\ Contents[a] \in Seq(Cell) /\ Len(Contents[a]) = arr[a].len
           /\ \A i \in 1..arr[a].len : Contents[a][i] = heap[arr[a].ptr][i - 1]
<1>1. Contents[a] = Elements(heap[arr[a].ptr], arr[a].len)
  BY DEF Contents
<1>2. CASE Owns(a)
  <2>1. arr[a].cap \in Nat /\ arr[a].len \in 0..arr[a].cap /\ heap[arr[a].ptr] \in Block(arr[a].cap)
    BY <1>2, ArrayFacts, SizesAssumption
  <2> DEFINE e == Elements(heap[arr[a].ptr], arr[a].len)
  <2>2. /\ e \in Seq(Cell) /\ Len(e) = arr[a].len
        /\ \A i \in 1..arr[a].len : e[i] = heap[arr[a].ptr][i - 1]
    BY <2>1, ElementsAreSeq
  <2> HIDE DEF e
  <2>3. Contents[a] = e
    BY <1>1 DEF e
  <2>4. QED
    BY <2>2, <2>3
<1>3. CASE ~Owns(a)
  <2>1. arr[a].len = 0
    BY <1>3, ArrayFacts, SizesAssumption DEF Owns
  <2>2. Contents[a] = << >>
    BY <1>1, <2>1, NoElements
  <2>3. QED
    BY <2>1, <2>2, EmptySeq
<1>4. QED
  BY <1>2, <1>3

\* The call leaves array a with the first nln of these cells, on memory m.
Installs(a, m, cells, nln) ==
    /\ heap' = [m.heap EXCEPT ![m.ptr] = cells]
    /\ arr' = [arr EXCEPT ![a] = [ptr |-> m.ptr, len |-> nln, cap |-> m.cap]]

\* Installing cells for one array changes the sequence of that array and of no other.
LEMMA InstallBecomes ==
    ASSUME IInv, NEW a \in Arrays, NEW m, Prepared(a, m),
           NEW cells, NEW nln, Installs(a, m, cells, nln)
    PROVE  Contents' = [Contents EXCEPT ![a] = Elements(cells, nln)]
<1>1. /\ arr'[a] = [ptr |-> m.ptr, len |-> nln, cap |-> m.cap]
      /\ \A b \in Arrays \ {a} : arr'[b] = arr[b]
      /\ heap'[m.ptr] = cells
      /\ \A x \in Blocks \ {m.ptr} : heap'[x] = m.heap[x]
  BY DEF IInv, TypeOK, Prepared, Installs
<1>2. Elements(heap'[arr'[a].ptr], arr'[a].len) = Elements(cells, nln)
  BY <1>1
<1>3. ASSUME NEW b \in Arrays \ {a}
      PROVE  Elements(heap'[arr'[b].ptr], arr'[b].len) = Elements(heap[arr[b].ptr], arr[b].len)
  <2>1. CASE Owns(b)
    <3>1. arr[b].ptr \in Blocks /\ arr[b].ptr # m.ptr /\ m.heap[arr[b].ptr] = heap[arr[b].ptr]
      BY <2>1, ArrayFacts DEF Prepared
    <3>2. QED
      BY <1>1, <3>1
  <2>2. CASE ~Owns(b)
    <3>1. arr[b].len = 0
      BY <2>2, ArrayFacts, SizesAssumption DEF Owns
    <3>2. QED
      BY <1>1, <3>1, NoElements
  <2>3. QED
    BY <2>1, <2>2
<1>4. QED
  BY <1>2, <1>3 DEF Contents

\* A block of c cells begins with the elements of s.
Holds(cells, c, s) ==
    /\ c \in Nat /\ cells \in Block(c)
    /\ s \in Seq(Cell) /\ Len(s) \in 0..c
    /\ \A i \in 1..Len(s) : cells[i - 1] = s[i]

\* One more cell of the block is one more element.
LEMMA PushedIs ==
    ASSUME NEW cells, NEW c, NEW s, Holds(cells, c, s), Len(s) < c
    PROVE  Elements(cells, Len(s) + 1) = Append(s, cells[Len(s)]) /\ cells[Len(s)] \in Cell
<1> DEFINE u == Elements(cells, Len(s) + 1)
           w == Append(s, cells[Len(s)])
<1>1. Len(s) \in Nat /\ Len(s) + 1 \in 0..c /\ c \in Nat /\ cells \in Block(c) /\ s \in Seq(Cell)
  BY DEF Holds
<1>2. cells[Len(s)] \in Cell
  BY <1>1 DEF Block
<1>3. u \in Seq(Cell) /\ Len(u) = Len(s) + 1 /\ \A i \in 1..(Len(s) + 1) : u[i] = cells[i - 1]
  BY <1>1, ElementsAreSeq
<1>4. w \in Seq(Cell) /\ Len(w) = Len(s) + 1 /\ w[Len(s) + 1] = cells[Len(s)]
      /\ \A i \in 1..Len(s) : w[i] = s[i]
  BY <1>1, <1>2, AppendProperties
<1> HIDE DEF u, w
<1>5. ASSUME NEW i \in 1..(Len(s) + 1)
      PROVE  u[i] = w[i]
  <2>1. CASE i = Len(s) + 1
    BY <1>1, <1>3, <1>4, <2>1
  <2>2. CASE i # Len(s) + 1
    <3>1. i \in 1..Len(s)
      BY <1>1, <2>2
    <3>2. u[i] = cells[i - 1] /\ cells[i - 1] = s[i] /\ w[i] = s[i]
      BY <1>3, <1>4, <3>1 DEF Holds
    <3>3. QED
      BY <3>2
  <2>3. QED
    BY <2>1, <2>2
<1>6. u = w
  BY <1>3, <1>4, <1>5, SeqEqual
<1>7. QED
  BY <1>2, <1>6 DEF u, w

\* One cell less is the sequence without its last element.
LEMMA PoppedIs ==
    ASSUME NEW cells, NEW c, NEW s, Holds(cells, c, s), Len(s) # 0
    PROVE  Elements(cells, Len(s) - 1) = SubSeq(s, 1, Len(s) - 1)
<1> DEFINE u == Elements(cells, Len(s) - 1)
           w == SubSeq(s, 1, Len(s) - 1)
<1>1. Len(s) \in Nat /\ Len(s) - 1 \in 0..c /\ c \in Nat /\ cells \in Block(c) /\ s \in Seq(Cell)
  BY DEF Holds
<1>2. u \in Seq(Cell) /\ Len(u) = Len(s) - 1 /\ \A i \in 1..(Len(s) - 1) : u[i] = cells[i - 1]
  BY <1>1, ElementsAreSeq
<1>3. w \in Seq(Cell) /\ Len(w) = Len(s) - 1 /\ \A i \in 1..(Len(s) - 1) : w[i] = s[i]
  <2>1. \A i \in 1..(Len(s) - 1) : s[i] \in Cell
    BY <1>1, ElementOfSeq
  <2>2. /\ w \in Seq(Cell)
        /\ Len(w) = IF 1 <= Len(s) - 1 THEN Len(s) - 1 - 1 + 1 ELSE 0
        /\ \A i \in 1..(Len(s) - 1 - 1 + 1) : w[i] = s[1 + i - 1]
    BY <1>1, <2>1, SubSeqProperties
  <2>3. Len(s) - 1 - 1 + 1 = Len(s) - 1 /\ (~(1 <= Len(s) - 1) => Len(s) - 1 = 0)
    <3>1. Len(s) \in Nat \ {0}
      BY <1>1
    <3>2. \A x \in Nat \ {0} : x - 1 - 1 + 1 = x - 1 /\ (~(1 <= x - 1) => x - 1 = 0)
      OBVIOUS
    <3>3. QED
      BY <3>1, <3>2
  <2>4. \A i \in 1..(Len(s) - 1) : 1 + i - 1 = i
    OBVIOUS
  <2> HIDE DEF w
  <2>5. QED
    BY <2>2, <2>3, <2>4
<1> HIDE DEF u, w
<1>4. \A i \in 1..(Len(s) - 1) : u[i] = w[i]
  BY <1>1, <1>2, <1>3 DEF Holds
<1>5. u = w
  BY <1>2, <1>3, <1>4, SeqEqual
<1>6. QED
  BY <1>5 DEF u, w

\* Moving the tail down over n elements takes them out.
LEMMA RemovedIs ==
    ASSUME NEW cells, NEW c, NEW s, Holds(cells, c, s),
           NEW k \in 0..Len(s), NEW n \in 0..(Len(s) - k)
    PROVE  Elements(Moved(cells, k, k + n, Len(s) - n - k), Len(s) - n)
                = Store!Splice(s, k, n, << >>)
<1> DEFINE moved == Moved(cells, k, k + n, Len(s) - n - k)
           u == Elements(moved, Len(s) - n)
<1>1. Len(s) \in Nat /\ Len(s) <= c /\ c \in Nat /\ cells \in Block(c) /\ s \in Seq(Cell)
      /\ \A i \in 1..Len(s) : cells[i - 1] = s[i]
  BY DEF Holds
<1>2. moved \in Block(c)
  <2>1. k \in Nat /\ k + n \in Nat /\ Len(s) - n - k \in Int /\ (k + n) + (Len(s) - n - k) <= c
    BY <1>1
  <2>2. QED
    BY <1>1, <2>1, MovedIsBlock
<1>3. \A j \in 0..(c - 1) :
        moved[j] = IF k <= j /\ j < k + (Len(s) - n - k) THEN cells[j - k + (k + n)] ELSE cells[j]
  BY <1>1 DEF Moved, Block
<1> HIDE DEF moved
<1>4. u \in Seq(Cell) /\ Len(u) = Len(s) - n /\ \A i \in 1..(Len(s) - n) : u[i] = moved[i - 1]
  <2>1. Len(s) - n \in 0..c
    BY <1>1
  <2>2. QED
    BY <1>1, <1>2, <2>1, ElementsAreSeq
<1> HIDE DEF u
<1>5. << >> \in Seq(Cell) /\ Len(<< >>) = 0
  BY EmptySeq
<1>6. ASSUME NEW i \in 1..Len(u)
      PROVE  u[i] = SplicedAt(s, k, n, << >>, i)
  <2>1. i - 1 \in 0..(c - 1) /\ i \in 1..(Len(s) - n) /\ u[i] = moved[i - 1]
    <3>1. i \in 1..(Len(s) - n)
      BY <1>4
    <3>2. u[i] = moved[i - 1]
      BY <1>4, <3>1
    <3>3. i - 1 \in 0..(c - 1)
      BY <1>1, <3>1
    <3>4. QED
      BY <3>1, <3>2, <3>3
  <2>2. CASE i <= k
    <3>1. i \in 1..Len(s) /\ ~(k <= i - 1)
      BY <1>1, <2>1, <2>2
    <3>2. moved[i - 1] = cells[i - 1]
      BY <1>3, <2>1, <3>1
    <3>3. cells[i - 1] = s[i]
      BY <1>1, <3>1
    <3>4. QED
      BY <2>1, <2>2, <3>2, <3>3 DEF SplicedAt
  <2>3. CASE ~(i <= k)
    <3>1. moved[i - 1] = cells[(i - 1) - k + (k + n)]
      <4>1. k <= i - 1 /\ i - 1 < k + (Len(s) - n - k)
        BY <1>1, <2>1, <2>3
      <4>2. QED
        BY <1>3, <2>1, <4>1
    <3>2. (i - 1) - k + (k + n) = (i + n) - 1 /\ i + n \in 1..Len(s)
      BY <1>1, <2>1, <2>3
    <3>3. u[i] = s[i + n]
      BY <1>1, <2>1, <3>1, <3>2
    <3>4. ~(i <= k + 0) /\ i - 0 + n = i + n
      BY <1>1, <2>1, <2>3
    <3>5. QED
      BY <1>5, <2>3, <3>3, <3>4 DEF SplicedAt
  <2>4. QED
    BY <2>2, <2>3
<1>7. Len(u) = Len(s) - n + Len(<< >>)
  BY <1>1, <1>4, <1>5
<1>8. u = Store!Splice(s, k, n, << >>)
  <2> DEFINE e == << >>
  <2>1. e \in Seq(Cell)
    BY <1>5
  <2>2. Len(u) = Len(s) - n + Len(e)
    BY <1>7
  <2>3. \A i \in 1..Len(u) : u[i] = SplicedAt(s, k, n, e, i)
    BY <1>6
  <2> HIDE DEF e
  <2>4. s \in Seq(Cell) /\ u \in Seq(Cell)
    BY <1>1, <1>4
  <2>5. u = Store!Splice(s, k, n, e)
    BY <2>1, <2>2, <2>3, <2>4, IsSplice
  <2>6. QED
    BY <2>5 DEF e
<1>9. QED
  BY <1>8 DEF u, moved

\* What dyarr_insert and dyarr_replace make of a block that begins with s.
Inserted(cells, s, k, n) == Elements(Moved(cells, k + n, k, Len(s) - k), Len(s) + n)
Replaced(cells, s, k, n, src, t) ==
    Elements(Copied(Moved(cells, k + Len(t), k + n, Len(s) - n - k), k, src, Len(t)),
             Len(s) + Len(t) - n)

\* Moving the tail up makes room for n elements at k and loses none of the old ones.
LEMMA InsertedIs ==
    ASSUME NEW cells, NEW c \in Nat, NEW s, Holds(cells, c, s),
           NEW k \in 0..Len(s), NEW n \in Nat, Len(s) + n <= c,
           NEW u, u = Inserted(cells, s, k, n)
    PROVE  /\ u \in Seq(Cell) /\ Len(u) = Len(s) + n
           /\ Store!Splice(u, k, n, << >>) = s
<1> DEFINE moved == Moved(cells, k + n, k, Len(s) - k)
<1>1. Len(s) \in Nat /\ Len(s) <= c /\ c \in Nat /\ cells \in Block(c) /\ s \in Seq(Cell)
      /\ \A i \in 1..Len(s) : cells[i - 1] = s[i]
  BY DEF Holds
<1>2. moved \in Block(c)
  <2>1. k \in Nat /\ k + n \in Nat /\ Len(s) - k \in Int /\ k + (Len(s) - k) <= c
    BY <1>1
  <2>2. QED
    BY <1>1, <2>1, MovedIsBlock
<1>3. \A j \in 0..(c - 1) :
        moved[j] = IF k + n <= j /\ j < (k + n) + (Len(s) - k) THEN cells[j - (k + n) + k] ELSE cells[j]
  BY <1>1 DEF Moved, Block
<1>4. u = Elements(moved, Len(s) + n)
  BY DEF Inserted
<1> HIDE DEF moved
<1>5. u \in Seq(Cell) /\ Len(u) = Len(s) + n /\ \A i \in 1..(Len(s) + n) : u[i] = moved[i - 1]
  <2>1. Len(s) + n \in 0..c /\ c \in Nat /\ moved \in Block(c)
    BY <1>1, <1>2
  <2>2. QED
    BY ONLY <1>4, <2>1, ElementsAreSeq
<1>6. << >> \in Seq(Cell) /\ Len(<< >>) = 0
  BY EmptySeq
<1>7. ASSUME NEW i \in 1..Len(s)
      PROVE  s[i] = SplicedAt(u, k, n, << >>, i)
  <2>1. CASE i <= k
    <3>1. i - 1 \in 0..(c - 1) /\ i \in 1..(Len(s) + n) /\ ~(k + n <= i - 1)
      BY <1>1, <2>1
    <3>2. u[i] = moved[i - 1] /\ moved[i - 1] = cells[i - 1] /\ cells[i - 1] = s[i]
      BY <1>1, <1>3, <1>5, <3>1
    <3>3. QED
      BY <2>1, <3>2 DEF SplicedAt
  <2>2. CASE ~(i <= k)
    <3>1. /\ i + n - 1 \in 0..(c - 1) /\ i + n \in 1..(Len(s) + n)
          /\ k + n <= i + n - 1 /\ i + n - 1 < (k + n) + (Len(s) - k)
          /\ (i + n - 1) - (k + n) + k = i - 1
      BY <1>1, <2>2
    <3>2. moved[i + n - 1] = cells[(i + n - 1) - (k + n) + k]
      BY <1>3, <3>1
    <3>3. u[i + n] = moved[i + n - 1]
      <4>1. (i + n) - 1 = i + n - 1
        BY <3>1
      <4>2. QED
        BY <1>5, <3>1, <4>1
    <3>4. u[i + n] = s[i]
      BY <1>1, <3>1, <3>2, <3>3
    <3>5. ~(i <= k + 0) /\ i - 0 + n = i + n
      BY <1>1, <2>2
    <3>6. QED
      BY <1>6, <2>2, <3>4, <3>5 DEF SplicedAt
  <2>3. QED
    BY <2>1, <2>2
<1>8. Len(s) = Len(u) - n + Len(<< >>) /\ k \in 0..Len(u) /\ n \in 0..(Len(u) - k)
  BY <1>1, <1>5, <1>6
<1>9. s = Store!Splice(u, k, n, << >>)
  <2> DEFINE e == << >>
  <2>1. e \in Seq(Cell)
    BY <1>6
  <2>2. Len(s) = Len(u) - n + Len(e)
    BY <1>8
  <2>3. \A i \in 1..Len(s) : s[i] = SplicedAt(u, k, n, e, i)
    BY <1>7
  <2> HIDE DEF e
  <2>4. s \in Seq(Cell) /\ u \in Seq(Cell)
    BY <1>1, <1>5
  <2>5. k \in 0..Len(u) /\ n \in 0..(Len(u) - k)
    BY <1>8
  <2>6. s = Store!Splice(u, k, n, e)
    BY ONLY <2>1, <2>2, <2>3, <2>4, <2>5, IsSplice
  <2>7. QED
    BY <2>6 DEF e
<1>10. QED
  BY <1>5, <1>9

\* Moving the tail to its new place and copying t into the gap replaces n elements by t.
LEMMA ReplacedIs ==
    ASSUME NEW cells, NEW c \in Nat, NEW s, Holds(cells, c, s), NEW t, NEW src, Holds(src, Len(t), t),
           NEW k \in 0..Len(s), NEW n \in 0..(Len(s) - k), Len(s) - n + Len(t) <= c
    PROVE  Replaced(cells, s, k, n, src, t) = Store!Splice(s, k, n, t)
<1> DEFINE moved == Moved(cells, k + Len(t), k + n, Len(s) - n - k)
           copied == Copied(moved, k, src, Len(t))
           u == Elements(copied, Len(s) + Len(t) - n)
<1>1. Len(s) \in Nat /\ Len(s) <= c /\ c \in Nat /\ cells \in Block(c) /\ s \in Seq(Cell)
      /\ \A i \in 1..Len(s) : cells[i - 1] = s[i]
  BY DEF Holds
<1>2. Len(t) \in Nat /\ src \in Block(Len(t)) /\ t \in Seq(Cell)
      /\ \A i \in 1..Len(t) : src[i - 1] = t[i]
  BY DEF Holds
<1>3. moved \in Block(c)
  <2>1. k + Len(t) \in Nat /\ k + n \in Nat /\ Len(s) - n - k \in Int
        /\ (k + n) + (Len(s) - n - k) <= c
    BY <1>1, <1>2
  <2>2. QED
    BY <1>1, <2>1, MovedIsBlock
<1>4. \A j \in 0..(c - 1) :
        moved[j] = IF k + Len(t) <= j /\ j < (k + Len(t)) + (Len(s) - n - k)
                   THEN cells[j - (k + Len(t)) + (k + n)] ELSE cells[j]
  BY <1>1 DEF Moved, Block
<1> HIDE DEF moved
<1>5. copied \in Block(c)
  <2>1. k \in Nat /\ src \in [0..(Len(t) - 1) -> Cell]
    BY <1>1, <1>2 DEF Block
  <2>2. QED
    BY <1>1, <1>2, <1>3, <2>1, CopiedIsBlock
<1>6. \A j \in 0..(c - 1) :
        copied[j] = IF k <= j /\ j < k + Len(t) THEN src[j - k] ELSE moved[j]
  BY <1>3 DEF Copied, Block
<1> HIDE DEF copied
<1>7. u \in Seq(Cell) /\ Len(u) = Len(s) + Len(t) - n
      /\ \A i \in 1..(Len(s) + Len(t) - n) : u[i] = copied[i - 1]
  <2>1. Len(s) + Len(t) - n \in 0..c
    BY <1>1, <1>2
  <2>2. QED
    BY <1>1, <1>5, <2>1, ElementsAreSeq
<1> HIDE DEF u
<1>8. ASSUME NEW i \in 1..Len(u)
      PROVE  u[i] = SplicedAt(s, k, n, t, i)
  <2>1. i - 1 \in 0..(c - 1) /\ i \in 1..(Len(s) + Len(t) - n) /\ u[i] = copied[i - 1]
    BY <1>1, <1>2, <1>7
  <2>2. CASE i <= k
    <3>1. copied[i - 1] = moved[i - 1]
      BY <1>1, <1>6, <2>1, <2>2
    <3>2. i \in 1..Len(s) /\ ~(k + Len(t) <= i - 1)
      <4>1. Len(s) \in Nat /\ Len(t) \in Nat /\ k \in 0..Len(s) /\ i \in Nat \ {0} /\ i <= k
        BY <1>1, <1>2, <2>1, <2>2
      <4>2. QED
        BY ONLY <4>1
    <3>3. moved[i - 1] = cells[i - 1]
      BY <1>4, <2>1, <3>2
    <3>4. cells[i - 1] = s[i]
      BY <1>1, <3>2
    <3>5. QED
      BY <2>1, <2>2, <3>1, <3>3, <3>4 DEF SplicedAt
  <2>3. CASE ~(i <= k) /\ i <= k + Len(t)
    <3>1. copied[i - 1] = src[(i - 1) - k]
      <4>1. k <= i - 1 /\ i - 1 < k + Len(t)
        BY <1>2, <2>3
      <4>2. QED
        BY <1>6, <2>1, <4>1
    <3>2. (i - 1) - k = (i - k) - 1 /\ i - k \in 1..Len(t)
      BY <1>1, <1>2, <2>1, <2>3
    <3>3. src[(i - k) - 1] = t[i - k]
      BY <1>2, <3>2
    <3>4. QED
      BY <2>1, <2>3, <3>1, <3>2, <3>3 DEF SplicedAt
  <2>4. CASE ~(i <= k) /\ ~(i <= k + Len(t))
    <3>1. copied[i - 1] = moved[i - 1]
      <4>1. ~(i - 1 < k + Len(t))
        BY <1>2, <2>4
      <4>2. QED
        BY <1>6, <2>1, <4>1
    <3>2. moved[i - 1] = cells[(i - 1) - (k + Len(t)) + (k + n)]
      <4>1. /\ Len(s) \in Nat /\ Len(t) \in Nat /\ k \in Nat /\ n \in Nat /\ i \in Nat
            /\ i <= Len(s) + Len(t) - n /\ k + Len(t) < i
        BY <1>1, <1>2, <2>1, <2>4
      <4>2. k + Len(t) <= i - 1 /\ i - 1 < (k + Len(t)) + (Len(s) - n - k)
        BY ONLY <4>1
      <4>3. QED
        BY ONLY <1>4, <2>1, <4>2
    <3>3. /\ (i - 1) - (k + Len(t)) + (k + n) = (i - Len(t) + n) - 1
          /\ i - Len(t) + n \in 1..Len(s)
      BY <1>1, <1>2, <2>1, <2>4
    <3>4. cells[(i - Len(t) + n) - 1] = s[i - Len(t) + n]
      BY <1>1, <3>3
    <3>5. QED
      BY <2>1, <2>4, <3>1, <3>2, <3>3, <3>4 DEF SplicedAt
  <2>5. QED
    BY <2>2, <2>3, <2>4
<1>9. Len(u) = Len(s) - n + Len(t)
  BY <1>1, <1>2, <1>7
<1>10. u = Store!Splice(s, k, n, t)
  BY <1>1, <1>2, <1>7, <1>8, <1>9, IsSplice
<1>11. QED
  BY <1>10 DEF u, copied, moved, Replaced

\* All of a sequence, read back from the block that begins with it.
LEMMA HeldIs ==
    ASSUME NEW cells, NEW c, NEW s, Holds(cells, c, s)
    PROVE  Elements(cells, Len(s)) = s
<1> DEFINE u == Elements(cells, Len(s))
<1>1. c \in Nat /\ cells \in Block(c) /\ s \in Seq(Cell) /\ Len(s) \in 0..c
  BY DEF Holds
<1>2. u \in Seq(Cell) /\ Len(u) = Len(s) /\ \A i \in 1..Len(s) : u[i] = cells[i - 1]
  BY <1>1, ElementsAreSeq
<1> HIDE DEF u
<1>3. \A i \in 1..Len(u) : u[i] = s[i]
  BY <1>2 DEF Holds
<1>4. u = s
  BY <1>1, <1>2, <1>3, SeqEqual
<1>5. QED
  BY <1>4 DEF u

\* The block of an array that owns one begins with the array's sequence.
LEMMA OwnedHolds ==
    ASSUME IInv, NEW a \in Arrays, Owns(a)
    PROVE  Holds(heap[arr[a].ptr], arr[a].cap, Contents[a]) /\ Len(Contents[a]) = arr[a].len
BY ArrayIsSeq, ArrayFacts, SizesAssumption DEF Holds

\* What memcpy reads from another array is that array's sequence.
LEMMA SourceHolds ==
    ASSUME IInv, NEW s \in Arrays
    PROVE  /\ Holds([i \in 0..(arr[s].len - 1) |-> heap[arr[s].ptr][i]], Len(Contents[s]), Contents[s])
           /\ Len(Contents[s]) = arr[s].len
<1> DEFINE src == [i \in 0..(arr[s].len - 1) |-> heap[arr[s].ptr][i]]
<1>1. /\ Contents[s] \in Seq(Cell) /\ Len(Contents[s]) = arr[s].len /\ arr[s].len \in Nat
      /\ \A i \in 1..arr[s].len : Contents[s][i] = heap[arr[s].ptr][i - 1]
  BY ArrayIsSeq, ArrayFacts
<1>2. ASSUME NEW i \in 1..arr[s].len
      PROVE  src[i - 1] = Contents[s][i]
  BY <1>1
<1>3. ASSUME NEW j \in 0..(arr[s].len - 1)
      PROVE  src[j] \in Cell
  <2>1. j + 1 \in 1..arr[s].len /\ (j + 1) - 1 = j
    BY <1>1
  <2>2. src[j] = Contents[s][j + 1]
    BY <1>2, <2>1
  <2>3. QED
    BY <1>1, <2>1, <2>2, ElementOfSeq
<1>4. src \in Block(arr[s].len)
  BY <1>3 DEF Block
<1> HIDE DEF src
<1>5. Holds(src, Len(Contents[s]), Contents[s])
  BY <1>1, <1>2, <1>4 DEF Holds
<1>6. QED
  BY <1>1, <1>5 DEF src

\* Whatever realloc does, the block it gives begins with the elements the array had.
LEMMA EnsuredHolds ==
    ASSUME IInv, NEW a \in Arrays, NEW grow \in BOOLEAN, NEW rsz,
           grow => rsz \in Nat \ {0}, ~grow => Owns(a), NEW m \in Ensured(a, grow, rsz),
           arr[a].len <= m.cap
    PROVE  Holds(m.heap[m.ptr], m.cap, Contents[a]) /\ Len(Contents[a]) = arr[a].len
<1>1. Prepared(a, m)
  BY EnsuredIsPrepared
<1>2. m.cap \in Nat /\ m.heap[m.ptr] \in Block(m.cap) /\ arr[a].len \in 0..m.cap
  BY <1>1, ArrayFacts, SizesAssumption DEF Prepared
<1>3. \A i \in 0..(arr[a].len - 1) : m.heap[m.ptr][i] = heap[arr[a].ptr][i]
  <2>1. CASE grow
    <3>1. PICK p \in Targets(a) : m = [heap |-> Reallocated(a, p, rsz), ptr |-> p, cap |-> rsz]
      BY <2>1 DEF Ensured, Resizes
    <3>2. m.heap[m.ptr] = Resized(a, rsz) /\ m.cap = rsz
      BY <3>1 DEF Targets, Reallocated
    <3>3. QED
      BY <1>2, <2>1, <3>2, ArrayFacts DEF Resized
  <2>2. CASE ~grow
    BY <2>2 DEF Ensured, Kept
  <2>3. QED
    BY <2>1, <2>2
<1>4. /\ Contents[a] \in Seq(Cell) /\ Len(Contents[a]) = arr[a].len
      /\ \A i \in 1..arr[a].len : Contents[a][i] = heap[arr[a].ptr][i - 1]
  BY ArrayIsSeq
<1>5. ASSUME NEW i \in 1..arr[a].len
      PROVE  m.heap[m.ptr][i - 1] = Contents[a][i]
  <2>1. i - 1 \in 0..(arr[a].len - 1)
    BY <1>2
  <2>2. QED
    BY <1>3, <1>4, <2>1
<1>6. QED
  BY <1>2, <1>4, <1>5 DEF Holds

(* The actions of ArrayStore, in terms of Contents *)

LEMMA StorePushes ==
    ASSUME NEW a, NEW c \in Cell, Contents' = [Contents EXCEPT ![a] = Append(Contents[a], c)]
    PROVE  Store!StorePush(a)
BY DEF Store!StorePush, Store!Becomes, Contents, Elements

LEMMA StorePops ==
    ASSUME NEW a, Contents[a] # << >>,
           Contents' = [Contents EXCEPT ![a] = SubSeq(Contents[a], 1, Len(Contents[a]) - 1)]
    PROVE  Store!StorePop(a)
BY DEF Store!StorePop, Store!Becomes, Contents, Elements

LEMMA StoreInserts ==
    ASSUME NEW a \in Arrays, NEW u \in Seq(Cell), NEW k \in 0..Len(Contents[a]), NEW n \in 1..Len(u),
           Len(u) = Len(Contents[a]) + n, Store!Splice(u, k, n, << >>) = Contents[a],
           Contents' = [Contents EXCEPT ![a] = u]
    PROVE  Store!StoreInsert(a)
<1>1. Contents'[a] = u /\ n \in DOMAIN Contents'[a]
  BY DEF Contents
<1>2. Contents' = [Contents EXCEPT ![a] = Contents'[a]]
  BY <1>1
<1>3. QED
  BY <1>1, <1>2 DEF Store!StoreInsert, Store!Becomes, Contents, Elements

LEMMA StoreRemoves ==
    ASSUME NEW a, NEW k \in 0..Len(Contents[a]), NEW n \in 0..(Len(Contents[a]) - k),
           Contents' = [Contents EXCEPT ![a] = Store!Splice(Contents[a], k, n, << >>)]
    PROVE  Store!StoreRemove(a)
BY DEF Store!StoreRemove, Store!Becomes, Contents, Elements

LEMMA StoreReplaces ==
    ASSUME NEW a, NEW b, NEW k \in 0..Len(Contents[a]), NEW n \in 0..(Len(Contents[a]) - k),
           Contents' = [Contents EXCEPT ![a] = Store!Splice(Contents[a], k, n, Contents[b])]
    PROVE  Store!StoreReplace(a, b)
BY DEF Store!StoreReplace, Store!Becomes, Contents, Elements

LEMMA StoreWrites ==
    ASSUME NEW a, NEW s, s = Contents[a], NEW i \in DOMAIN s, NEW c \in Cell,
           Contents' = [Contents EXCEPT ![a] = [s EXCEPT ![i] = c]]
    PROVE  Store!StoreWrite(a)
BY DEF Store!StoreWrite, Store!Becomes, Contents, Elements

LEMMA StoreClears ==
    ASSUME NEW a, Contents' = [Contents EXCEPT ![a] = << >>]
    PROVE  Store!StoreClear(a)
BY DEF Store!StoreClear, Store!Becomes, Contents, Elements
-----------------------------------------------------------------------------
(* One lemma per operation *)

LEMMA ResizeStep ==
    ASSUME IInv, NEW a \in Arrays, NEW rsz \in 1..MaxCap, Resize(a, rsz)
    PROVE  IInv' /\ Contents' = Contents
<1>1. CASE OutOfMemory(TRUE)
  BY <1>1 DEF OutOfMemory, vars, IInv, TypeOK, FitsBlock, OwnedOnce, HeldPointerLive, Owns,
              Contents, Elements
<1>2. CASE \E m \in Resizes(a, rsz) :
                /\ heap' = m.heap
                /\ arr' = [arr EXCEPT ![a] = [ptr |-> m.ptr, len |-> arr[a].len, cap |-> m.cap]]
                /\ held' = Outdated(a, TRUE)
  <2>1. PICK m \in Resizes(a, rsz) :
                /\ heap' = m.heap
                /\ arr' = [arr EXCEPT ![a] = [ptr |-> m.ptr, len |-> arr[a].len, cap |-> m.cap]]
                /\ held' = Outdated(a, TRUE)
    BY <1>2
  <2>2. Prepared(a, m) /\ m.cap = rsz
    BY ResizesSafely
  <2>3. heap' = [m.heap EXCEPT ![m.ptr] = m.heap[m.ptr]]
    <3>1. m.heap = [b \in Blocks |-> m.heap[b]]
      BY DEF Resizes, Reallocated
    <3>2. QED
      BY <2>1, <3>1
  <2>4. held' \in Handle \cup {NULL} /\ HeldPointerLive'
    <3>1. CASE held' = NULL
      BY <3>1 DEF HeldPointerLive
    <3>2. CASE held' = held /\ held # NULL /\ held.of # a
      <4>1. held.of \in Arrays /\ held \in Handle
        BY <3>2 DEF IInv, TypeOK, Handle
      <4>2. arr'[held.of] = arr[held.of]
        BY <2>1, <3>2, <4>1 DEF IInv, TypeOK
      <4>3. QED
        BY <3>2, <4>1, <4>2 DEF IInv, HeldPointerLive, Owns
    <3>3. QED
      BY <2>1, <3>1, <3>2 DEF Outdated
  <2>5. arr[a].len \in 0..m.cap /\ m.heap[m.ptr] \in Block(m.cap)
    BY <2>2, ArrayFacts DEF Resize, Prepared
  <2>6. TypeOK' /\ FitsBlock' /\ OwnedOnce'
    BY <2>1, <2>2, <2>3, <2>4, <2>5, InstallKeepsSafety
  <2>7. Contents' = Contents
    <3>1. Holds(m.heap[m.ptr], m.cap, Contents[a]) /\ Len(Contents[a]) = arr[a].len
      <4>1. m \in Ensured(a, TRUE, rsz) /\ rsz \in Nat \ {0} /\ arr[a].len <= m.cap
        BY <2>2, <2>5 DEF Ensured
      <4>2. QED
        BY <4>1, EnsuredHolds
    <3>2. Elements(m.heap[m.ptr], arr[a].len) = Contents[a]
      BY <3>1, HeldIs
    <3>3. Contents' = [Contents EXCEPT ![a] = Elements(m.heap[m.ptr], arr[a].len)]
      <4>1. Installs(a, m, m.heap[m.ptr], arr[a].len)
        BY <2>1, <2>3 DEF Installs
      <4>2. QED
        BY <2>2, <4>1, InstallBecomes
    <3>4. QED
      BY <3>2, <3>3 DEF Contents
  <2>8. QED
    BY <2>4, <2>6, <2>7 DEF IInv
<1>3. QED
  BY <1>1, <1>2 DEF Resize

LEMMA PushStep ==
    ASSUME IInv, NEW a \in Arrays, Push(a)
    PROVE  IInv' /\ (Contents' = Contents \/ Store!StorePush(a))
<1> DEFINE len == arr[a].len
           grow == ~(len < arr[a].cap)
           rsz == IF arr[a].cap # 0 THEN arr[a].cap * 2 ELSE EmptyResize
<1>1. CASE OutOfMemory(grow)
  BY <1>1 DEF OutOfMemory, vars, IInv, TypeOK, FitsBlock, OwnedOnce, HeldPointerLive, Owns,
              Contents, Elements
<1>2. ASSUME NEW m \in Ensured(a, grow, rsz),
             heap' = m.heap,
             arr' = [arr EXCEPT ![a] = [ptr |-> m.ptr, len |-> len + 1, cap |-> m.cap]],
             MayKeep(a, m, len, grow)
      PROVE  IInv' /\ Store!StorePush(a)
  <2>1. /\ rsz \in Nat \ {0} /\ grow \in BOOLEAN /\ (grow => len + 1 <= rsz)
        /\ ~grow => Owns(a) /\ len + 1 <= arr[a].cap
    BY ArrayFacts, SizesAssumption DEF Owns
  <2> HIDE DEF grow, rsz
  <2>2. /\ Prepared(a, m)
        /\ grow => m.cap = rsz
        /\ ~grow => m.heap = heap /\ m.ptr = arr[a].ptr /\ m.cap = arr[a].cap
    BY <2>1, EnsuredIsPrepared
  <2>3. len + 1 \in 0..m.cap /\ len \in 0..m.cap
    BY <2>1, <2>2, ArrayFacts DEF Prepared
  <2>4. heap' = [m.heap EXCEPT ![m.ptr] = m.heap[m.ptr]] /\ m.heap[m.ptr] \in Block(m.cap)
    <3>1. m.heap = [b \in Blocks |-> m.heap[b]]
      BY DEF Ensured, Kept, Resizes, Reallocated, IInv, TypeOK
    <3>2. QED
      BY <1>2, <2>2, <3>1 DEF Prepared
  <2>5. held' \in Handle \cup {NULL} /\ HeldPointerLive'
    BY <1>2, <2>1, <2>2, <2>3, MayKeepIsLive
  <2>6. TypeOK' /\ FitsBlock' /\ OwnedOnce'
    BY <1>2, <2>2, <2>3, <2>4, <2>5, InstallKeepsSafety
  <2>7. Store!StorePush(a)
    <3> DEFINE s == Contents[a]
    <3>1. Holds(m.heap[m.ptr], m.cap, s) /\ Len(s) = len
      <4>1. len <= m.cap
        BY <2>3, ArrayFacts
      <4>2. QED
        BY <2>1, <4>1, EnsuredHolds
    <3>2. Len(s) < m.cap
      <4>1. m.cap \in Nat /\ len \in Nat
        BY <2>2, ArrayFacts, SizesAssumption DEF Prepared
      <4>2. QED
        BY <2>3, <3>1, <4>1
    <3>3. Contents' = [Contents EXCEPT ![a] = Elements(m.heap[m.ptr], Len(s) + 1)]
      <4>1. Installs(a, m, m.heap[m.ptr], Len(s) + 1)
        BY <1>2, <2>4, <3>1 DEF Installs
      <4>2. QED
        BY <2>2, <4>1, InstallBecomes
    <3> HIDE DEF s
    <3>4. /\ m.heap[m.ptr][Len(s)] \in Cell
          /\ Elements(m.heap[m.ptr], Len(s) + 1) = Append(s, m.heap[m.ptr][Len(s)])
      BY <3>1, <3>2, PushedIs
    <3>5. QED
      BY <3>3, <3>4, StorePushes DEF s
  <2>8. QED
    BY <2>5, <2>6, <2>7 DEF IInv
<1>3. QED
  BY <1>1, <1>2 DEF Push

LEMMA InsertStep ==
    ASSUME IInv, NEW a \in Arrays, NEW k \in 0..MaxCap, NEW n \in 1..MaxCap, Insert(a, k, n)
    PROVE  IInv' /\ (Contents' = Contents \/ Store!StoreInsert(a))
<1> DEFINE len == arr[a].len
           nln == len + n
           grow == arr[a].cap < nln
<1>1. CASE OutOfMemory(grow)
  BY <1>1 DEF OutOfMemory, vars, IInv, TypeOK, FitsBlock, OwnedOnce, HeldPointerLive, Owns,
              Contents, Elements
<1>2. ASSUME NEW m \in Ensured(a, grow, nln),
             heap' = [m.heap EXCEPT ![m.ptr] = Moved(m.heap[m.ptr], k + n, k, len - k)],
             arr' = [arr EXCEPT ![a] = [ptr |-> m.ptr, len |-> nln, cap |-> m.cap]],
             MayKeep(a, m, k, grow)
      PROVE  IInv' /\ Store!StoreInsert(a)
  <2>1. /\ nln \in Nat \ {0} /\ grow \in BOOLEAN /\ k <= len /\ k <= nln
        /\ ~grow => Owns(a) /\ nln <= arr[a].cap
    BY ArrayFacts, SizesAssumption DEF Owns, Insert
  <2>2. /\ Prepared(a, m)
        /\ grow => m.cap = nln
        /\ ~grow => m.heap = heap /\ m.ptr = arr[a].ptr /\ m.cap = arr[a].cap
    <3> HIDE DEF grow, nln
    <3>1. QED
      BY <2>1, EnsuredIsPrepared
  <2>3. nln \in 0..m.cap /\ k \in 0..m.cap /\ m.cap \in Nat
    BY <2>1, <2>2, ArrayFacts DEF Prepared
  <2>4. Moved(m.heap[m.ptr], k + n, k, len - k) \in Block(m.cap)
    <3>1. /\ k + n \in Nat /\ k \in Nat /\ len - k \in Int /\ k + (len - k) <= m.cap
          /\ m.heap[m.ptr] \in Block(m.cap)
      BY <2>1, <2>2, <2>3, ArrayFacts DEF Prepared
    <3>2. QED
      BY <2>3, <3>1, MovedIsBlock
  <2> HIDE DEF grow, nln
  <2>5. held' \in Handle \cup {NULL} /\ HeldPointerLive'
    BY <1>2, <2>1, <2>2, <2>3, MayKeepIsLive
  <2>6. TypeOK' /\ FitsBlock' /\ OwnedOnce'
    BY <1>2, <2>2, <2>3, <2>4, <2>5, InstallKeepsSafety
  <2>7. Store!StoreInsert(a)
    <3>1. PICK s, cells : s = Contents[a] /\ cells = m.heap[m.ptr]
      OBVIOUS
    <3>2. Holds(cells, m.cap, s) /\ Len(s) = len
      <4>1. len <= m.cap
        BY <2>3, ArrayFacts DEF nln
      <4>2. QED
        BY <2>1, <3>1, <4>1, EnsuredHolds
    <3>3. k \in 0..Len(s) /\ n \in Nat /\ Len(s) + n <= m.cap /\ nln = Len(s) + n
      BY <2>1, <2>3, <3>2, ArrayFacts DEF nln
    <3>4. PICK u : u = Inserted(cells, s, k, n)
      OBVIOUS
    <3>5. Contents' = [Contents EXCEPT ![a] = u]
      <4>1. Installs(a, m, Moved(cells, k + n, k, Len(s) - k), Len(s) + n)
        BY <1>2, <3>1, <3>2, <3>3 DEF Installs
      <4>2. QED
        BY <2>2, <3>4, <4>1, InstallBecomes DEF Inserted
    <3>6. u \in Seq(Cell) /\ Len(u) = Len(s) + n /\ Store!Splice(u, k, n, << >>) = s
      BY <2>3, <3>2, <3>3, <3>4, InsertedIs
    <3>7. n \in 1..Len(u)
      BY <3>3, <3>6
    <3>8. QED
      BY <3>1, <3>3, <3>5, <3>6, <3>7, StoreInserts
  <2>8. QED
    BY <2>5, <2>6, <2>7 DEF IInv
<1>3. QED
  BY <1>1, <1>2 DEF Insert

LEMMA ReplaceStep ==
    ASSUME IInv, NEW a \in Arrays, NEW s \in Arrays, NEW k \in 0..MaxCap, NEW n \in 0..MaxCap,
           Replace(a, k, n, s)
    PROVE  IInv' /\ (Contents' = Contents \/ (s # a /\ Store!StoreReplace(a, s)))
<1> DEFINE len == arr[a].len
           sln == arr[s].len
           nln == len + sln - n
           grow == n < sln /\ arr[a].cap < nln
           src == [i \in 0..(sln - 1) |-> heap[arr[s].ptr][i]]
           tail(m) == Moved(m.heap[m.ptr], k + sln, k + n, len - n - k)
<1>1. CASE OutOfMemory(grow)
  <2>1. IInv'
    BY <1>1 DEF OutOfMemory, vars, IInv, TypeOK, FitsBlock, OwnedOnce, HeldPointerLive, Owns
  <2>2. Contents' = Contents
    BY <1>1 DEF OutOfMemory, vars, Contents, Elements
  <2>3. QED
    BY <2>1, <2>2
<1>2. ASSUME NEW m \in Ensured(a, grow, nln),
             heap' = [m.heap EXCEPT ![m.ptr] = Copied(tail(m), k, src, sln)],
             arr' = [arr EXCEPT ![a] = [ptr |-> m.ptr, len |-> nln, cap |-> m.cap]],
             MayKeep(a, m, k, grow)
      PROVE  IInv' /\ Store!StoreReplace(a, s)
  <2>1. /\ nln \in Nat /\ grow \in BOOLEAN /\ k + n <= len /\ k <= nln /\ sln \in Nat
        /\ grow => nln # 0
        /\ ~grow => Owns(a) /\ nln <= arr[a].cap
    <3>1. sln \in Nat /\ len \in Nat /\ arr[a].cap \in Nat /\ len <= arr[a].cap
      BY ArrayFacts, SizesAssumption
    <3>2. k + n <= len /\ n + sln > 0
      BY DEF Replace
    <3>3. ~Owns(a) => arr[a].cap = 0 /\ len = 0
      BY ArrayFacts
    <3>4. QED
      BY <3>1, <3>2, <3>3
  <2>2. /\ Prepared(a, m)
        /\ grow => m.cap = nln
        /\ ~grow => m.heap = heap /\ m.ptr = arr[a].ptr /\ m.cap = arr[a].cap
    <3> HIDE DEF grow, nln
    <3>1. QED
      BY <2>1, EnsuredIsPrepared
  <2>3. nln \in 0..m.cap /\ k \in 0..m.cap /\ m.cap \in Nat
    BY <2>1, <2>2, ArrayFacts DEF Prepared
  <2>4. Copied(tail(m), k, src, sln) \in Block(m.cap)
    <3>1. /\ k + sln \in Nat /\ k + n \in Nat /\ len - n - k \in Int
          /\ (k + n) + (len - n - k) <= m.cap /\ m.heap[m.ptr] \in Block(m.cap)
      <4>1. len \in Nat /\ len <= arr[a].cap /\ (~grow => m.cap = arr[a].cap)
        BY <2>2, ArrayFacts
      <4>2. grow => len <= nln
        BY <2>1, <4>1
      <4>3. QED
        BY <2>1, <2>2, <2>3, <4>1, <4>2 DEF Prepared
    <3>2. tail(m) \in Block(m.cap)
      BY <2>3, <3>1, MovedIsBlock
    <3>3. src \in [0..(sln - 1) -> Cell]
      <4>1. ASSUME NEW i \in 0..(sln - 1)
            PROVE  heap[arr[s].ptr][i] \in Cell
        <5>1. sln \in Nat /\ arr[s].cap \in Nat /\ sln <= arr[s].cap /\ Owns(s)
          BY ArrayFacts, SizesAssumption DEF Owns
        <5>2. heap[arr[s].ptr] \in [0..(arr[s].cap - 1) -> Cell]
          BY <5>1, ArrayFacts DEF Block
        <5>3. i \in 0..(arr[s].cap - 1)
          BY <5>1
        <5>4. QED
          BY <5>2, <5>3
      <4>2. QED
        BY <4>1
    <3>4. m.cap \in Nat /\ k \in Nat /\ sln \in Nat
      BY <2>1, <2>3
    <3> HIDE DEF tail, src, grow, nln, sln, len
    <3>5. QED
      BY <3>2, <3>3, <3>4, CopiedIsBlock
  <2> HIDE DEF grow, nln, src, tail
  <2>5. held' \in Handle \cup {NULL} /\ HeldPointerLive'
    BY <1>2, <2>1, <2>2, <2>3, MayKeepIsLive
  <2>6. TypeOK' /\ FitsBlock' /\ OwnedOnce'
    BY <1>2, <2>2, <2>3, <2>4, <2>5, InstallKeepsSafety
  <2>7. Store!StoreReplace(a, s)
    <3>1. PICK u, t, cells, from : /\ u = Contents[a] /\ t = Contents[s]
                                   /\ cells = m.heap[m.ptr] /\ from = src
      OBVIOUS
    <3>2. Holds(cells, m.cap, u) /\ Len(u) = len
      <4>1. len <= m.cap
        <5>1. grow => len <= nln
          BY <2>1, ArrayFacts DEF grow, nln
        <5>2. QED
          BY <2>2, <5>1, ArrayFacts
      <4>2. QED
        BY <2>1, <3>1, <4>1, EnsuredHolds
    <3>3. Holds(from, Len(t), t) /\ Len(t) = sln
      BY <3>1, SourceHolds DEF src
    <3>4. /\ k \in 0..Len(u) /\ n \in 0..(Len(u) - k) /\ Len(u) - n + Len(t) <= m.cap
          /\ nln = Len(u) + Len(t) - n
      <4>1. len \in Nat /\ sln \in Nat /\ k \in Nat /\ n \in Nat /\ k + n <= len
        BY <2>1, ArrayFacts
      <4>2. nln = len + sln - n /\ nln <= m.cap
        BY <2>3 DEF nln
      <4>3. k \in 0..len /\ n \in 0..(len - k) /\ len - n + sln <= m.cap /\ nln = len + sln - n
        BY <4>1, <4>2
      <4> HIDE DEF len, sln
      <4>4. QED
        BY <3>2, <3>3, <4>3
    <3>5. Contents' = [Contents EXCEPT ![a] = Elements(Copied(tail(m), k, src, sln), nln)]
      <4>1. Installs(a, m, Copied(tail(m), k, src, sln), nln)
        BY <1>2 DEF Installs
      <4>2. QED
        BY <2>2, <4>1, InstallBecomes
    <3>6. tail(m) = Moved(cells, k + Len(t), k + n, Len(u) - n - k)
      BY <3>1, <3>2, <3>3 DEF tail
    <3>7. Replaced(cells, u, k, n, from, t) = Store!Splice(u, k, n, t)
      <4>1. PICK c \in Nat : c = m.cap
        BY <2>3
      <4>2. Holds(cells, c, u) /\ Len(u) - n + Len(t) <= c
        BY <3>2, <3>4, <4>1
      <4>3. Holds(from, Len(t), t)
        BY <3>3
      <4>4. k \in 0..Len(u)
        BY <3>4
      <4>5. n \in 0..(Len(u) - k)
        BY <3>4
      <4>6. Holds(cells, c, u)
        BY <4>2
      <4>7. Len(u) - n + Len(t) <= c
        BY <4>2
      <4>8. QED
        BY ONLY c \in Nat, <4>3, <4>4, <4>5, <4>6, <4>7, ReplacedIs
    <3>8. Contents' = [Contents EXCEPT ![a] = Store!Splice(u, k, n, t)]
      BY <3>1, <3>3, <3>4, <3>5, <3>6, <3>7 DEF Replaced
    <3>9. QED
      BY <3>1, <3>4, <3>8, StoreReplaces
  <2>8. QED
    BY <2>5, <2>6, <2>7 DEF IInv
<1>3. s # a
  BY DEF Replace
<1>4. QED
  BY <1>1, <1>2, <1>3 DEF Replace

\* Shortening an array in place is installing it again on the memory it has.
LEMMA SetLength ==
    ASSUME IInv, NEW a \in Arrays, NEW nln, arr' = [arr EXCEPT ![a].len = nln]
    PROVE  arr' = [arr EXCEPT ![a] = [ptr |-> arr[a].ptr, len |-> nln, cap |-> arr[a].cap]]
<1>1. arr \in [Arrays -> Header] /\ arr[a] \in Header
  BY DEF IInv, TypeOK
<1>2. [arr[a] EXCEPT !.len = nln] = [ptr |-> arr[a].ptr, len |-> nln, cap |-> arr[a].cap]
  BY <1>1 DEF Header
<1>3. arr' = [arr EXCEPT ![a] = [arr[a] EXCEPT !.len = nln]]
  BY <1>1
<1>4. QED
  BY <1>2, <1>3

\* The memory an owning array already has is prepared for it.
LEMMA KeptIsPrepared ==
    ASSUME IInv, NEW a \in Arrays, Owns(a), NEW m \in Kept(a)
    PROVE  Prepared(a, m) /\ m.heap = heap /\ m.ptr = arr[a].ptr /\ m.cap = arr[a].cap
<1>1. m \in Ensured(a, FALSE, 1)
  BY DEF Ensured
<1>2. QED
  BY <1>1, EnsuredIsPrepared

LEMMA RemoveStep ==
    ASSUME IInv, NEW a \in Arrays, NEW k \in 0..MaxCap, NEW n \in 1..MaxCap, Remove(a, k, n)
    PROVE  IInv' /\ Store!StoreRemove(a)
<1> DEFINE nln == arr[a].len - n
           m == [heap |-> heap, ptr |-> arr[a].ptr, cap |-> arr[a].cap]
           cells == Moved(heap[arr[a].ptr], k, k + n, nln - k)
<1>1. /\ k + n <= arr[a].len
      /\ heap' = [heap EXCEPT ![arr[a].ptr] = cells]
      /\ arr' = [arr EXCEPT ![a].len = nln]
      /\ held' = held
  BY DEF Remove
<1>2. Owns(a) /\ nln \in 0..arr[a].cap /\ arr[a].cap \in Nat /\ arr[a].len \in Nat
      /\ heap[arr[a].ptr] \in Block(arr[a].cap)
  BY <1>1, ArrayFacts, SizesAssumption DEF Owns
<1>3. Prepared(a, m) /\ m.heap = heap /\ m.ptr = arr[a].ptr /\ m.cap = arr[a].cap
  BY <1>2, KeptIsPrepared DEF Kept
<1>4. cells \in Block(m.cap)
  <2>1. k \in Nat /\ k + n \in Nat /\ nln - k \in Int /\ (k + n) + (nln - k) <= arr[a].cap
    BY <1>1, <1>2, ArrayFacts
  <2>2. QED
    BY <1>2, <2>1, MovedIsBlock
<1>5. arr' = [arr EXCEPT ![a] = [ptr |-> m.ptr, len |-> nln, cap |-> m.cap]]
  BY <1>1, SetLength
<1>6. held' \in Handle \cup {NULL}
  BY <1>1 DEF IInv, TypeOK
<1>7. HeldPointerLive'
  <2>1. \A b \in Arrays : arr'[b].ptr = arr[b].ptr /\ arr'[b].cap = arr[b].cap
    BY <1>1 DEF IInv, TypeOK, Header
  <2>2. held # NULL => held.of \in Arrays
    BY DEF IInv, TypeOK, Handle
  <2>3. QED
    BY <1>1, <2>1, <2>2 DEF IInv, HeldPointerLive, Owns
<1>8. TypeOK' /\ FitsBlock' /\ OwnedOnce'
  <2> HIDE DEF m, cells
  <2>1. heap' = [m.heap EXCEPT ![m.ptr] = cells] /\ nln \in 0..m.cap
    BY <1>1, <1>2, <1>3
  <2> HIDE DEF nln
  <2>2. QED
    BY <1>3, <1>4, <1>5, <1>6, <2>1, InstallKeepsSafety
<1>9. Store!StoreRemove(a)
  <2> DEFINE s == Contents[a]
             block == heap[arr[a].ptr]
  <2>1. Holds(block, arr[a].cap, s) /\ Len(s) = arr[a].len
    BY <1>2, OwnedHolds
  <2>2. k \in 0..Len(s) /\ n \in 0..(Len(s) - k) /\ nln = Len(s) - n
    BY <1>1, <1>2, <2>1
  <2>3. cells = Moved(block, k, k + n, Len(s) - n - k)
    BY <2>2
  <2> HIDE DEF m, cells, nln
  <2>4. Contents' = [Contents EXCEPT ![a] = Elements(cells, nln)]
    <3>1. Installs(a, m, cells, nln)
      BY <1>1, <1>3, <1>5 DEF Installs
    <3>2. QED
      BY <1>3, <3>1, InstallBecomes
  <2> HIDE DEF s, block
  <2>5. Elements(cells, nln) = Store!Splice(s, k, n, << >>)
    BY <2>1, <2>2, <2>3, RemovedIs
  <2>6. QED
    BY <2>2, <2>4, <2>5, StoreRemoves DEF s
<1>10. QED
  BY <1>7, <1>8, <1>9 DEF IInv

LEMMA PopStep ==
    ASSUME IInv, NEW a \in Arrays, Pop(a)
    PROVE  IInv' /\ Store!StorePop(a)
<1>1. /\ arr[a].len # 0 /\ heap' = heap
      /\ arr' = [arr EXCEPT ![a].len = arr[a].len - 1]
      /\ held' = Returned(a, arr[a].ptr, arr[a].len - 1) \/ held' = held
  BY DEF Pop, IInv, TypeOK
<1>2. Owns(a) /\ arr[a].len - 1 \in 0..arr[a].cap /\ arr[a].ptr \in Blocks
      /\ arr[a].len - 1 \in 0..MaxCap
  BY <1>1, ArrayFacts, SizesAssumption DEF Owns
<1>3. /\ \A b \in Arrays : arr'[b].ptr = arr[b].ptr /\ arr'[b].cap = arr[b].cap
      /\ \A b \in Arrays \ {a} : arr'[b] = arr[b]
      /\ arr'[a].len = arr[a].len - 1
      /\ arr' \in [Arrays -> Header]
  BY <1>1, <1>2 DEF IInv, TypeOK, Header
<1>4. held' \in Handle \cup {NULL} /\ HeldPointerLive'
  <2>1. CASE held' = Returned(a, arr[a].ptr, arr[a].len - 1)
    BY <1>2, <1>3, <2>1 DEF Returned, Handle, HeldPointerLive, Owns
  <2>2. CASE held' = held
    <3>1. held # NULL => held.of \in Arrays
      BY DEF IInv, TypeOK, Handle
    <3>2. QED
      BY <1>3, <2>2, <3>1 DEF IInv, TypeOK, HeldPointerLive, Owns
  <2>3. QED
    BY <1>1, <2>1, <2>2
<1>5. TypeOK'
  BY <1>1, <1>3, <1>4 DEF IInv, TypeOK
<1>6. FitsBlock'
  BY <1>1, <1>2, <1>3 DEF IInv, FitsBlock, Owns
<1>7. OwnedOnce'
  BY <1>1, <1>3 DEF IInv, OwnedOnce, Owns
<1>8. Store!StorePop(a)
  <2> DEFINE s == Contents[a]
  <2>1. Holds(heap[arr[a].ptr], arr[a].cap, s) /\ Len(s) = arr[a].len
    BY <1>2, OwnedHolds
  <2>2. Contents' = [Contents EXCEPT ![a] = Elements(heap[arr[a].ptr], Len(s) - 1)]
    <3>1. Elements(heap'[arr'[a].ptr], arr'[a].len) = Elements(heap[arr[a].ptr], Len(s) - 1)
      BY <1>1, <1>3, <2>1
    <3>2. \A b \in Arrays \ {a} :
            Elements(heap'[arr'[b].ptr], arr'[b].len) = Elements(heap[arr[b].ptr], arr[b].len)
      BY <1>1, <1>3
    <3> HIDE DEF s
    <3>3. QED
      BY <3>1, <3>2 DEF Contents
  <2> HIDE DEF s
  <2>3. Elements(heap[arr[a].ptr], Len(s) - 1) = SubSeq(s, 1, Len(s) - 1)
    BY <1>1, <2>1, PoppedIs
  <2>4. s # << >>
    BY <1>1, <2>1
  <2>5. QED
    BY <2>2, <2>3, <2>4, StorePops DEF s
<1>9. QED
  BY <1>4, <1>5, <1>6, <1>7, <1>8 DEF IInv

\* There is one block without cells.
LEMMA WithoutCells == \A cells \in Block(0) : cells = NoCells
<1>1. 0..(0 - 1) = {}
  OBVIOUS
<1>2. QED
  BY <1>1 DEF Block, NoCells

LEMMA ClearStep ==
    ASSUME IInv, NEW a \in Arrays, Clear(a)
    PROVE  IInv' /\ Store!StoreClear(a)
<1>1. /\ arr' \in [Arrays -> Header] /\ arr'[a] = Empty
      /\ \A b \in Arrays \ {a} : arr'[b] = arr[b]
  BY SizesAssumption DEF Clear, IInv, TypeOK, Header, Empty
<1>2. /\ ~Owns(a)' /\ arr'[a].len = 0 /\ arr'[a].cap = 0 /\ arr'[a].ptr = NULL
      /\ \A b \in Arrays \ {a} : Owns(b)' <=> Owns(b)
  BY <1>1 DEF Empty, Owns
<1>3. ASSUME NEW b \in Arrays \ {a}, Owns(b)
      PROVE  heap'[arr[b].ptr] = heap[arr[b].ptr]
  BY <1>3 DEF Clear, IInv, FitsBlock, OwnedOnce, Owns
<1>4. ASSUME NEW x \in Blocks, heap'[x] # Free
      PROVE  heap'[x] = NoCells \/ \E b \in Arrays \ {a} : arr[b].ptr = x
  <2>1. heap'[x] = heap[x] /\ ~(arr[a].cap # 0 /\ x = arr[a].ptr)
    BY <1>4 DEF Clear
  <2>2. heap[x] = NoCells \/ \E b \in Arrays : arr[b].ptr = x
    BY <1>4, <2>1 DEF IInv, OwnedOnce
  <2>3. CASE x = arr[a].ptr
    <3>1. arr[a].cap = 0 /\ Owns(a)
      BY <2>1, <2>3, BlocksAssumption DEF Owns
    <3>2. heap[x] \in Block(0)
      BY <2>3, <3>1, ArrayFacts
    <3>3. QED
      BY <2>1, <3>2, WithoutCells
  <2>4. CASE x # arr[a].ptr
    BY <2>1, <2>2, <2>4
  <2>5. QED
    BY <2>3, <2>4
<1>5. held' = NULL \/ (held' = held /\ held # NULL /\ held.of # a)
  BY DEF Clear, Outdated
<1>6. held' \in Handle \cup {NULL} /\ HeldPointerLive'
  BY <1>1, <1>5 DEF IInv, TypeOK, Handle, HeldPointerLive, Owns
<1>7. TypeOK'
  BY <1>1, <1>6 DEF Clear, IInv, TypeOK
<1>8. FitsBlock'
  BY <1>1, <1>2, <1>3 DEF IInv, FitsBlock
<1>9. OwnedOnce'
  <2>1. ASSUME NEW b \in Arrays, NEW c \in Arrays, b # c, Owns(b)'
        PROVE  arr'[b].ptr # arr'[c].ptr
    <3>1. b # a /\ Owns(b) /\ arr'[b] = arr[b] /\ arr[b].ptr \in Blocks
      BY <1>1, <1>2, <2>1 DEF IInv, FitsBlock
    <3>2. QED
      BY <1>1, <1>2, <2>1, <3>1, BlocksAssumption DEF IInv, OwnedOnce
  <2>2. QED
    BY <1>1, <1>2, <1>4, <2>1 DEF OwnedOnce
<1>10. Store!StoreClear(a)
  <2>1. Elements(heap'[arr'[a].ptr], arr'[a].len) = << >>
    BY <1>2, NoElements
  <2>2. ASSUME NEW b \in Arrays \ {a}
        PROVE  Elements(heap'[arr'[b].ptr], arr'[b].len) = Elements(heap[arr[b].ptr], arr[b].len)
    <3>1. CASE Owns(b)
      BY <1>1, <1>3, <3>1
    <3>2. CASE ~Owns(b)
      <4>1. arr[b].len = 0
        BY <3>2, ArrayFacts, SizesAssumption DEF Owns
      <4>2. QED
        BY <1>1, <4>1, NoElements
    <3>3. QED
      BY <3>1, <3>2
  <2>3. Contents' = [Contents EXCEPT ![a] = << >>]
    BY <2>1, <2>2 DEF Contents
  <2>4. QED
    BY <2>3, StoreClears
<1>11. QED
  BY <1>6, <1>7, <1>8, <1>9, <1>10 DEF IInv

LEMMA BufCpyStep ==
    ASSUME IInv, NEW a \in Arrays, NEW s \in Arrays, BufCpy(a, s)
    PROVE  IInv' /\ s # a /\ Store!StoreReplace(a, s)
<1> DEFINE n == arr[s].len
           src == [i \in 0..(n - 1) |-> heap[arr[s].ptr][i]]
<1>1. PICK x \in Blocks :
        /\ heap[x] = Free
        /\ heap' = [heap EXCEPT ![x] = src]
        /\ arr' = [arr EXCEPT ![a] = [ptr |-> x, len |-> n, cap |-> n]]
        /\ held' = held
  BY DEF BufCpy
<1> DEFINE m == [heap |-> [heap EXCEPT ![x] = src], ptr |-> x, cap |-> n]
<1>2. /\ a # s /\ arr[a] = Empty /\ ~Owns(a)
      /\ n \in 0..MaxCap /\ n <= arr[s].cap /\ arr[s].cap \in Nat
      /\ n > 0 => heap[arr[s].ptr] \in [0..(arr[s].cap - 1) -> Cell]
  BY ArrayFacts, SizesAssumption DEF BufCpy, Owns, Empty, Block
<1>3. src \in Block(n)
  <2>1. ASSUME NEW i \in 0..(n - 1)
        PROVE  heap[arr[s].ptr][i] \in Cell
    <3>1. i \in 0..(arr[s].cap - 1) /\ n > 0
      BY <1>2
    <3>2. QED
      BY <1>2, <3>1
  <2>2. QED
    BY <2>1 DEF Block
<1> HIDE DEF src, n
<1>4. Prepared(a, m)
  <2>1. /\ m.ptr = x /\ m.cap = n /\ DOMAIN m.heap = Blocks /\ m.heap[x] = src
        /\ \A y \in Blocks \ {x} : m.heap[y] = heap[y]
    BY DEF IInv, TypeOK
  <2>2. ASSUME NEW b \in Arrays \ {a}, Owns(b)
        PROVE  arr[b].ptr # x /\ m.heap[arr[b].ptr] = heap[arr[b].ptr]
    <3>1. /\ arr[b].ptr \in Blocks /\ arr[b].cap \in 0..MaxCap
          /\ heap[arr[b].ptr] \in [0..(arr[b].cap - 1) -> Cell]
      BY <2>2 DEF IInv, TypeOK, FitsBlock, Header
    <3>2. QED
      BY <1>1, <2>1, <3>1, FreeAssumption
  <2>3. ASSUME NEW y \in Blocks, m.heap[y] # Free, y # x
        PROVE  /\ m.heap[y] = heap[y]
               /\ heap[y] = NoCells \/ \E b \in Arrays \ {a} : arr[b].ptr = y
    <3>1. m.heap[y] = heap[y] /\ heap[y] # Free
      BY <2>1, <2>3
    <3>2. arr[a].ptr # y
      BY <1>2, BlocksAssumption DEF Empty
    <3>3. heap[y] = NoCells \/ \E b \in Arrays : arr[b].ptr = y
      BY <3>1 DEF IInv, OwnedOnce
    <3>4. QED
      BY <3>1, <3>2, <3>3
  <2>4. QED
    BY <1>2, <1>3, <2>1, <2>2, <2>3 DEF Prepared
<1>5. held' \in Handle \cup {NULL} /\ HeldPointerLive'
  <2>1. held # NULL => held.of \in Arrays \ {a}
    BY <1>2 DEF IInv, TypeOK, Handle, HeldPointerLive
  <2>2. \A b \in Arrays \ {a} : arr'[b] = arr[b]
    BY <1>1 DEF IInv, TypeOK
  <2>3. QED
    BY <1>1, <2>1, <2>2 DEF IInv, TypeOK, HeldPointerLive, Owns
<1>6. TypeOK' /\ FitsBlock' /\ OwnedOnce'
  <2>1. /\ heap' = [m.heap EXCEPT ![m.ptr] = src] /\ m.ptr = x /\ m.cap = n
        /\ n \in 0..m.cap
    <3>1. m.ptr = x /\ m.cap = n /\ m.heap = [heap EXCEPT ![x] = src]
      OBVIOUS
    <3>2. [[heap EXCEPT ![x] = src] EXCEPT ![x] = src] = [heap EXCEPT ![x] = src]
      BY DEF IInv, TypeOK
    <3> HIDE DEF m
    <3>3. QED
      BY <1>1, <1>2, <3>1, <3>2
  <2> HIDE DEF m
  <2>2. arr' = [arr EXCEPT ![a] = [ptr |-> m.ptr, len |-> n, cap |-> m.cap]]
        /\ src \in Block(m.cap)
    BY <1>1, <1>3, <2>1
  <2>3. QED
    BY <1>4, <1>5, <2>1, <2>2, InstallKeepsSafety
<1>7. Store!StoreReplace(a, s)
  <2> DEFINE t == Contents[s]
             e == Contents[a]
  <2>1. Holds(src, Len(t), t) /\ Len(t) = n
    BY SourceHolds DEF src, n
  <2>2. e = << >>
    BY <1>2, NoElements DEF Contents, Empty
  <2>3. Contents' = [Contents EXCEPT ![a] = Elements(src, n)]
    <3>1. heap' = [m.heap EXCEPT ![m.ptr] = src] /\ m.ptr = x /\ m.cap = n
      BY <1>1 DEF IInv, TypeOK
    <3> HIDE DEF m
    <3>2. Installs(a, m, src, n)
      BY <1>1, <3>1 DEF Installs
    <3>3. QED
      BY <1>4, <3>2, InstallBecomes
  <2>4. t \in Seq(Cell) /\ e \in Seq(Cell)
    BY ArrayIsSeq
  <2> HIDE DEF t, e
  <2>5. Elements(src, n) = t
    BY <2>1, HeldIs
  <2>6. 0 \in 0..Len(e) /\ 0 \in 0..(Len(e) - 0) /\ Len(e) = 0
    BY <2>2, EmptySeq
  <2>7. t = Store!Splice(e, 0, 0, t)
    <3>1. Len(t) \in Nat /\ Len(t) = Len(e) - 0 + Len(t)
      BY <2>4, <2>6, LenProperties
    <3>2. \A i \in 1..Len(t) : t[i] = SplicedAt(e, 0, 0, t, i)
      BY <3>1 DEF SplicedAt
    <3>3. 0 \in 0..Len(e) /\ 0 \in 0..(Len(e) - 0)
      BY <2>6
    <3>4. QED
      BY ONLY <2>4, <3>1, <3>2, <3>3, IsSplice
  <2>8. QED
    BY <2>3, <2>5, <2>6, <2>7, StoreReplaces DEF t, e
<1>8. QED
  BY <1>2, <1>5, <1>6, <1>7 DEF IInv

LEMMA WriteStep ==
    ASSUME IInv, NEW v \in Vals, Write(v)
    PROVE  IInv' /\ \E a \in Arrays : Store!StoreWrite(a)
<1>1. /\ held # NULL /\ held.at < arr[held.of].len /\ arr' = arr /\ held' = held
      /\ heap' = [heap EXCEPT ![held.blk] = [heap[held.blk] EXCEPT ![held.at] = v]]
  BY DEF Write
<1>2. /\ held.of \in Arrays /\ held.at \in Nat /\ Owns(held.of)
      /\ held.blk = arr[held.of].ptr /\ held.blk \in Blocks
      /\ heap[held.blk] \in [0..(arr[held.of].cap - 1) -> Cell]
      /\ arr[held.of].cap \in 0..MaxCap
  BY <1>1, SizesAssumption
  DEF IInv, TypeOK, Handle, HeldPointerLive, FitsBlock, Header, Owns
<1>3. [heap[held.blk] EXCEPT ![held.at] = v] \in [0..(arr[held.of].cap - 1) -> Cell]
  BY <1>1, <1>2 DEF Cell
<1>4. /\ heap'[held.blk] \in [0..(arr[held.of].cap - 1) -> Cell]
      /\ \A x \in Blocks \ {held.blk} : heap'[x] = heap[x]
      /\ DOMAIN heap' = Blocks /\ heap' = [x \in Blocks |-> heap'[x]]
  BY <1>1, <1>2, <1>3 DEF IInv, TypeOK
<1>5. TypeOK'
  <2>1. ASSUME NEW x \in Blocks
        PROVE  heap'[x] \in {Free} \cup UNION {[0..(n - 1) -> Cell] : n \in 0..MaxCap}
    <3>1. CASE x = held.blk
      BY <1>2, <1>4, <3>1
    <3>2. CASE x # held.blk
      BY <1>4, <3>2 DEF IInv, TypeOK
    <3>3. QED
      BY <3>1, <3>2
  <2>2. QED
    BY <1>1, <1>4, <2>1 DEF IInv, TypeOK
<1>6. FitsBlock'
  <2>1. ASSUME NEW a \in Arrays, Owns(a), arr[a].ptr # held.blk
        PROVE  heap'[arr[a].ptr] = heap[arr[a].ptr] /\ a # held.of
    BY <1>2, <1>4, <2>1 DEF IInv, FitsBlock
  <2>2. ASSUME NEW a \in Arrays, Owns(a), arr[a].ptr = held.blk
        PROVE  a = held.of
    BY <1>2, <2>2 DEF IInv, OwnedOnce
  <2>3. ASSUME NEW a \in Arrays, Owns(a)
        PROVE  heap'[arr[a].ptr] \in [0..(arr[a].cap - 1) -> Cell]
    BY <1>4, <2>1, <2>2, <2>3 DEF IInv, FitsBlock
  <2>4. QED
    BY <1>1, <2>3 DEF IInv, FitsBlock, Owns
<1>7. OwnedOnce'
  <2>1. \A x \in Blocks : heap'[x] # Free => heap[x] # Free \/ x = held.blk
    BY <1>4
  <2>2. QED
    BY <1>1, <1>2, <2>1 DEF IInv, OwnedOnce, Owns
<1>8. HeldPointerLive'
  BY <1>1 DEF IInv, HeldPointerLive, Owns
<1>9. \E a \in Arrays : Store!StoreWrite(a)
  <2>1. PICK a \in Arrays, i \in Int, s \in Seq(Cell) :
          a = held.of /\ i = held.at + 1 /\ s = Contents[a]
    <3>1. PICK a \in Arrays, i \in Int : a = held.of /\ i = held.at + 1
      BY <1>2
    <3>2. Contents[a] \in Seq(Cell)
      BY ArrayIsSeq
    <3>3. QED
      BY <3>1, <3>2
  <2>2. /\ s \in Seq(Cell) /\ Len(s) = arr[a].len /\ arr[a].len \in Nat
        /\ \A j \in 1..arr[a].len : s[j] = heap[arr[a].ptr][j - 1]
    BY <2>1, ArrayIsSeq, ArrayFacts
  <2>3. i \in 1..arr[a].len /\ i \in DOMAIN s
    BY <1>1, <1>2, <2>1, <2>2, LenProperties
  <2>4. ASSUME NEW b \in Arrays, b # a
        PROVE  Contents'[b] = Contents[b]
    <3>1. CASE Owns(b)
      <4>1. arr[b].ptr # held.blk /\ arr[b].ptr \in Blocks
        BY <1>2, <2>1, <2>4, <3>1, ArrayFacts DEF IInv, OwnedOnce
      <4>2. QED
        BY <1>1, <1>4, <4>1 DEF Contents
    <3>2. CASE ~Owns(b)
      <4>1. arr[b].len = 0
        BY <3>2, ArrayFacts, SizesAssumption DEF Owns
      <4>2. QED
        BY <1>1, <4>1, NoElements DEF Contents
    <3>3. QED
      BY <3>1, <3>2
  <2>5. Contents'[a] = [s EXCEPT ![i] = v]
    <3>1. Contents'[a] = [j \in 1..arr[a].len |-> heap'[held.blk][j - 1]]
      <4>1. Contents'[a] = Elements(heap'[arr'[a].ptr], arr'[a].len)
        BY DEF Contents
      <4>2. arr' = arr /\ arr[a].ptr = held.blk
        BY <1>1, <1>2, <2>1
      <4>3. QED
        BY <4>1, <4>2 DEF Elements
    <3>2. s = [j \in 1..arr[a].len |-> heap[held.blk][j - 1]]
      BY <1>2, <2>1 DEF Contents, Elements
    <3>3. ASSUME NEW j \in 1..arr[a].len
          PROVE  heap'[held.blk][j - 1] = IF j = i THEN v ELSE heap[held.blk][j - 1]
      <4>1. arr[a].len <= arr[a].cap /\ arr[a].cap \in Nat
        BY <1>2, <2>1, ArrayFacts
      <4>2. j - 1 \in 0..(arr[a].cap - 1) /\ (j - 1 = held.at <=> j = i)
        BY <1>2, <2>1, <2>2, <4>1
      <4>3. heap'[held.blk] = [heap[held.blk] EXCEPT ![held.at] = v]
        BY <1>1, <1>2 DEF IInv, TypeOK
      <4>4. QED
        BY <1>2, <2>1, <4>2, <4>3
    <3>4. QED
      BY <3>1, <3>2, <3>3
  <2>6. Contents' = [Contents EXCEPT ![a] = [s EXCEPT ![i] = v]]
    <3>1. DOMAIN Contents = Arrays /\ Contents' = [b \in Arrays |-> Contents'[b]]
      BY DEF Contents
    <3>2. Contents = [b \in Arrays |-> Contents[b]]
      BY DEF Contents
    <3>3. QED
      BY <2>4, <2>5, <3>1, <3>2
  <2>7. v \in Cell
    BY DEF Cell
  <2>8. QED
    BY <2>1, <2>3, <2>6, <2>7, StoreWrites
<1>10. IInv'
  BY <1>5, <1>6, <1>7, <1>8 DEF IInv
<1>11. QED
  BY <1>9, <1>10
-----------------------------------------------------------------------------
LEMMA InitIsSafe == Init => IInv
BY SizesAssumption, BlocksAssumption
DEF Init, IInv, TypeOK, FitsBlock, OwnedOnce, HeldPointerLive, Header, Empty, Owns

LEMMA NextIsSafe == IInv /\ [Next]_vars => IInv'
<1> SUFFICES ASSUME IInv, [Next]_vars PROVE IInv'
  OBVIOUS
<1>1. CASE UNCHANGED vars
  BY <1>1 DEF vars, IInv, TypeOK, FitsBlock, OwnedOnce, HeldPointerLive, Owns
<1>2. CASE Next
  BY <1>2, ResizeStep, PushStep, PopStep, InsertStep, RemoveStep, ReplaceStep, ClearStep,
     BufCpyStep, WriteStep DEF Next
<1>3. QED
  BY <1>1, <1>2

\* dyarr.h never reads or writes outside a block, never frees one twice, never leaks one,
\* and the pointers it returns stay good until the array grows: for every number of
\* arrays, every allocator and every failure of realloc.
THEOREM MemorySafety == Spec => [](TypeOK /\ FitsBlock /\ OwnedOnce /\ HeldPointerLive)
<1>1. Spec => []IInv
  BY InitIsSafe, NextIsSafe, PTL DEF Spec
<1>2. IInv => TypeOK /\ FitsBlock /\ OwnedOnce /\ HeldPointerLive
  BY DEF IInv
<1>3. QED
  BY <1>1, <1>2, PTL

\* The arrays of a new program are empty sequences.
LEMMA InitIsStoreInit == Init => Contents = [a \in Arrays |-> << >>]
BY NoElements DEF Init, Contents, Empty

\* Every step of dyarr.h is the step of ArrayStore that its call promises, or changes nothing.
LEMMA NextIsStoreNext == IInv /\ [Next]_vars => Store!StoreNext \/ Contents' = Contents
<1> SUFFICES ASSUME IInv, [Next]_vars PROVE Store!StoreNext \/ Contents' = Contents
  OBVIOUS
<1>1. CASE UNCHANGED vars
  BY <1>1 DEF vars, Contents, Elements
<1>2. ASSUME NEW a \in Arrays, NEW rsz \in 1..MaxCap, Resize(a, rsz)
      PROVE  Contents' = Contents
  BY <1>2, ResizeStep
<1>3. ASSUME NEW a \in Arrays,
             \/ Push(a) \/ Pop(a) \/ Clear(a)
             \/ \E k \in 0..MaxCap, n \in 1..MaxCap : Insert(a, k, n) \/ Remove(a, k, n)
      PROVE  Store!StoreNext \/ Contents' = Contents
  BY <1>3, PushStep, PopStep, ClearStep, InsertStep, RemoveStep DEF Store!StoreNext
<1>4. ASSUME NEW a \in Arrays, NEW s \in Arrays,
             (\E k, n \in 0..MaxCap : Replace(a, k, n, s)) \/ BufCpy(a, s)
      PROVE  Store!StoreNext \/ Contents' = Contents
  <2>1. Contents' = Contents \/ (s # a /\ Store!StoreReplace(a, s))
    BY <1>4, ReplaceStep, BufCpyStep
  <2>2. QED
    BY <2>1 DEF Store!StoreNext
<1>5. ASSUME NEW v \in Vals, Write(v)
      PROVE  Store!StoreNext
  BY <1>5, WriteStep DEF Store!StoreNext
<1>6. QED
  BY <1>1, <1>2, <1>3, <1>4, <1>5 DEF Next

\* The memory of dyarr.h implements the growable sequences of ArrayStore: whatever realloc
\* does, every call changes exactly the elements it names, and a failed call changes none.
THEOREM ArraysAreSequences == Spec => ImplementsStore
<1>1. Spec => []IInv
  BY InitIsSafe, NextIsSafe, PTL DEF Spec
<1>2. Init => Store!StoreInit
  BY InitIsStoreInit DEF Store!StoreInit, Contents, Elements
<1>3. IInv /\ [Next]_vars
        => [Store!StoreNext]_([a \in Arrays |-> [i \in 1..arr[a].len |-> heap[arr[a].ptr][i - 1]]])
  BY NextIsStoreNext DEF Contents, Elements
<1>4. QED
  BY <1>1, <1>2, <1>3, PTL DEF Spec, ImplementsStore, Store!StoreSpec
=============================================================================
