------------------------------- MODULE Dyarr --------------------------------
(***************************************************************************)
(* The growable arrays of utils/dyarr.h over an explicit heap.             *)
(*                                                                         *)
(* An array is the C struct {ptr, len, cap}.  A block of the heap is a     *)
(* function from its offsets to cells, or Free.  realloc may enlarge a     *)
(* block where it is, move it to any free block (freeing the old one), or  *)
(* fail; it always fails above MaxCap elements, which bounds the model.    *)
(* The caller may keep the pointer a call returned ("held") and write      *)
(* through it as long as nothing has reallocated or cleared that array.    *)
(*                                                                         *)
(* Preconditions taken from the source: an operation that can grow is only *)
(* applied to an array that owns its memory (never to a view made with     *)
(* mkbuf), dyarr_resize is never given 0 (its comment, dyarr.h:28) nor     *)
(* less than len, and the source of dyarr_replace is another array.  A     *)
(* call that names no element (inserts, removes or replaces none by none)  *)
(* changes nothing and is left out.                                        *)
(***************************************************************************)
EXTENDS Integers

CONSTANTS Arrays,       \* the dyarr structs of the program
          Blocks,       \* addresses the allocator can return
          Vals,         \* values a caller stores
          Junk,         \* content of memory nobody wrote
          Free,         \* what the heap holds at an address that is not allocated
          NULL,
          EmptyResize,  \* _dyarr_emptyresize, 8 in the source
          MaxCap        \* bound: the largest block realloc grants, in elements

Cell == Vals \cup {Junk}

ASSUME BlocksAssumption == NULL \notin Blocks
ASSUME SizesAssumption == EmptyResize \in Nat \ {0} /\ MaxCap \in Nat
ASSUME FreeAssumption == \A n \in 0..MaxCap : Free \notin [0..(n - 1) -> Cell]

VARIABLES heap,   \* heap[b]: the cells of block b, or Free
          arr,    \* arr[a]: the struct of array a
          held    \* the pointer the caller keeps: of which array, into which block

vars == <<heap, arr, held>>

Header == [ptr : Blocks \cup {NULL}, len : 0..MaxCap, cap : 0..MaxCap]
Handle == [of : Arrays, blk : Blocks, at : 0..MaxCap]

Empty == [ptr |-> NULL, len |-> 0, cap |-> 0]

-----------------------------------------------------------------------------
(* Memory *)

\* memmove of n cells inside one block, and memcpy of n cells from another
Moved(m, dst, src, n) ==
    [i \in DOMAIN m |-> IF dst <= i /\ i < dst + n THEN m[i - dst + src] ELSE m[i]]
Copied(m, dst, src, n) ==
    [i \in DOMAIN m |-> IF dst <= i /\ i < dst + n THEN src[i - dst] ELSE m[i]]

\* the cells of array a once its block has rsz elements
Resized(a, rsz) ==
    [i \in 0..(rsz - 1) |-> IF i < arr[a].cap THEN heap[arr[a].ptr][i] ELSE Junk]

\* where realloc may put it: the same block or a free one
Targets(a) == {b \in Blocks : heap[b] = Free \/ b = arr[a].ptr}

Reallocated(a, b, rsz) ==
    [x \in Blocks |-> IF x = b THEN Resized(a, rsz)
                      ELSE IF x = arr[a].ptr THEN Free ELSE heap[x]]

\* _dyarr_resize when it succeeds: every memory the call can leave behind
Resizes(a, rsz) ==
    IF rsz <= MaxCap
    THEN {[heap |-> Reallocated(a, b, rsz), ptr |-> b, cap |-> rsz] : b \in Targets(a)}
    ELSE {}

Kept(a) == {[heap |-> heap, ptr |-> arr[a].ptr, cap |-> arr[a].cap]}

\* mutant: reallocates although the capacity suffices
EnsuredAlways(a, grow, rsz) == Resizes(a, rsz)

\* the memory after "if (grow && !_dyarr_resize(..)) return NULL" did not return
Ensured(a, grow, rsz) == IF grow THEN Resizes(a, rsz) ELSE Kept(a)

-----------------------------------------------------------------------------
(* The pointer a caller holds *)

Returned(a, b, at) == [of |-> a, blk |-> b, at |-> at]

\* the caller gives it up when array a may have moved
Outdated(a, moved) == IF moved /\ held # NULL /\ held.of = a THEN NULL ELSE held

\* the caller keeps the pointer the call returned, or the one it had
MayKeep(a, m, at, moved) == held' \in {Returned(a, m.ptr, at), Outdated(a, moved)}

\* a call that returned NULL because realloc did: nothing changed
OutOfMemory(grow) == grow /\ UNCHANGED vars
-----------------------------------------------------------------------------
Init ==
    /\ heap = [b \in Blocks |-> Free]
    /\ arr = [a \in Arrays |-> Empty]
    /\ held = NULL

Resize(a, rsz) ==
    /\ 0 < rsz /\ arr[a].len <= rsz
    /\ \/ \E m \in Resizes(a, rsz) :
            /\ heap' = m.heap
            /\ arr' = [arr EXCEPT ![a] = [ptr |-> m.ptr, len |-> arr[a].len, cap |-> m.cap]]
            /\ held' = Outdated(a, TRUE)
       \/ OutOfMemory(TRUE)

Push(a) ==
    LET len == arr[a].len
        grow == ~(len < arr[a].cap)
        rsz == IF arr[a].cap # 0 THEN arr[a].cap * 2 ELSE EmptyResize
    IN \/ \E m \in Ensured(a, grow, rsz) :
            /\ heap' = m.heap
            /\ arr' = [arr EXCEPT ![a] = [ptr |-> m.ptr, len |-> len + 1, cap |-> m.cap]]
            /\ MayKeep(a, m, len, grow)
       \/ OutOfMemory(grow)

\* mutant: no test for the empty array
PopUnchecked(a) ==
    /\ arr' = [arr EXCEPT ![a].len = @ - 1]
    /\ held' \in {Returned(a, arr[a].ptr, arr[a].len - 1), held}
    /\ UNCHANGED heap

Pop(a) ==
    /\ arr[a].len # 0
    /\ arr' = [arr EXCEPT ![a].len = @ - 1]
    /\ held' \in {Returned(a, arr[a].ptr, arr[a].len - 1), held}
    /\ UNCHANGED heap

\* mutant: compares the capacity with the old length
InsertTestsLen(a, k, n) ==
    LET len == arr[a].len
        nln == len + n
        grow == arr[a].cap < len
    IN /\ k <= len
       /\ \/ \E m \in Ensured(a, grow, nln) :
                /\ heap' = [m.heap EXCEPT ![m.ptr] = Moved(@, k + n, k, len - k)]
                /\ arr' = [arr EXCEPT ![a] = [ptr |-> m.ptr, len |-> nln, cap |-> m.cap]]
                /\ MayKeep(a, m, k, grow)
          \/ OutOfMemory(grow)

Insert(a, k, n) ==
    LET len == arr[a].len
        nln == len + n
        grow == arr[a].cap < nln
    IN /\ k <= len
       /\ \/ \E m \in Ensured(a, grow, nln) :
                /\ heap' = [m.heap EXCEPT ![m.ptr] = Moved(@, k + n, k, len - k)]
                /\ arr' = [arr EXCEPT ![a] = [ptr |-> m.ptr, len |-> nln, cap |-> m.cap]]
                /\ MayKeep(a, m, k, grow)
          \/ OutOfMemory(grow)

Remove(a, k, n) ==
    LET nln == arr[a].len - n
    IN /\ k + n <= arr[a].len
       /\ heap' = [heap EXCEPT ![arr[a].ptr] = Moved(@, k, k + n, nln - k)]
       /\ arr' = [arr EXCEPT ![a].len = nln]
       /\ UNCHANGED held

\* mutant: copies the source before it moves the tail away
ReplaceCopiesFirst(a, k, n, s) ==
    LET len == arr[a].len
        sln == arr[s].len
        nln == len + sln - n
        grow == n < sln /\ arr[a].cap < nln
    IN /\ s # a /\ k + n <= len /\ n + sln > 0
       /\ \/ \E m \in Ensured(a, grow, nln) :
                LET src == [i \in 0..(sln - 1) |-> heap[arr[s].ptr][i]]
                    copied == Copied(m.heap[m.ptr], k, src, sln)
                IN /\ heap' = [m.heap EXCEPT ![m.ptr] = Moved(copied, k + sln, k + n, len - n - k)]
                   /\ arr' = [arr EXCEPT ![a] = [ptr |-> m.ptr, len |-> nln, cap |-> m.cap]]
                   /\ MayKeep(a, m, k, grow)
          \/ OutOfMemory(grow)

\* bufcat is Replace(a, arr[a].len, 0, s); it ignores the NULL of a failure
Replace(a, k, n, s) ==
    LET len == arr[a].len
        sln == arr[s].len
        nln == len + sln - n
        grow == n < sln /\ arr[a].cap < nln
    IN /\ s # a /\ k + n <= len /\ n + sln > 0
       /\ \/ \E m \in Ensured(a, grow, nln) :
                LET tailMoved == Moved(m.heap[m.ptr], k + sln, k + n, len - n - k)
                    src == [i \in 0..(sln - 1) |-> heap[arr[s].ptr][i]]
                IN /\ heap' = [m.heap EXCEPT ![m.ptr] = Copied(tailMoved, k, src, sln)]
                   /\ arr' = [arr EXCEPT ![a] = [ptr |-> m.ptr, len |-> nln, cap |-> m.cap]]
                   /\ MayKeep(a, m, k, grow)
          \/ OutOfMemory(grow)

\* mutant: an array without elements is taken for one without memory
ClearTestsLen(a) ==
    /\ heap' = [b \in Blocks |-> IF arr[a].len # 0 /\ b = arr[a].ptr THEN Free ELSE heap[b]]
    /\ arr' = [arr EXCEPT ![a] = Empty]
    /\ held' = Outdated(a, TRUE)

\* dyarr_clear; buf_free frees the same way and its argument is not used again.  Without
\* capacity nothing is freed, although ptr may name a block without cells.
Clear(a) ==
    /\ heap' = [b \in Blocks |-> IF arr[a].cap # 0 /\ b = arr[a].ptr THEN Free ELSE heap[b]]
    /\ arr' = [arr EXCEPT ![a] = Empty]
    /\ held' = Outdated(a, TRUE)

\* "buf r = bufcpy(other)"; OOM leaves through exitf.  Of an empty other, malloc(0) returns a
\* block without cells, or NULL, which is taken for OOM.
BufCpy(a, s) ==
    LET n == arr[s].len
        src == [i \in 0..(n - 1) |-> heap[arr[s].ptr][i]]
    IN /\ a # s /\ arr[a] = Empty
       /\ \E b \in Blocks :
            /\ heap[b] = Free
            /\ heap' = [heap EXCEPT ![b] = src]
            /\ arr' = [arr EXCEPT ![a] = [ptr |-> b, len |-> n, cap |-> n]]
            /\ UNCHANGED held

\* the caller writes through the pointer it holds, as in *dyarr_push(a) = v
Write(v) ==
    /\ held # NULL /\ held.at < arr[held.of].len
    /\ heap' = [heap EXCEPT ![held.blk][held.at] = v]
    /\ UNCHANGED <<arr, held>>

Next ==
    \/ \E a \in Arrays :
        \/ \E rsz \in 1..MaxCap : Resize(a, rsz)
        \/ Push(a)
        \/ Pop(a)
        \/ \E k \in 0..MaxCap, n \in 1..MaxCap : Insert(a, k, n)
        \/ \E k \in 0..MaxCap, n \in 1..MaxCap : Remove(a, k, n)
        \/ \E s \in Arrays, k, n \in 0..MaxCap : Replace(a, k, n, s)
        \/ Clear(a)
        \/ \E s \in Arrays : BufCpy(a, s)
    \/ \E v \in Vals : Write(v)

Spec == Init /\ [][Next]_vars
-----------------------------------------------------------------------------
(* Properties *)

Owns(a) == arr[a].ptr # NULL

\* The structs, the blocks and the held pointer have the shapes the code gives them.
TypeOK ==
    /\ arr \in [Arrays -> Header]
    /\ held \in Handle \cup {NULL}
    /\ heap \in [Blocks -> {Free} \cup UNION {[0..(n - 1) -> Cell] : n \in 0..MaxCap}]

\* An array's cap is the true size of the block its ptr names, whatever sequence of
\* reallocations, failures and moves led there, and its len fits: every memmove,
\* memcpy and indexing of dyarr.h that stays under cap stays inside the block.
FitsBlock ==
    \A a \in Arrays :
        /\ arr[a].len <= arr[a].cap
        /\ IF Owns(a) THEN /\ arr[a].ptr \in Blocks
                           /\ heap[arr[a].ptr] \in [0..(arr[a].cap - 1) -> Cell]
                      ELSE arr[a].cap = 0

NoCells == [i \in {} |-> Junk]

\* Every allocated block belongs to exactly one array: dyarr_clear frees none twice, growing
\* one array never moves the memory of another, and no sequence of calls leaks one that has
\* cells.  Blocks without any, which bufcpy makes of an empty buffer and no function frees,
\* are the only ones ever lost.
OwnedOnce ==
    /\ \A a, b \in Arrays : a # b /\ Owns(a) => arr[a].ptr # arr[b].ptr
    /\ \A b \in Blocks : heap[b] # Free => heap[b] = NoCells \/ \E a \in Arrays : arr[a].ptr = b

\* A pointer returned by push, pop, insert or replace stays inside its array's block until
\* a call really grows that array: filling reserved capacity invalidates no pointer.
HeldPointerLive ==
    held # NULL => /\ Owns(held.of)
                   /\ held.blk = arr[held.of].ptr
                   /\ held.at <= arr[held.of].cap

\* The arrays behave as the sequences of ArrayStore: whatever the heap does, each call adds,
\* removes or replaces exactly the elements it names, and a failed call changes none.
Store == INSTANCE ArrayStore
            WITH contents <- [a \in Arrays |-> [i \in 1..arr[a].len |-> heap[arr[a].ptr][i - 1]]]
ImplementsStore == Store!StoreSpec
=============================================================================
