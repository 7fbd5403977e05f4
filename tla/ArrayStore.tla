----------------------------- MODULE ArrayStore -----------------------------
(***************************************************************************)
(* What utils/dyarr.h promises its callers: a set of growable arrays, each *)
(* a finite sequence, with no memory, no capacity and no failure in sight. *)
(* A call that runs out of memory changes nothing, so here it is a         *)
(* stuttering step.  The elements an insertion or a push makes room for    *)
(* are unspecified until the caller writes them.                           *)
(***************************************************************************)
EXTENDS Naturals, Sequences

CONSTANTS Arrays,   \* the arrays of the program
          Cell      \* what an element can hold

VARIABLE contents   \* contents[a] is the sequence held by array a

StoreInit == contents = [a \in Arrays |-> << >>]

\* s with its n elements from offset k on replaced by those of t
Splice(s, k, n, t) == SubSeq(s, 1, k) \o t \o SubSeq(s, k + n + 1, Len(s))

Becomes(a, s) == contents' = [contents EXCEPT ![a] = s]

StorePush(a) == \E c \in Cell : Becomes(a, Append(contents[a], c))

StorePop(a) ==
    /\ contents[a] # << >>
    /\ Becomes(a, SubSeq(contents[a], 1, Len(contents[a]) - 1))

\* taking the new elements out again gives back what was there
StoreInsert(a) ==
    \E k \in 0..Len(contents[a]), n \in DOMAIN contents'[a] :
        /\ Len(contents'[a]) = Len(contents[a]) + n
        /\ Splice(contents'[a], k, n, << >>) = contents[a]
        /\ contents'[a] \in Seq(Cell)
        /\ Becomes(a, contents'[a])

StoreRemove(a) ==
    \E k \in 0..Len(contents[a]) :
        \E n \in 0..(Len(contents[a]) - k) : Becomes(a, Splice(contents[a], k, n, << >>))

StoreReplace(a, b) ==
    \E k \in 0..Len(contents[a]) :
        \E n \in 0..(Len(contents[a]) - k) : Becomes(a, Splice(contents[a], k, n, contents[b]))

StoreWrite(a) ==
    \E i \in DOMAIN contents[a], c \in Cell : Becomes(a, [contents[a] EXCEPT ![i] = c])

StoreClear(a) == Becomes(a, << >>)

StoreNext ==
    \E a \in Arrays :
        \/ StorePush(a) \/ StorePop(a) \/ StoreInsert(a) \/ StoreRemove(a)
        \/ \E b \in Arrays \ {a} : StoreReplace(a, b)
        \/ StoreWrite(a) \/ StoreClear(a)

StoreSpec == StoreInit /\ [][StoreNext]_contents
=============================================================================
