------------------------------- MODULE Growth -------------------------------
(***************************************************************************)
(* Growable arrays as the tools use them: the items, and the capacity on   *)
(* which it depends whether realloc is called and may move them or fail.   *)
(* Dyarr has the memory below.                                             *)
(***************************************************************************)
EXTENDS Integers, Sequences

CONSTANTS EmptyResize,  \* _dyarr_emptyresize
          MaxCap        \* bound: the largest block realloc grants, in items

ASSUME SizesAssumption == EmptyResize \in Nat \ {0} /\ MaxCap \in Nat

ArraysOf(S) == [items : Seq(S), cap : 0..MaxCap]
NoItems == [items |-> << >>, cap |-> 0]

\* dyarr_push of item: the arrays it can leave, none when realloc fails
Pushes(arr, item) ==
    LET len == Len(arr.items)
        cap == IF len < arr.cap THEN arr.cap
               ELSE IF arr.cap # 0 THEN arr.cap * 2 ELSE EmptyResize
    IN IF cap <= MaxCap \/ cap = arr.cap THEN {[items |-> Append(arr.items, item), cap |-> cap]}
                                         ELSE {}
\* the array it leaves when it may fail
MayFail(arr) == IF Len(arr.items) < arr.cap THEN {} ELSE {arr}

\* dyarr_resize where the capacity is below count
Reserves(arr, count) ==
    IF count <= arr.cap THEN {arr}
    ELSE IF count <= MaxCap THEN {[arr EXCEPT !.cap = count]} ELSE {}
=============================================================================
