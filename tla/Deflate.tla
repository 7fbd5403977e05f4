------------------------------ MODULE Deflate -------------------------------
(***************************************************************************)
(* deflate_dumb of compressions.h: a source of n bytes is written as a     *)
(* zlib stream of stored blocks.  A block is the record of what it copies, *)
(* len bytes from offset "from", and of its final bit; the bytes           *)
(* themselves do not matter here and are left in the source.               *)
(*                                                                         *)
(* r is allocated once, from a count of the blocks made ahead of the loop, *)
(* and nothing tests it again: room is what was allocated and wrote r.len. *)
(***************************************************************************)
EXTENDS Integers, Sequences

CONSTANTS BLOCK_MAX,  \* (1<<16) - 1 in the source
          Sizes       \* source.len of the sources to compress

ASSUME BlockAssumption == BLOCK_MAX \in Nat \ {0} /\ Sizes \subseteq Nat

VARIABLES n,       \* source.len
          pc,      \* "alloc", "blocks", "done" or "OOM"
          k,       \* the cursor in the source
          room,    \* r.cap
          wrote,   \* r.len
          blocks   \* the blocks written

vars == <<n, pc, k, room, wrote, blocks>>

Stored(from, len, final) == [kind |-> "stored", from |-> from, len |-> len, final |-> final]

Init ==
    /\ n \in Sizes /\ pc = "alloc"
    /\ k = 0 /\ room = 0 /\ wrote = 0 /\ blocks = << >>

\* mutant: room for the full blocks only
AllocFullBlocks ==
    /\ pc = "alloc"
    /\ \/ /\ room' = 2 + n + 5 * (n \div (BLOCK_MAX + 1)) + 4
          /\ wrote' = 2
          /\ pc' = "blocks"
       \/ pc' = "OOM" /\ UNCHANGED <<room, wrote>>
    /\ UNCHANGED <<n, k, blocks>>

\* dyarr_resize, then cmf and flg
Alloc ==
    /\ pc = "alloc"
    /\ \/ /\ room' = 2 + n + 5 * (n \div (BLOCK_MAX + 1) + 1) + 4
          /\ wrote' = 2
          /\ pc' = "blocks"
       \/ pc' = "OOM" /\ UNCHANGED <<room, wrote>>
    /\ UNCHANGED <<n, k, blocks>>

\* mutant: advances by one more than a block holds
BlockSkips ==
    /\ pc = "blocks" /\ k < n
    /\ LET len == IF n - k < BLOCK_MAX THEN n - k ELSE BLOCK_MAX
       IN /\ blocks' = Append(blocks, Stored(k, len, len < BLOCK_MAX))
          /\ wrote' = wrote + 5 + len
    /\ k' = k + BLOCK_MAX + 1
    /\ UNCHANGED <<n, pc, room>>

\* mutant: a block is as large as the count ahead of the loop takes it to be
BlockOverlong ==
    /\ pc = "blocks" /\ k < n
    /\ LET len == IF n - k < BLOCK_MAX + 1 THEN n - k ELSE BLOCK_MAX + 1
       IN /\ blocks' = Append(blocks, Stored(k, len, len < BLOCK_MAX + 1))
          /\ wrote' = wrote + 5 + len
    /\ k' = k + BLOCK_MAX + 1
    /\ UNCHANGED <<n, pc, room>>

\* mutant: a full block is taken for the last one too
BlockFullIsFinal ==
    /\ pc = "blocks" /\ k < n
    /\ LET len == IF n - k < BLOCK_MAX THEN n - k ELSE BLOCK_MAX
       IN /\ blocks' = Append(blocks, Stored(k, len, len <= BLOCK_MAX))
          /\ wrote' = wrote + 5 + len
    /\ k' = k + BLOCK_MAX
    /\ UNCHANGED <<n, pc, room>>

\* the header byte, len, ~len and the copied bytes
Block ==
    /\ pc = "blocks" /\ k < n
    /\ LET len == IF n - k < BLOCK_MAX THEN n - k ELSE BLOCK_MAX
       IN /\ blocks' = Append(blocks, Stored(k, len, len < BLOCK_MAX))
          /\ wrote' = wrote + 5 + len
    /\ k' = k + BLOCK_MAX
    /\ UNCHANGED <<n, pc, room>>

\* the adler32 of the source, and return
Finish ==
    /\ pc = "blocks" /\ ~(k < n)
    /\ wrote' = wrote + 4
    /\ pc' = "done"
    /\ UNCHANGED <<n, k, room, blocks>>

Next == Alloc \/ Block \/ Finish

Spec == Init /\ [][Next]_vars
-----------------------------------------------------------------------------
(* Properties *)

\* The cursor and the counts have the values the loop gives them.
TypeOK ==
    /\ n \in Sizes /\ pc \in {"alloc", "blocks", "done", "OOM"}
    /\ k \in Nat /\ room \in Nat /\ wrote \in Nat
    /\ blocks \in Seq([kind : {"stored"}, from : Nat, len : 1..BLOCK_MAX, final : BOOLEAN])

\* The blocks written so far cut the source up to the cursor: each starts where the one before
\* ended, the first at 0, and at the end nothing of the source is missing or repeated.
Partition ==
    /\ \A i \in DOMAIN blocks :
            blocks[i].from = IF i = 1 THEN 0 ELSE blocks[i - 1].from + blocks[i - 1].len
    /\ pc = "done" => n = IF blocks = << >> THEN 0
                          ELSE blocks[Len(blocks)].from + blocks[Len(blocks)].len

\* Up to two full blocks, what is written always fits what was allocated: the count made ahead
\* with BLOCK_MAX + 1 agrees with the loop, which advances by BLOCK_MAX.
FitsRoom == pc \in {"blocks", "done"} /\ n <= 2 * BLOCK_MAX => wrote <= room

\* A final block is the last one, and unless the source is cut into full blocks there is one.
FinalIsLast ==
    /\ \A i \in DOMAIN blocks : blocks[i].final => i = Len(blocks) /\ ~(k < n)
    /\ pc = "done" /\ n % BLOCK_MAX # 0 => blocks # << >> /\ blocks[Len(blocks)].final

\* What the comment on bfinal says, "1 for last block": the last block written is the final one.
LastIsFinal == pc = "done" /\ blocks # << >> => blocks[Len(blocks)].final
=============================================================================
