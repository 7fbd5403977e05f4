----------------------------- MODULE ZlibProofs -----------------------------
(***************************************************************************)
(* The blocks of deflate_dumb, for every block size and every source: they *)
(* partition it, they fit the allocation up to two full blocks, and at     *)
(* most the last one is final.  What inflate makes of them is the source.  *)
(***************************************************************************)
EXTENDS Zlib, TLAPS

\* What is proved about the reader, for the streams of any caller.
RP == INSTANCE InflateProofs WITH pc <- rpc, Streams <- {}, Headers <- {Written},
                                  EmptyResize <- 1, MaxCap <- 0

-----------------------------------------------------------------------------
(* The writer *)

\* The offset after the last block.
End == IF blocks = << >> THEN 0 ELSE blocks[Len(blocks)].from + blocks[Len(blocks)].len

(***************************************************************************)
(* The loop's invariant: the blocks end at the cursor, or at the end of    *)
(* the source once the cursor has passed it; all but a last one that is    *)
(* final are full; what is written is counted by the blocks; and the count *)
(* that the allocation was made from covers the first two blocks.          *)
(***************************************************************************)
Started == /\ pc = "alloc" => k = 0 /\ blocks = << >> /\ wrote = 0
           /\ End = IF k < n THEN k ELSE n
           /\ k = BLOCK_MAX * Len(blocks)
           /\ blocks # << >> => k = blocks[Len(blocks)].from + BLOCK_MAX
           /\ pc = "done" => ~(k < n)
Chained == \A i \in DOMAIN blocks :
              blocks[i].from = IF i = 1 THEN 0 ELSE blocks[i - 1].from + blocks[i - 1].len
Finals == \A i \in DOMAIN blocks : \/ ~blocks[i].final /\ blocks[i].len = BLOCK_MAX
                                   \/ blocks[i].final /\ i = Len(blocks) /\ ~(k < n)
Counted == /\ pc = "blocks" => wrote = 2 + End + 5 * Len(blocks)
           /\ pc = "done" => wrote = 6 + End + 5 * Len(blocks)
           /\ Len(blocks) >= 2 => n > BLOCK_MAX
           /\ n <= 2 * BLOCK_MAX => Len(blocks) <= 2
Roomy == pc \in {"blocks", "done"} => /\ room >= n + 11
                                      /\ n > BLOCK_MAX => room >= n + 16

IInv == TypeOK /\ Started /\ Chained /\ Finals /\ Counted /\ Roomy

LEMMA Division ==
    ASSUME NEW a \in Nat, NEW b \in Nat \ {0}
    PROVE  /\ a \div b \in Nat
           /\ a >= b => a \div b >= 1
OBVIOUS

LEMMA Multiple ==
    ASSUME NEW b \in Nat \ {0}, NEW m \in Nat
    PROVE  (b * m) % b = 0
OBVIOUS

-----------------------------------------------------------------------------
(* The invariant holds at the beginning and every step keeps it *)

LEMMA InitIInv == Init => IInv
BY BlockAssumption DEF Init, IInv, TypeOK, Started, Chained, Finals, Counted, Roomy, End

LEMMA AllocIInv == IInv /\ Alloc => IInv'
<1> SUFFICES ASSUME IInv, Alloc PROVE IInv'
  OBVIOUS
<1> USE BlockAssumption
<1>1. n \in Nat /\ BLOCK_MAX \in Nat \ {0} /\ n \div (BLOCK_MAX + 1) \in Nat
      /\ (n > BLOCK_MAX => n \div (BLOCK_MAX + 1) >= 1)
  <2>1. n \in Nat /\ BLOCK_MAX + 1 \in Nat \ {0} /\ (n > BLOCK_MAX <=> n >= BLOCK_MAX + 1)
    BY DEF IInv, TypeOK
  <2> DEFINE d == BLOCK_MAX + 1
  <2>2. d \in Nat \ {0}
    BY <2>1
  <2> HIDE DEF d
  <2>3. n \div d \in Nat /\ (n >= d => n \div d >= 1)
    BY <2>1, <2>2, Division
  <2> QED BY <2>1, <2>3 DEF d
<1>2. TypeOK'
  BY <1>1 DEF IInv, TypeOK, Alloc
<1>3. Started' /\ Chained' /\ Finals' /\ Counted'
  BY <1>1 DEF IInv, TypeOK, Started, Chained, Finals, Counted, Alloc, End
<1>4. Roomy'
  BY <1>1 DEF IInv, TypeOK, Roomy, Alloc
<1> QED BY <1>2, <1>3, <1>4 DEF IInv

LEMMA BlockIInv == IInv /\ Block => IInv'
<1> SUFFICES ASSUME IInv, Block PROVE IInv'
  OBVIOUS
<1> USE BlockAssumption
<1> DEFINE len == IF n - k < BLOCK_MAX THEN n - k ELSE BLOCK_MAX
           b == Stored(k, len, len < BLOCK_MAX)
<1>1. /\ n \in Nat /\ k \in Nat /\ k < n /\ BLOCK_MAX \in Nat \ {0}
      /\ len \in 1..BLOCK_MAX /\ k + len = IF k + BLOCK_MAX < n THEN k + BLOCK_MAX ELSE n
  BY DEF IInv, TypeOK, Block
<1>2. /\ b.from = k /\ b.len = len /\ b.final = (len < BLOCK_MAX)
      /\ b \in [kind : {"stored"}, from : Nat, len : 1..BLOCK_MAX, final : BOOLEAN]
  BY <1>1 DEF Stored
<1>3. /\ blocks \in Seq([kind : {"stored"}, from : Nat, len : 1..BLOCK_MAX, final : BOOLEAN])
      /\ blocks' = Append(blocks, b) /\ k' = k + BLOCK_MAX /\ wrote' = wrote + 5 + len
      /\ pc = "blocks" /\ pc' = pc /\ n' = n /\ room' = room
  BY DEF IInv, TypeOK, Block
<1> HIDE DEF len, b
<1>4. /\ Len(blocks') = Len(blocks) + 1 /\ Len(blocks) \in Nat
      /\ blocks'[Len(blocks) + 1] = b
      /\ \A i \in DOMAIN blocks : blocks'[i] = blocks[i]
      /\ DOMAIN blocks = 1..Len(blocks) /\ DOMAIN blocks' = 1..(Len(blocks) + 1)
  <2> DEFINE T == [kind : {"stored"}, from : Nat, len : 1..BLOCK_MAX, final : BOOLEAN]
  <2>1. blocks \in Seq(T) /\ b \in T /\ blocks' = Append(blocks, b)
    BY <1>2, <1>3
  <2> HIDE DEF T
  <2> QED BY <2>1
<1>5. TypeOK'
  BY <1>1, <1>2, <1>3 DEF IInv, TypeOK
<1>6. End' = k + len /\ End = k /\ k = BLOCK_MAX * Len(blocks)
  <2>1. blocks' # << >> /\ blocks'[Len(blocks')] = b
    BY <1>3, <1>4
  <2>2. End' = k + len
    BY <2>1, <1>2 DEF End
  <2> QED BY <2>2, <1>1 DEF IInv, Started
<1>7. BLOCK_MAX * (Len(blocks) + 1) = BLOCK_MAX * Len(blocks) + BLOCK_MAX
  BY <1>4, <1>1
<1>8. Started'
  <2>1. blocks'[Len(blocks')].from = k /\ k' = k + BLOCK_MAX
    BY <1>2, <1>3, <1>4
  <2>2. End' = IF k' < n' THEN k' ELSE n'
    BY <1>1, <1>3, <1>6
  <2>3. k' = BLOCK_MAX * Len(blocks')
    BY <1>3, <1>4, <1>6, <1>7
  <2> QED BY <2>1, <2>2, <2>3, <1>3 DEF Started
<1>9. Chained'
  <2> SUFFICES ASSUME NEW i \in DOMAIN blocks'
               PROVE  blocks'[i].from = IF i = 1 THEN 0
                                        ELSE blocks'[i - 1].from + blocks'[i - 1].len
    BY DEF Chained
  <2>1. CASE i = Len(blocks) + 1
    <3>1. blocks = << >> <=> Len(blocks) = 0
      BY <1>3
    <3>2. blocks'[i].from = End
      BY <2>1, <1>4, <1>2, <1>6
    <3> QED BY <2>1, <3>1, <3>2, <1>4 DEF End
  <2>2. CASE i \in DOMAIN blocks
    <3>1. blocks'[i] = blocks[i] /\ i \in Nat \ {0} /\ (i # 1 => i - 1 \in DOMAIN blocks)
      BY <2>2, <1>4
    <3>2. i # 1 => blocks'[i - 1] = blocks[i - 1]
      BY <3>1, <1>4
    <3> QED BY <2>2, <3>1, <3>2 DEF IInv, Chained
  <2> QED BY <2>1, <2>2, <1>4
<1>10. Finals'
  <2>1. \A i \in DOMAIN blocks : blocks'[i] = blocks[i] /\ ~blocks[i].final
                                /\ blocks[i].len = BLOCK_MAX
    BY <1>1, <1>4 DEF IInv, Finals
  <2>2. len < BLOCK_MAX => ~(k' < n')
    BY <1>1, <1>3
  <2> QED BY <2>1, <2>2, <1>1, <1>2, <1>4 DEF Finals
<1>11. Counted'
  <2>1. Len(blocks') >= 2 => n > BLOCK_MAX
    <3>1. Len(blocks) >= 1 => BLOCK_MAX * Len(blocks) >= BLOCK_MAX
      BY <1>1, <1>4
    <3> QED BY <3>1, <1>1, <1>4, <1>6
  <2>2. n <= 2 * BLOCK_MAX => Len(blocks') <= 2
    <3>1. Len(blocks) >= 2 => BLOCK_MAX * Len(blocks) >= 2 * BLOCK_MAX
      BY <1>1, <1>4
    <3> QED BY <3>1, <1>1, <1>4, <1>6
  <2>3. wrote' = 2 + End' + 5 * Len(blocks')
    BY <1>1, <1>3, <1>4, <1>6 DEF IInv, Counted, TypeOK
  <2> QED BY <2>1, <2>2, <2>3, <1>3 DEF Counted
<1>12. Roomy'
  BY <1>3 DEF IInv, Roomy
<1> QED BY <1>5, <1>8, <1>9, <1>10, <1>11, <1>12 DEF IInv

LEMMA FinishIInv == IInv /\ Finish => IInv'
<1> SUFFICES ASSUME IInv, Finish PROVE IInv'
  OBVIOUS
<1>1. TypeOK'
  BY DEF IInv, TypeOK, Finish
<1>2. End' = End /\ End \in Nat /\ Len(blocks) \in Nat
  <2>1. k \in Nat /\ n \in Nat /\ Len(blocks) \in Nat /\ blocks' = blocks
    BY BlockAssumption DEF IInv, TypeOK, Finish
  <2>2. End = IF k < n THEN k ELSE n
    BY DEF IInv, Started
  <2>3. End' = End
    BY <2>1 DEF End
  <2> QED BY <2>1, <2>2, <2>3
<1>3. Started' /\ Chained' /\ Finals'
  BY <1>2 DEF IInv, Started, Chained, Finals, Finish
<1>4. Counted' /\ Roomy'
  BY <1>2 DEF IInv, TypeOK, Counted, Roomy, Finish
<1> QED BY <1>1, <1>3, <1>4 DEF IInv

-----------------------------------------------------------------------------
(* What the invariant says of the stream *)

LEMMA IInvPartition == IInv => Partition
<1> SUFFICES ASSUME IInv PROVE Partition
  OBVIOUS
<1>1. pc = "done" => End = n
  BY DEF IInv, Started
<1> QED BY <1>1 DEF IInv, Chained, Partition, End

LEMMA IInvFitsRoom == IInv => FitsRoom
<1> SUFFICES ASSUME IInv, pc \in {"blocks", "done"}, n <= 2 * BLOCK_MAX PROVE wrote <= room
  BY DEF FitsRoom
<1> USE BlockAssumption
<1>1. n \in Nat /\ End \in Nat /\ End <= n /\ Len(blocks) \in Nat /\ room \in Nat
  BY DEF IInv, TypeOK, Started
<1>2. wrote <= 6 + n + 5 * Len(blocks)
  BY <1>1 DEF IInv, Counted
<1>3. /\ room >= n + 11 /\ (n > BLOCK_MAX => room >= n + 16)
      /\ Len(blocks) <= 2 /\ (Len(blocks) >= 2 => n > BLOCK_MAX) /\ wrote \in Nat
  BY DEF IInv, Roomy, Counted, TypeOK
<1>4. CASE Len(blocks) \in 0..1
  BY <1>1, <1>2, <1>3, <1>4
<1>5. CASE Len(blocks) = 2
  BY <1>1, <1>2, <1>3, <1>5
<1>6. Len(blocks) \in 0..1 \/ Len(blocks) = 2
  <2>1. \A m \in Nat : m <= 2 => m \in 0..1 \/ m = 2
    OBVIOUS
  <2> QED BY <2>1, <1>1, <1>3
<1> QED BY <1>4, <1>5, <1>6

LEMMA IInvFinalIsLast == IInv => FinalIsLast
<1> SUFFICES ASSUME IInv PROVE FinalIsLast
  OBVIOUS
<1> USE BlockAssumption
<1>1. \A i \in DOMAIN blocks : blocks[i].final => i = Len(blocks) /\ ~(k < n)
  BY DEF IInv, Finals
<1>2. ASSUME pc = "done", blocks = << >> \/ ~blocks[Len(blocks)].final PROVE n % BLOCK_MAX = 0
  <2>1. /\ Len(blocks) \in Nat /\ n \in Nat /\ End = n /\ k = BLOCK_MAX * Len(blocks)
        /\ blocks # << >> => Len(blocks) \in DOMAIN blocks
        /\ BLOCK_MAX \in Nat \ {0}
    BY <1>2 DEF IInv, TypeOK, Started
  <2>2. CASE blocks = << >>
    <3>1. n = BLOCK_MAX * 0
      BY <2>1, <2>2 DEF End
    <3> QED BY <3>1, <2>1, Multiple
  <2>3. CASE blocks # << >>
    <3>1. blocks[Len(blocks)].len = BLOCK_MAX
      BY <1>2, <2>1, <2>3 DEF IInv, Finals
    <3>2. n = blocks[Len(blocks)].from + BLOCK_MAX
      BY <2>1, <2>3, <3>1 DEF End
    <3>3. n = BLOCK_MAX * Len(blocks)
      BY <2>1, <2>3, <3>2 DEF IInv, Started
    <3> QED BY <3>3, <2>1, Multiple
  <2> QED BY <2>2, <2>3
<1> QED BY <1>1, <1>2 DEF FinalIsLast

LEMMA NextIInv == IInv /\ [Next]_vars => IInv'
<1> SUFFICES ASSUME IInv, [Next]_vars PROVE IInv'
  OBVIOUS
<1>1. CASE Next
  BY <1>1, AllocIInv, BlockIInv, FinishIInv DEF Next
<1>2. CASE UNCHANGED vars
  BY <1>2 DEF vars, IInv, TypeOK, Started, Chained, Finals, Counted, Roomy, End
<1> QED BY <1>1, <1>2

\* Whatever the size of a block and of the source, the blocks deflate_dumb writes partition the
\* source, at most the last is final, and up to two full blocks they fit what was allocated.
THEOREM StoredStream == Spec => [](TypeOK /\ Partition /\ FitsRoom /\ FinalIsLast)
<1>1. IInv => TypeOK /\ Partition /\ FitsRoom /\ FinalIsLast
  BY IInvPartition, IInvFitsRoom, IInvFinalIsLast DEF IInv
<1> QED BY InitIInv, NextIInv, <1>1, PTL DEF Spec

-----------------------------------------------------------------------------
(* The reader of module Zlib is the one that InflateProofs is about *)

\* The reader is the one that InflateProofs is about.
LEMMA SameSizes ==
    /\ \A x : R!Ceil8(x) = RP!Ceil8(x)
    /\ \A s, i : R!EndOf(s, i) = RP!EndOf(s, i)
    /\ \A s : R!Whole(s) = RP!Whole(s)
    /\ \A c, w : R!Acc(c, w) = RP!Acc(c, w) /\ R!Drop(c, w) = RP!Drop(c, w)
<1>1. \A x : R!Ceil8(x) = RP!Ceil8(x)
  BY DEF R!Ceil8, RP!Ceil8
<1>2. \A s, i : R!EndOf(s, i) = RP!EndOf(s, i)
  BY DEF R!Ceil8, RP!Ceil8, R!EndOf, RP!EndOf, R!Ends, RP!Ends, R!BlockEnd, RP!BlockEnd, R!SymEnds, RP!SymEnds, R!Bits, RP!Bits
<1>3. \A s : R!Whole(s) = RP!Whole(s)
  BY <1>1, <1>2 DEF R!Whole, RP!Whole, R!Trailer, RP!Trailer
<1>4. \A c, w : R!Acc(c, w) = RP!Acc(c, w) /\ R!Drop(c, w) = RP!Drop(c, w)
  BY <1>1 DEF R!Acc, RP!Acc, R!Drop, RP!Drop
<1>5. QED
  BY <1>1, <1>2, <1>3, <1>4

LEMMA SameSteps == R!Next => RP!Next
<1> USE DEF R!Fails, RP!Fails, R!source, RP!source, R!Enough, RP!Enough, R!Moves, RP!Moves,
        R!BlockDone, RP!BlockDone, R!Cursor, RP!Cursor, R!Refused, RP!Refused
<1>1. R!Header => RP!Header
  BY SameSizes DEF R!Header, RP!Header
<1>2. R!BlockHeader => RP!BlockHeader
  BY SameSizes DEF R!BlockHeader, RP!BlockHeader
<1>3. R!StoredBlock => RP!StoredBlock
  BY SameSizes DEF R!StoredBlock, RP!StoredBlock, R!Data, RP!Data
<1>4. R!FixedCodes => RP!FixedCodes
  BY DEF R!FixedCodes, RP!FixedCodes
<1>5. R!CodeTables => RP!CodeTables
  BY SameSizes DEF R!CodeTables, RP!CodeTables
<1>6. R!Return => RP!Return
  BY DEF R!Return, RP!Return
<1>7. R!Symbol = RP!Symbol /\ R!AfterCode = RP!AfterCode /\ R!AfterCopy = RP!AfterCopy
  BY SameSizes DEF R!Symbol, RP!Symbol, R!AfterCode, RP!AfterCode, R!AfterCopy, RP!AfterCopy
<1>8. /\ R!CodeFound = RP!CodeFound /\ R!DistFound = RP!DistFound
      /\ \A kind : R!Reading(kind) = RP!Reading(kind)
  BY <1>7, SameSizes DEF R!CodeFound, RP!CodeFound, R!DistFound, RP!DistFound, R!Reading, RP!Reading
<1>9. R!Literal => RP!Literal
  BY <1>7, <1>8 DEF R!Literal, RP!Literal
<1>10. R!Copy => RP!Copy
  BY <1>7, <1>8 DEF R!Copy, RP!Copy, R!Copied, RP!Copied
<1>11. R!EndOfBlock => RP!EndOfBlock
  BY <1>7, <1>8 DEF R!EndOfBlock, RP!EndOfBlock
<1>12. R!NoCode => RP!NoCode
  BY <1>7, <1>8 DEF R!NoCode, RP!NoCode
<1>13. QED
  BY <1>1, <1>2, <1>3, <1>4, <1>5, <1>6, <1>9, <1>10, <1>11, <1>12 DEF R!Next, RP!Next

\* The reader moves only after it is given a stream, which it leaves alone.
LEMMA SameSource == R!Next => rpc # "none" /\ UNCHANGED <<stream, cut, xnfo, header>>
BY DEF R!Next, R!Header, R!BlockHeader, R!StoredBlock, R!FixedCodes, R!CodeTables, R!Literal,
       R!Copy, R!EndOfBlock, R!NoCode, R!Return, R!Reading, R!Fails, R!source

-----------------------------------------------------------------------------
(* The blocks as a stream *)

\* The offset after the first i blocks.
EndAt(i) == IF i = 0 THEN 0 ELSE blocks[i].from + blocks[i].len

LEMMA BlocksAre ==
    ASSUME IInv
    PROVE  /\ blocks \in Seq(RP!Blocks) /\ Len(blocks) \in Nat /\ DOMAIN blocks = 1..Len(blocks)
           /\ \A i \in 1..Len(blocks) :
                /\ blocks[i].kind = "stored" /\ blocks[i].from = EndAt(i - 1)
                /\ blocks[i].len \in Nat /\ blocks[i].from \in Nat
                /\ blocks[i].final => i = Len(blocks)
           /\ \A i \in 0..Len(blocks) : EndAt(i) \in Nat
           /\ EndAt(Len(blocks)) = End
<1> DEFINE T == [kind : {"stored"}, from : Nat, len : 1..BLOCK_MAX, final : BOOLEAN]
<1>1. blocks \in Seq(T)
  BY DEF IInv, TypeOK
<1>2. T \subseteq RP!Blocks
  BY BlockAssumption DEF RP!Blocks
<1>3. \A x \in T : x.kind = "stored" /\ x.from \in Nat /\ x.len \in Nat
  BY BlockAssumption
<1> HIDE DEF T
<1>4. /\ Len(blocks) \in Nat /\ DOMAIN blocks = 1..Len(blocks)
      /\ \A i \in 1..Len(blocks) : blocks[i] \in T
  BY <1>1
<1>5. blocks \in Seq(RP!Blocks)
  BY <1>1, <1>2
<1>6. ASSUME NEW i \in 1..Len(blocks) PROVE blocks[i].from = EndAt(i - 1)
  <2>1. blocks[i].from = IF i = 1 THEN 0 ELSE blocks[i - 1].from + blocks[i - 1].len
    BY <1>4 DEF IInv, Chained
  <2>2. i - 1 = 0 <=> i = 1
    BY <1>4
  <2> QED BY <2>1, <2>2 DEF EndAt
<1>7. \A i \in 1..Len(blocks) : blocks[i].final => i = Len(blocks)
  BY <1>4 DEF IInv, Finals
<1>8. ASSUME NEW i \in 0..Len(blocks) PROVE EndAt(i) \in Nat
  <2>1. CASE i = 0
    BY <2>1 DEF EndAt
  <2>2. CASE i # 0
    <3>1. blocks[i] \in T
      BY <1>4, <2>2
    <3> QED BY <2>2, <3>1, <1>3 DEF EndAt
  <2> QED BY <2>1, <2>2
<1>9. EndAt(Len(blocks)) = End
  <2>1. blocks = << >> <=> Len(blocks) = 0
    BY <1>1
  <2> QED BY <2>1 DEF EndAt, End
<1> QED BY <1>3, <1>4, <1>5, <1>6, <1>7, <1>8, <1>9

\* The header has two bytes and a block five more than what it copies.
LEMMA BlocksLie ==
    ASSUME IInv
    PROVE  \A i \in 0..Len(blocks) : RP!EndOf(blocks, i) = 8 * (2 + 5 * i + EndAt(i))
<1> DEFINE S == {i \in 0..Len(blocks) : RP!EndOf(blocks, i) = 8 * (2 + 5 * i + EndAt(i))}
<1>1. blocks \in Seq(RP!Blocks) /\ Len(blocks) \in Nat
  BY BlocksAre
<1>2. 0 \in S
  <2>1. RP!EndOf(blocks, 0) = 16
    BY <1>1, RP!EndOfIs
  <2> QED BY <1>1, <2>1 DEF EndAt
<1>3. ASSUME NEW i \in 1..Len(blocks), i - 1 \in S
      PROVE  i \in S
  <2>1. i - 1 \in 0..Len(blocks) /\ i \in 0..Len(blocks) /\ i # 0
    BY <1>1
  <2>2. PICK m \in Nat, len \in Nat : m = 2 + 5 * (i - 1) + EndAt(i - 1) /\ len = blocks[i].len
    <3>1. EndAt(i - 1) \in Nat /\ blocks[i].len \in Nat
      BY <2>1, BlocksAre
    <3>2. 2 + 5 * (i - 1) + EndAt(i - 1) \in Nat
      BY <2>1, <3>1
    <3> QED BY <3>1, <3>2
  <2>3. RP!EndOf(blocks, i - 1) = 8 * m
    BY <1>3, <2>2
  <2>4. RP!EndOf(blocks, i) = RP!BlockEnd(RP!EndOf(blocks, i - 1), blocks[i])
    BY <1>1, RP!EndOfIs
  <2>5. RP!EndOf(blocks, i) = 8 * (RP!Ceil8(8 * m + 3) + 4 + len)
    <3>1. blocks[i].kind = "stored"
      BY BlocksAre
    <3> QED BY <2>2, <2>3, <2>4, <3>1 DEF RP!BlockEnd
  <2>6. RP!Ceil8(8 * m + 3) = m + 1
    BY DEF RP!Ceil8
  <2>7. EndAt(i) = EndAt(i - 1) + len /\ EndAt(i - 1) \in Nat
    <3>1. blocks[i].from = EndAt(i - 1)
      BY BlocksAre
    <3>2. EndAt(i) = blocks[i].from + blocks[i].len
      BY <2>1 DEF EndAt
    <3>3. EndAt(i - 1) \in Nat
      BY <2>1, BlocksAre
    <3> QED BY <2>2, <3>1, <3>2, <3>3
  <2>8. 2 + 5 * i + EndAt(i) = m + 5 + len
    BY <2>1, <2>2, <2>7
  <2>9. RP!EndOf(blocks, i) = 8 * (2 + 5 * i + EndAt(i))
    BY <2>5, <2>6, <2>8
  <2> QED BY <2>1, <2>9
<1> HIDE DEF S
<1>4. \A i \in 0..Len(blocks) : i \in S
  <2>1. PICK m \in Nat : m = Len(blocks)
    BY <1>1
  <2>2. \A i \in 1..m : i - 1 \in S => i \in S
    BY <1>3, <2>1
  <2>3. \A i \in 0..m : i \in S
    BY <1>2, <2>2, RP!InductUpTo
  <2> QED BY <2>1, <2>3
<1> QED BY <1>4 DEF S

\* What the first i blocks stand for is the beginning of the source.
LEMMA BlocksStandFor ==
    ASSUME IInv
    PROVE  \A i \in 0..Len(blocks) : RP!Expansions(blocks)[i] = [x \in 1..EndAt(i) |-> x - 1]
<1>1. PICK f, m : f = RP!Expansions(blocks) /\ m = Len(blocks)
  OBVIOUS
<1> DEFINE S == {i \in 0..m : f[i] = [x \in 1..EndAt(i) |-> x - 1]}
<1>2. m \in Nat
  BY <1>1, BlocksAre
<1>3. f[0] = << >> /\ \A i \in 1..m : f[i] = RP!Unpacked(f[i - 1], blocks[i])
  BY <1>1, <1>2, RP!ExpansionsAre
<1>4. 0 \in S
  <2>1. EndAt(0) = 0
    BY DEF EndAt
  <2>2. [x \in 1..0 |-> x - 1] = << >>
    OBVIOUS
  <2> QED BY <1>2, <1>3, <2>1, <2>2
<1>5. ASSUME NEW i \in 1..m, i - 1 \in S
      PROVE  i \in S
  <2>1. i - 1 \in 0..m /\ i \in 0..m /\ i # 0
    BY <1>2
  <2>2. PICK from, len \in Nat : from = blocks[i].from /\ len = blocks[i].len
    BY <1>1, BlocksAre
  <2>3. EndAt(i - 1) = from /\ EndAt(i) = from + len
    <3>1. blocks[i].from = EndAt(i - 1)
      BY <1>1, BlocksAre
    <3> QED BY <2>1, <2>2, <3>1 DEF EndAt
  <2>4. f[i - 1] = [x \in 1..from |-> x - 1]
    BY <1>5, <2>3
  <2>5. f[i] = f[i - 1] \o [x \in 1..len |-> from + x - 1]
    <3>1. blocks[i].kind = "stored"
      BY <1>1, BlocksAre
    <3> QED BY <1>3, <2>2, <3>1 DEF RP!Unpacked, RP!Data
  <2>6. [x \in 1..from |-> x - 1] \o [x \in 1..len |-> from + x - 1]
        = [x \in 1..(from + len) |-> x - 1]
    OBVIOUS
  <2> QED BY <2>1, <2>3, <2>4, <2>5, <2>6
<1> HIDE DEF S
<1>6. \A i \in 0..m : i \in S
  BY <1>2, <1>4, <1>5, RP!InductUpTo
<1> QED BY <1>1, <1>6 DEF S

LEMMA BlocksWellFormed ==
    ASSUME IInv
    PROVE  RP!WellFormed(blocks) /\ RP!Readable(blocks)
<1>1. /\ blocks \in Seq(RP!Blocks) /\ DOMAIN blocks = 1..Len(blocks)
      /\ \A i \in 1..Len(blocks) : blocks[i].kind = "stored" /\ (blocks[i].final => i = Len(blocks))
  BY BlocksAre
<1>2. RP!WellFormed(blocks)
  BY <1>1 DEF RP!WellFormed
<1>3. \A i \in 1..Len(blocks) : i # 1 => i - 1 \in 1..Len(blocks)
  <2>1. PICK m \in Nat : m = Len(blocks)
    BY BlocksAre
  <2>2. \A i \in 1..m : i # 1 => i - 1 \in 1..m
    OBVIOUS
  <2> QED BY <2>1, <2>2
<1>4. RP!Readable(blocks)
  BY <1>1, <1>3 DEF RP!Readable
<1> QED BY <1>2, <1>4

\* At the end of the writer the trailer is where it has put it and the blocks are the source.
LEMMA BlocksAtEnd ==
    ASSUME IInv, pc = "done"
    PROVE  /\ RP!Expansion(blocks) = [i \in 1..n |-> i - 1]
           /\ RP!Trailer(blocks) = wrote - 4
           /\ n % BLOCK_MAX # 0 => RP!Complete(blocks)
<1>1. Len(blocks) \in Nat /\ Len(blocks) \in 0..Len(blocks) /\ n \in Nat
  <2>1. PICK m \in Nat : m = Len(blocks)
    BY BlocksAre
  <2>2. m \in 0..m
    OBVIOUS
  <2>3. n \in Nat
    BY BlockAssumption DEF IInv, TypeOK
  <2> QED BY <2>1, <2>2, <2>3
<1>2. EndAt(Len(blocks)) = n /\ End = n
  <2>1. End = n
    BY DEF IInv, Started
  <2> QED BY <2>1, BlocksAre
<1>3. RP!Expansion(blocks) = [i \in 1..n |-> i - 1]
  BY <1>1, <1>2, BlocksStandFor DEF RP!Expansion
<1>4. RP!Trailer(blocks) = wrote - 4
  <2>1. PICK m \in Nat : m = 2 + 5 * Len(blocks) + n
    BY <1>1
  <2>2. RP!EndOf(blocks, Len(blocks)) = 8 * m
    BY <1>1, <1>2, <2>1, BlocksLie
  <2>3. RP!Ceil8(8 * m) = m
    BY DEF RP!Ceil8
  <2>4. wrote = 6 + n + 5 * Len(blocks)
    BY <1>2 DEF IInv, Counted
  <2> QED BY <1>1, <2>1, <2>2, <2>3, <2>4 DEF RP!Trailer
<1>5. n % BLOCK_MAX # 0 => RP!Complete(blocks)
  BY IInvFinalIsLast DEF FinalIsLast, RP!Complete
<1> QED BY <1>3, <1>4, <1>5

-----------------------------------------------------------------------------
(* The writer and the reader *)

\* The reader waits for the writer and then reads the blocks, which stay as they are.
Waits == /\ cut = 0 /\ xnfo \in BOOLEAN
         /\ at = 0 /\ has = 0 /\ cur = 0 /\ sym = 0 /\ r = << >> /\ last_at = 0
Reads == pc = "done" /\ stream = blocks /\ cut = 0 /\ RP!IInv
ZInv == IInv /\ ~RP!Refused /\ (rpc = "none" => Waits) /\ (rpc # "none" => Reads)

LEMMA InitZInv == ZlibInit => ZInv
BY InitIInv DEF ZlibInit, ZInv, Waits, Written, RP!Refused

LEMMA WriteZInv == ZInv /\ Write => ZInv'
<1> SUFFICES ASSUME ZInv, Write PROVE ZInv'
  OBVIOUS
<1>1. IInv'
  BY NextIInv DEF ZInv, Write
<1>2. pc # "done"
  BY DEF Write, Next, Alloc, Block, Finish
<1>3. rpc = "none" /\ Waits
  BY <1>2 DEF ZInv, Reads
<1> QED BY <1>1, <1>3 DEF ZInv, Waits, Write, reader, RP!Refused

LEMMA PassOnZInv == ZInv /\ PassOn => ZInv'
<1> SUFFICES ASSUME ZInv, PassOn PROVE ZInv'
  OBVIOUS
<1>1. IInv'
  BY NextIInv DEF ZInv, PassOn
<1>2. pc' = "done" /\ blocks' = blocks /\ stream' = blocks /\ rpc' = "header" /\ cut' = 0
  BY DEF ZInv, PassOn, vars, Waits
<1>3. RP!Starts'
  <2>1. RP!WellFormed(blocks) /\ RP!Whole(blocks) \in Nat
    <3>1. RP!WellFormed(blocks) /\ blocks \in Seq(RP!Blocks)
      BY BlocksAre, BlocksWellFormed DEF ZInv
    <3>2. RP!Trailer(blocks) \in Nat /\ RP!Whole(blocks) = RP!Trailer(blocks) + 4
      BY <3>1, RP!WholeIs
    <3> QED BY <3>1, <3>2
  <2>2. /\ xnfo' \in BOOLEAN /\ cut' = 0 /\ at' = 0 /\ has' = 0 /\ cur' = 0 /\ sym' = 0
        /\ r' = << >> /\ last_at' = 0
    BY DEF ZInv, PassOn, Waits
  <2>3. 0 \in 0..RP!Whole(blocks)
    BY <2>1
  <2> QED BY <1>2, <2>1, <2>2, <2>3 DEF RP!Starts, RP!Given
<1>4. RP!IInv'
  BY <1>3, RP!StartsNext
<1>5. ~RP!Refused'
  BY DEF ZInv, PassOn, RP!Refused
<1> QED BY <1>1, <1>2, <1>4, <1>5 DEF ZInv, Reads

LEMMA ReadZInv == ZInv /\ Read => ZInv'
<1> SUFFICES ASSUME ZInv, Read PROVE ZInv'
  OBVIOUS
<1>1. IInv'
  BY NextIInv DEF ZInv, Read
<1>2. Reads /\ UNCHANGED <<stream, cut, xnfo, header>>
  BY SameSource DEF ZInv, Read
<1>3. RP!IInv'
  <2>1. RP!Next
    BY SameSteps DEF Read
  <2> QED BY <1>2, <2>1, RP!NextIInv DEF Reads
<1>4. rpc' # "none"
  BY <1>3 DEF RP!IInv, RP!TypeOK
<1>5. pc' = pc /\ blocks' = blocks
  BY DEF Read, vars
<1>6. ~RP!Refused'
  BY <1>2 DEF ZInv, RP!Refused
<1> QED BY <1>1, <1>2, <1>3, <1>4, <1>5, <1>6 DEF ZInv, Reads

LEMMA StutterZInv == ZInv /\ UNCHANGED <<vars, reader>> => ZInv'
<1> SUFFICES ASSUME ZInv, UNCHANGED <<vars, reader>> PROVE ZInv'
  OBVIOUS
<1>1. IInv'
  BY NextIInv DEF ZInv
<1>2. UNCHANGED RP!vars
  BY DEF reader, RP!vars, RP!source
<1>3. RP!IInv => RP!IInv'
  BY <1>2, RP!NextIInv
<1>4. ~RP!Refused'
  BY DEF ZInv, reader, RP!Refused
<1> QED BY <1>1, <1>3, <1>4 DEF ZInv, Waits, Reads, reader, vars

LEMMA ZInvRoundTrip == ZInv => RoundTrip
<1> SUFFICES ASSUME ZInv PROVE RoundTrip
  OBVIOUS
<1>1. ASSUME rpc = "done"
      PROVE  r = [i \in 1..n |-> i - 1] /\ (xnfo => last_at = wrote - 4)
  <2>1. IInv /\ Reads
    BY <1>1 DEF ZInv
  <2>2. r = RP!Expansion(blocks)
    BY <1>1, <2>1 DEF Reads, RP!IInv, RP!DecodesExactly
  <2>3. blocks[Len(blocks)].kind = "stored"
    <3>1. Len(blocks) \in Nat /\ cur \in 0..Len(blocks) /\ cur # 0
      BY <1>1, <2>1, BlocksAre DEF Reads, RP!IInv, RP!TypeOK, RP!Placed
    <3>2. Len(blocks) \in 1..Len(blocks)
      BY <3>1
    <3> QED BY <2>1, <3>2, BlocksAre
  <2>4. xnfo => last_at = RP!Trailer(blocks)
    BY <1>1, <2>1, <2>3 DEF Reads, RP!IInv, RP!TrailerFound
  <2> QED BY <2>1, <2>2, <2>4, BlocksAtEnd DEF Reads
<1>2. ASSUME n % BLOCK_MAX # 0, rpc # "none"
      PROVE  rpc \notin {"exitf", "lost"}
  <2>1. IInv /\ Reads
    BY <1>2 DEF ZInv
  <2>2. RP!Complete(stream) /\ RP!Readable(stream) /\ cut = 0 /\ ~RP!Refused
    BY <1>2, <2>1, BlocksAtEnd, BlocksWellFormed DEF Reads, ZInv
  <2> QED BY <2>1, <2>2 DEF Reads, RP!IInv, RP!Followed, RP!ReadableIsRead
<1> QED BY <1>1, <1>2 DEF RoundTrip

\* inflate of what deflate_dumb makes of a source is that source, whatever its size and that of a
\* block; the trailer is read where it was written, and nothing but a lack of memory stops the
\* reader unless the source is a number of full blocks.
THEOREM RoundTripKept == ZlibSpec => []RoundTrip
<1>1. ZInv /\ [ZlibNext]_<<vars, reader>> => ZInv'
  BY WriteZInv, PassOnZInv, ReadZInv, StutterZInv DEF ZlibNext
<1> QED BY InitZInv, <1>1, ZInvRoundTrip, PTL DEF ZlibSpec
=============================================================================
