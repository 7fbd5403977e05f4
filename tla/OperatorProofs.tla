--------------------------- MODULE OperatorProofs ---------------------------
(***************************************************************************)
(* Facts about operators, for the proofs of the modules that use them:     *)
(* induction over the naturals and functions defined by recursion,         *)
(* remainders, growable arrays, sequences one after the other, and sums.   *)
(***************************************************************************)
EXTENDS Growth, Totals, SequencesExt, WellFoundedInduction, FiniteSetTheorems, TLAPS

-----------------------------------------------------------------------------
(* Induction, and functions defined by recursion on 0..n *)

\* Every non-empty set of naturals has a least element.
LEMMA Least ==
    ASSUME NEW T \in SUBSET Nat, T # {}
    PROVE  \E x \in T : \A y \in T : x <= y
<1> DEFINE R == OpToRel(<, Nat)
<1>1. IsWellFoundedOn(R, Nat)
  BY NatLessThanWellFounded
<1>2. R = {ss \in Nat \X Nat : ss[1] < ss[2]}
  BY DEF OpToRel
<1> HIDE DEF R
<1>3. \E x \in T : \A y \in T : ~(<<y, x>> \in R)
  BY <1>1, WFMin
<1>4. PICK x \in T : \A y \in T : ~(<<y, x>> \in R)
  BY <1>3
<1>5. ASSUME NEW y \in T
      PROVE  x <= y
  <2>1. x \in Nat /\ y \in Nat
    OBVIOUS
  <2>2. <<y, x>> \notin {ss \in Nat \X Nat : ss[1] < ss[2]}
    BY <1>2, <1>4
  <2>3. QED
    BY <2>1, <2>2
<1>6. QED
  BY <1>5

\* A set with 0 and with the successor of each of its naturals has all naturals.
LEMMA Induct ==
    ASSUME NEW S, 0 \in S, \A n \in Nat : n \in S => n + 1 \in S
    PROVE  Nat \subseteq S
<1> DEFINE T == {n \in Nat : n \notin S}
<1>1. SUFFICES ASSUME T # {} PROVE FALSE
  OBVIOUS
<1>2. PICK x \in T : \A y \in T : x <= y
  BY <1>1, Least
<1>3. x # 0 /\ x \in Nat
  OBVIOUS
<1>4. x - 1 \in Nat /\ x - 1 \notin T
  BY <1>2, <1>3
<1>5. QED
  BY <1>4

\* The same between 0 and n.
LEMMA InductUpTo ==
    ASSUME NEW n \in Nat, NEW S, 0 \in S, \A j \in 1..n : j - 1 \in S => j \in S
    PROVE  \A j \in 0..n : j \in S
<1> DEFINE T == {j \in Nat : j \in 0..n => j \in S}
<1>1. 0 \in T
  OBVIOUS
<1>2. ASSUME NEW j \in Nat, j \in T
      PROVE  j + 1 \in T
  <2>1. j + 1 \in 1..n => j \in S
    BY <1>2
  <2>2. j + 1 \in 1..n => j + 1 \in S
    <3>1. ASSUME j + 1 \in 1..n PROVE (j + 1) - 1 \in S
      BY <2>1, <3>1
    <3>2. QED
      BY <3>1
  <2>3. QED
    BY <2>2
<1> HIDE DEF T
<1>3. Nat \subseteq T
  BY <1>1, <1>2, Induct
<1>4. QED
  BY <1>3 DEF T

\* The function f starts with v and goes on by step.
Follows(f, n, v, step) == f[0] = v /\ \A j \in 1..n : f[j] = step[<<j, f[j - 1]>>]

\* A recursion on 0..n with values in V defines a function.
LEMMA Recursion ==
    ASSUME NEW V, NEW v \in V, NEW n \in Nat, NEW step \in [(1..n) \X V -> V]
    PROVE  \E f \in [0..n -> V] : Follows(f, n, v, step)
<1> DEFINE Upto(m) == \E f \in [0..m -> V] : /\ f[0] = v
                                             /\ \A j \in 1..m : f[j] = step[<<j, f[j - 1]>>]
           S == {m \in 0..n : Upto(m)}
<1>1. 0 \in S
  <2>1. [j \in 0..0 |-> v] \in [0..0 -> V] /\ [j \in 0..0 |-> v][0] = v
    OBVIOUS
  <2>2. Upto(0)
    <3> DEFINE f == [j \in 0..0 |-> v]
    <3>1. f \in [0..0 -> V] /\ f[0] = v /\ \A j \in 1..0 : f[j] = step[<<j, f[j - 1]>>]
      BY <2>1
    <3> HIDE DEF f
    <3>2. QED
      BY <3>1
  <2>3. QED
    BY <2>2
<1>2. ASSUME NEW m \in 1..n, m - 1 \in S
      PROVE  m \in S
  <2>1. PICK f \in [0..(m - 1) -> V] : /\ f[0] = v
                                       /\ \A j \in 1..(m - 1) : f[j] = step[<<j, f[j - 1]>>]
    BY <1>2
  <2> DEFINE g == [j \in 0..m |-> IF j = m THEN step[<<m, f[m - 1]>>] ELSE f[j]]
  <2>2. g \in [0..m -> V]
    <3>1. step[<<m, f[m - 1]>>] \in V
      BY <2>1
    <3>2. \A j \in 0..m : j # m => j \in 0..(m - 1)
      OBVIOUS
    <3>3. QED
      BY <3>1, <3>2
  <2>3. g[0] = v
    BY <2>1
  <2>4. ASSUME NEW j \in 1..m
        PROVE  g[j] = step[<<j, g[j - 1]>>]
    <3>1. g[j - 1] = f[j - 1]
      OBVIOUS
    <3>2. CASE j = m
      <4>1. g[m] = step[<<m, f[m - 1]>>]
        OBVIOUS
      <4> HIDE DEF g
      <4>2. QED
        BY <3>1, <3>2, <4>1
    <3>3. CASE j # m
      BY <2>1, <3>1, <3>3
    <3>4. QED
      BY <3>2, <3>3
  <2> HIDE DEF g
  <2>5. Upto(m)
    BY <2>2, <2>3, <2>4
  <2>6. QED
    BY <2>5
<1> HIDE DEF S
<1>3. \A m \in 0..n : m \in S
  BY <1>1, <1>2, InductUpTo
<1>4. n \in S
  BY <1>3
<1>5. Upto(n)
  BY <1>4 DEF S
<1>6. QED
  BY <1>5 DEF Follows

\* The function g of 0..n starts with v and goes on by step as long as its values are in V.
Recurs(g, n, v, step, V) ==
    /\ g = [j \in 0..n |-> g[j]] /\ g[0] = v
    /\ \A j \in 1..n : g[j - 1] \in V => g[j] = step[<<j, g[j - 1]>>]

\* Then they all are.
LEMMA RecursIs ==
    ASSUME NEW V, NEW v \in V, NEW n \in Nat, NEW step \in [(1..n) \X V -> V],
           NEW g, Recurs(g, n, v, step, V)
    PROVE  g \in [0..n -> V] /\ Follows(g, n, v, step)
<1> DEFINE S == {j \in 0..n : g[j] \in V}
<1>1. /\ g = [j \in 0..n |-> g[j]] /\ g[0] = v
      /\ \A j \in 1..n : g[j - 1] \in V => g[j] = step[<<j, g[j - 1]>>]
  BY DEF Recurs
<1>2. 0 \in S
  BY <1>1
<1>3. ASSUME NEW j \in 1..n, j - 1 \in S
      PROVE  j \in S
  <2>1. g[j - 1] \in V
    BY <1>3
  <2>2. g[j] = step[<<j, g[j - 1]>>]
    BY <1>1, <2>1
  <2>3. step[<<j, g[j - 1]>>] \in V
    BY <2>1
  <2>4. j \in 0..n
    OBVIOUS
  <2>5. QED
    BY <2>2, <2>3, <2>4
<1> HIDE DEF S
<1>4. \A j \in 0..n : j \in S
  BY <1>2, <1>3, InductUpTo
<1>5. \A j \in 0..n : g[j] \in V
  BY <1>4 DEF S
<1>6. g \in [0..n -> V]
  BY <1>1, <1>5
<1>7. \A j \in 1..n : j - 1 \in 0..n
  OBVIOUS
<1>8. QED
  BY <1>1, <1>5, <1>6, <1>7 DEF Follows

\* Step k goes from a value in V[k - 1] to one in V[k].
Carry(step, n, V) == \A k \in 1..n : \A x \in V[k - 1] : step[<<k, x>>] \in V[k]
\* g starts with v and goes on by step, where it is in V
RecursIn(g, n, v, step, V) ==
    g[0] = v /\ \A k \in 1..n : g[k - 1] \in V[k - 1] => g[k] = step[<<k, g[k - 1]>>]

\* Then it always is.
LEMMA RecursInIs ==
    ASSUME NEW n \in Nat, NEW V, NEW v \in V[0], NEW step, Carry(step, n, V),
           NEW g, RecursIn(g, n, v, step, V)
    PROVE  \A k \in 0..n : g[k] \in V[k]
<1> DEFINE R == {k \in 0..n : g[k] \in V[k]}
<1>1. 0 \in R
  BY DEF RecursIn
<1>2. ASSUME NEW k \in 1..n, k - 1 \in R
      PROVE  k \in R
  <2>1. k \in 0..n /\ g[k - 1] \in V[k - 1]
    BY <1>2
  <2>2. g[k] = step[<<k, g[k - 1]>>]
    BY <2>1 DEF RecursIn
  <2>3. g[k] \in V[k]
    BY <2>1, <2>2 DEF Carry
  <2>4. QED
    BY <2>1, <2>3
<1> HIDE DEF R
<1>3. \A k \in 0..n : k \in R
  BY <1>1, <1>2, InductUpTo
<1>4. QED
  BY <1>3 DEF R

\* And there is such a function.
LEMMA RecursionIn ==
    ASSUME NEW n \in Nat, NEW V, NEW v \in V[0], NEW step, Carry(step, n, V)
    PROVE  \E f : f = [k \in 0..n |-> f[k]] /\ RecursIn(f, n, v, step, V)
<1> DEFINE U == UNION {V[k] : k \in 0..n}
           to == [p \in (1..n) \X U |-> IF p[2] \in V[p[1] - 1] THEN step[p] ELSE v]
<1>1. 0 \in 0..n /\ \A k \in 1..n : k \in 0..n /\ k - 1 \in 0..n
  OBVIOUS
<1>2. v \in U
  BY <1>1
<1>3. \A k \in 1..n : \A x \in U : to[<<k, x>>] = IF x \in V[k - 1] THEN step[<<k, x>>] ELSE v
  OBVIOUS
<1>4. \A k \in 1..n : \A x \in U : to[<<k, x>>] \in U
  <2> TAKE k \in 1..n
  <2> TAKE x \in U
  <2> HIDE DEF to
  <2>1. CASE x \in V[k - 1]
    <3>1. step[<<k, x>>] \in V[k]
      BY <2>1 DEF Carry
    <3>2. QED
      BY <1>1, <1>3, <2>1, <3>1
  <2>2. CASE x \notin V[k - 1]
    BY <1>2, <1>3, <2>2
  <2>3. QED
    BY <2>1, <2>2
<1>5. to \in [(1..n) \X U -> U]
  <2> HIDE DEF U
  <2>1. to = [p \in (1..n) \X U |-> to[p]]
    OBVIOUS
  <2>2. \A p \in (1..n) \X U : to[p] \in U
    <3> TAKE p \in (1..n) \X U
    <3>1. PICK k \in 1..n, x \in U : p = <<k, x>>
      OBVIOUS
    <3> HIDE DEF to
    <3>2. QED
      BY <1>4, <3>1
  <2> HIDE DEF to
  <2>3. QED
    BY <2>1, <2>2
<1> HIDE DEF U, to
<1>6. PICK f \in [0..n -> U] : Follows(f, n, v, to)
  BY <1>2, <1>5, Recursion
<1>7. ASSUME NEW k \in 1..n, f[k - 1] \in V[k - 1]
      PROVE  f[k] = step[<<k, f[k - 1]>>]
  <2>1. f[k - 1] \in U
    BY <1>1
  <2>2. f[k] = to[<<k, f[k - 1]>>]
    BY <1>6 DEF Follows
  <2>3. QED
    BY <1>3, <1>7, <2>1, <2>2
<1>8. RecursIn(f, n, v, step, V)
  BY <1>6, <1>7 DEF RecursIn, Follows
<1>9. f = [k \in 0..n |-> f[k]]
  OBVIOUS
<1>10. QED
  BY <1>8, <1>9

\* A function that no step decreases is monotone.
LEMMA Monotone ==
    ASSUME NEW n \in Nat, NEW f \in [0..n -> Nat], \A j \in 1..n : f[j - 1] <= f[j]
    PROVE  \A i, j \in 0..n : i <= j => f[i] <= f[j]
<1> SUFFICES ASSUME NEW i \in 0..n
             PROVE  \A j \in 0..n : i <= j => f[i] <= f[j]
  OBVIOUS
<1> DEFINE S == {j \in 0..n : i <= j => f[i] <= f[j]}
<1>1. 0 \in S
  OBVIOUS
<1>2. ASSUME NEW j \in 1..n, j - 1 \in S
      PROVE  j \in S
  <2>1. f[j - 1] <= f[j] /\ f[j - 1] \in Nat /\ f[j] \in Nat /\ f[i] \in Nat
    OBVIOUS
  <2>2. CASE i <= j - 1
    BY <1>2, <2>1, <2>2
  <2>3. CASE i = j
    BY <2>1, <2>3
  <2>4. CASE i > j
    BY <2>4
  <2>5. QED
    BY <2>2, <2>3, <2>4
<1> HIDE DEF S
<1>3. \A j \in 0..n : j \in S
  BY <1>1, <1>2, InductUpTo
<1>4. QED
  BY <1>3 DEF S

-----------------------------------------------------------------------------
(* Remainders *)

\* A remainder is unique.
LEMMA ModUnique ==
    ASSUME NEW d \in Nat \ {0}, NEW p \in Int, NEW q \in Int, NEW x \in 0..(d - 1),
           NEW y \in 0..(d - 1), p * d + x = q * d + y
    PROVE  x = y
<1>1. ASSUME NEW k \in Int, k >= 1
      PROVE  k * d >= d
  <2>1. (k - 1) * d >= 0
    <3>1. k - 1 \in Nat
      BY <1>1
    <3>2. \A u \in Nat : u * d >= 0
      OBVIOUS
    <3>3. QED
      BY <3>1, <3>2
  <2>2. k * d = (k - 1) * d + d
    OBVIOUS
  <2>3. k * d \in Int /\ (k - 1) * d \in Int
    OBVIOUS
  <2>4. QED
    BY <2>1, <2>2, <2>3
<1>2. (p - q) * d = y - x /\ (q - p) * d = x - y
  OBVIOUS
<1>3. ~(p - q >= 1)
  BY <1>1, <1>2
<1>4. ~(q - p >= 1)
  BY <1>1, <1>2
<1>5. p = q
  BY <1>3, <1>4
<1>6. QED
  BY <1>5

LEMMA ModDown ==
    ASSUME NEW a \in Nat, NEW d \in Nat \ {0}, a >= d
    PROVE  (a - d) % d = a % d
<1>1. a = (a \div d) * d + (a % d) /\ a \div d \in Int /\ a % d \in 0..(d - 1)
  OBVIOUS
<1>2. a - d \in Nat
  OBVIOUS
<1>3. /\ a - d = ((a - d) \div d) * d + ((a - d) % d)
      /\ (a - d) \div d \in Int /\ (a - d) % d \in 0..(d - 1)
  BY <1>2
<1>4. PICK p, q \in Int, x, y \in 0..(d - 1) :
        p = a \div d /\ q = (a - d) \div d /\ x = a % d /\ y = (a - d) % d
  BY <1>1, <1>3
<1>5. a = p * d + x /\ a - d = q * d + y
  BY <1>1, <1>3, <1>4
<1>6. p * d + x = (q + 1) * d + y
  BY <1>5
<1>7. x = y
  BY <1>6, ModUnique
<1>8. QED
  BY <1>4, <1>7
LEMMA ModIs ==
    ASSUME NEW a \in Nat, NEW d \in Nat \ {0}
    PROVE  a % d \in 0..(d - 1) /\ (a < d => a % d = a)
OBVIOUS

-----------------------------------------------------------------------------
(* Growable arrays.  Nothing is asked of the items: a sequence is one of whatever it has. *)

IsSeq(s) == s \in Seq({s[k] : k \in DOMAIN s})
IsArray(a) == a = [items |-> a.items, cap |-> a.cap] /\ IsSeq(a.items) /\ a.cap \in Nat

LEMMA SeqIsOf == ASSUME NEW S, NEW s \in Seq(S) PROVE IsSeq(s)
<1>1. s \in [1..Len(s) -> S] /\ Len(s) \in Nat
  OBVIOUS
<1>2. DOMAIN s = 1..Len(s)
  OBVIOUS
<1>3. s \in [1..Len(s) -> {s[k] : k \in DOMAIN s}]
  BY <1>1, <1>2
<1>4. QED
  BY <1>1, <1>3 DEF IsSeq

LEMMA SeqIs == ASSUME NEW s, IsSeq(s) PROVE Len(s) \in Nat /\ DOMAIN s = 1..Len(s)
BY DEF IsSeq

LEMMA Appended ==
    ASSUME NEW s, IsSeq(s), NEW e
    PROVE  /\ IsSeq(Append(s, e)) /\ Len(Append(s, e)) = Len(s) + 1
           /\ \A k \in 1..Len(s) : Append(s, e)[k] = s[k]
           /\ Append(s, e)[Len(s) + 1] = e
<1> DEFINE S == {s[k] : k \in DOMAIN s} \cup {e}
<1>1. s \in Seq(S)
  BY DEF IsSeq
<1>2. e \in S
  OBVIOUS
<1> HIDE DEF S
<1>3. Append(s, e) \in Seq(S)
  BY <1>1, <1>2
<1>4. IsSeq(Append(s, e))
  BY <1>3, SeqIsOf
<1>5. QED
  BY <1>1, <1>2, <1>4

LEMMA Replaced ==
    ASSUME NEW s, IsSeq(s), NEW k \in 1..Len(s), NEW e
    PROVE  /\ IsSeq([s EXCEPT ![k] = e]) /\ Len([s EXCEPT ![k] = e]) = Len(s)
           /\ \A i \in 1..Len(s) : [s EXCEPT ![k] = e][i] = IF i = k THEN e ELSE s[i]
<1> DEFINE S == {s[i] : i \in DOMAIN s} \cup {e}
           t == [s EXCEPT ![k] = e]
<1>1. s \in Seq(S)
  BY DEF IsSeq
<1>2. e \in S
  OBVIOUS
<1>3. DOMAIN s = 1..Len(s) /\ Len(s) \in Nat
  BY SeqIs
<1> HIDE DEF S
<1>4. t \in Seq(S) /\ Len(t) = Len(s)
  BY <1>1, <1>2, <1>3
<1>5. IsSeq(t)
  BY <1>4, SeqIsOf
<1>6. QED
  BY <1>3, <1>4, <1>5

LEMMA PushedArray ==
    ASSUME NEW a, IsArray(a), NEW e, NEW b \in Pushes(a, e)
    PROVE  /\ IsArray(b) /\ b.items = Append(a.items, e)
           /\ a.cap <= b.cap
           /\ Len(a.items) < a.cap => b.cap = a.cap
<1>1. /\ a.cap \in Nat /\ IsSeq(a.items) /\ Len(a.items) \in Nat
      /\ IsSeq(Append(a.items, e))
  BY Appended, SeqIs DEF IsArray
<1>2. EmptyResize \in Nat
  BY SizesAssumption
<1>3. b.items = Append(a.items, e) /\ b = [items |-> b.items, cap |-> b.cap]
  BY DEF Pushes
<1>4. b.cap \in Nat /\ a.cap <= b.cap /\ (Len(a.items) < a.cap => b.cap = a.cap)
  BY <1>1, <1>2 DEF Pushes
<1>5. QED
  BY <1>1, <1>3, <1>4 DEF IsArray

LEMMA ReservedArray ==
    ASSUME NEW a, IsArray(a), NEW count \in Nat, NEW b \in Reserves(a, count)
    PROVE  IsArray(b) /\ b.items = a.items /\ a.cap <= b.cap /\ count <= b.cap
<1>1. a = [items |-> a.items, cap |-> a.cap] /\ a.cap \in Nat
  BY DEF IsArray
<1>2. CASE count <= a.cap
  BY <1>1, <1>2 DEF Reserves
<1>3. CASE ~(count <= a.cap)
  <2>1. b = [a EXCEPT !.cap = count]
    BY <1>3 DEF Reserves
  <2>2. b = [items |-> a.items, cap |-> count]
    BY <2>1, <1>1
  <2>3. QED
    BY <2>2, <1>1, <1>3 DEF IsArray
<1>4. QED
  BY <1>2, <1>3

\* b is array a with e as its item k
Altered(a, k, e, b) ==
    /\ IsArray(b) /\ b.cap = a.cap /\ Len(b.items) = Len(a.items)
    /\ \A i \in 1..Len(a.items) : b.items[i] = IF i = k THEN e ELSE a.items[i]

LEMMA ChangedArray ==
    ASSUME NEW a, IsArray(a), NEW k \in 1..Len(a.items), NEW e,
           NEW b, b = [a EXCEPT !.items[k] = e]
    PROVE  Altered(a, k, e, b)
<1>1. a = [items |-> a.items, cap |-> a.cap] /\ a.cap \in Nat /\ IsSeq(a.items)
  BY DEF IsArray
<1>2. b = [items |-> [a.items EXCEPT ![k] = e], cap |-> a.cap]
  BY <1>1
<1>3. b.items = [a.items EXCEPT ![k] = e] /\ b.cap = a.cap
  BY <1>2
<1>4. IsSeq(b.items) /\ Len(b.items) = Len(a.items)
      /\ \A i \in 1..Len(a.items) : b.items[i] = IF i = k THEN e ELSE a.items[i]
  <2>1. PICK s : s = a.items /\ IsSeq(s)
    BY <1>1
  <2>2. PICK t : t = [s EXCEPT ![k] = e]
    OBVIOUS
  <2>3. IsSeq(t) /\ Len(t) = Len(s) /\ \A i \in 1..Len(s) : t[i] = IF i = k THEN e ELSE s[i]
    BY <2>1, <2>2, Replaced
  <2>4. b.items = t
    BY <1>3, <2>1, <2>2
  <2>5. QED
    BY <2>1, <2>3, <2>4
<1>5. b = [items |-> b.items, cap |-> b.cap]
  BY <1>2, <1>3
<1>6. IsArray(b)
  BY <1>1, <1>3, <1>4, <1>5 DEF IsArray
<1>7. QED
  BY <1>3, <1>4, <1>6 DEF Altered

\* Arrays with items in S.
LEMMA OfType ==
    ASSUME NEW S, NEW a \in ArraysOf(S)
    PROVE  /\ IsArray(a) /\ a.cap \in 0..MaxCap /\ Len(a.items) \in Nat
           /\ \A i \in 1..Len(a.items) : a.items[i] \in S
<1>1. a = [items |-> a.items, cap |-> a.cap] /\ a.items \in Seq(S) /\ a.cap \in 0..MaxCap
  BY DEF ArraysOf
<1>2. Len(a.items) \in Nat /\ \A i \in 1..Len(a.items) : a.items[i] \in S
  BY <1>1
<1>3. IsSeq(a.items) /\ a.cap \in Nat
  BY <1>1, SeqIsOf
<1>4. QED
  BY <1>1, <1>2, <1>3 DEF IsArray

LEMMA HasType ==
    ASSUME NEW S, NEW a, IsArray(a), a.cap <= MaxCap,
           \A i \in 1..Len(a.items) : a.items[i] \in S
    PROVE  a \in ArraysOf(S)
<1>1. a = [items |-> a.items, cap |-> a.cap] /\ IsSeq(a.items) /\ a.cap \in Nat
  BY DEF IsArray
<1>2. PICK s, T : s = a.items /\ s \in Seq(T)
  BY <1>1 DEF IsSeq
<1>3. s = [i \in 1..Len(s) |-> s[i]] /\ Len(s) \in Nat
  BY <1>2
<1>4. [i \in 1..Len(s) |-> s[i]] \in Seq(S)
  BY <1>2, <1>3
<1>5. a.cap \in 0..MaxCap
  BY <1>1, SizesAssumption
<1>6. QED
  BY <1>1, <1>2, <1>3, <1>4, <1>5 DEF ArraysOf

LEMMA GrownWithin ==
    ASSUME NEW a, IsArray(a), a.cap \in 0..MaxCap
    PROVE  /\ \A e : \A b \in Pushes(a, e) : b.cap <= MaxCap
           /\ \A count \in Nat : \A b \in Reserves(a, count) : b.cap <= MaxCap
<1>1. ASSUME NEW e, NEW b \in Pushes(a, e) PROVE b.cap <= MaxCap
  BY SizesAssumption DEF Pushes
<1>2. ASSUME NEW count \in Nat, NEW b \in Reserves(a, count) PROVE b.cap <= MaxCap
  <2>1. CASE count <= a.cap
    BY <2>1, SizesAssumption DEF Reserves
  <2>2. CASE ~(count <= a.cap)
    <3>1. count <= MaxCap /\ b = [a EXCEPT !.cap = count]
      BY <2>2 DEF Reserves
    <3>2. QED
      BY <3>1, SizesAssumption
  <2>3. QED
    BY <2>1, <2>2
<1>3. QED
  BY <1>1, <1>2

LEMMA EmptyArray == IsArray(NoItems) /\ Len(NoItems.items) = 0 /\ NoItems.cap = 0
<1>1. << >> \in Seq({}) /\ Len(<< >>) = 0
  OBVIOUS
<1>2. IsSeq(<< >>)
  BY <1>1, SeqIsOf
<1>3. QED
  BY <1>1, <1>2 DEF IsArray, NoItems

-----------------------------------------------------------------------------
(* Sequences *)

\* a sequence that all its items were appended to
LEMMA InitialPart ==
    ASSUME NEW S, NEW s \in Seq(S), NEW i \in 1..Len(s)
    PROVE  Append([j \in 1..(i - 1) |-> s[j]], s[i]) = [j \in 1..i |-> s[j]]
<1> DEFINE t == [j \in 1..(i - 1) |-> s[j]]
<1>1. i \in Nat /\ i - 1 \in Nat /\ \A j \in 1..i : s[j] \in S
  OBVIOUS
<1>2. t \in Seq(S) /\ Len(t) = i - 1
  BY <1>1
<1>3. /\ DOMAIN Append(t, s[i]) = 1..i
      /\ \A j \in 1..i : Append(t, s[i])[j] = IF j = i THEN s[i] ELSE t[j]
  BY <1>1, <1>2
<1>4. \A j \in 1..i : j # i => t[j] = s[j]
  BY <1>1
<1> HIDE DEF t
<1>5. Append(t, s[i]) = [j \in 1..i |-> Append(t, s[i])[j]]
  BY <1>1, <1>2, <1>3
<1>6. \A j \in 1..i : Append(t, s[i])[j] = s[j]
  BY <1>3, <1>4
<1>7. Append(t, s[i]) = [j \in 1..i |-> s[j]]
  BY <1>5, <1>6
<1>8. QED
  BY <1>7 DEF t

\* the items at k and behind it are those of bytes
At(source, k, bytes) ==
    /\ k + Len(bytes) - 1 <= Len(source)
    /\ \A j \in 1..Len(bytes) : source[k + j - 1] = bytes[j]

\* b goes on where a ends
Begins(a, b) == Len(a) <= Len(b) /\ \A p \in 1..Len(a) : b[p] = a[p]

-----------------------------------------------------------------------------
(* Sequences one after the other *)

\* flat[k] has the first k of the m sequences, one after the other
Flat(flat, seqs, m, S) ==
    /\ flat \in [0..m -> Seq(S)] /\ \A k \in 1..m : seqs[k] \in Seq(S)
    /\ flat[0] = << >>
    /\ \A k \in 1..m : flat[k] = flat[k - 1] \o seqs[k]

LEMMA Flattened ==
    ASSUME NEW S, NEW seqs \in Seq(Seq(S)), NEW m \in Nat, m = Len(seqs)
    PROVE  \E flat \in [0..m -> Seq(S)] : Flat(flat, seqs, m, S) /\ FlattenSeq(seqs) = flat[m]
<1> DEFINE T == Seq(S)
           step == [x \in (1..m) \X T |-> x[2] \o seqs[x[1]]]
           Is(h) == h = [i \in 1..m |-> IF i = 1 THEN seqs[1] ELSE h[i - 1] \o seqs[i]]
<1>1. \A k \in 1..m : seqs[k] \in T
  BY SMT
<1>2. \A t, u \in T : t \o u \in T
  OBVIOUS
<1>3. << >> \in T /\ \A t \in T : << >> \o t = t
  OBVIOUS
<1> HIDE DEF T
<1>4. step \in [(1..m) \X T -> T] /\ \A k \in 1..m, t \in T : step[<<k, t>>] = t \o seqs[k]
  BY <1>1, <1>2
<1> HIDE DEF step
<1>5. PICK e \in T : e = << >>
  BY <1>3
<1>6. PICK flat \in [0..m -> T] : Follows(flat, m, e, step)
  BY <1>4, Recursion
<1>7. flat[0] = << >>
  BY <1>5, <1>6 DEF Follows
<1>8. \A k \in 1..m : flat[k - 1] \in T /\ flat[k] = flat[k - 1] \o seqs[k]
  <2>1. ASSUME NEW k \in 1..m PROVE flat[k - 1] \in T /\ flat[k] = flat[k - 1] \o seqs[k]
    <3>1. flat[k - 1] \in T
      <4>1. k - 1 \in 0..m
        OBVIOUS
      <4>2. QED
        BY <4>1
    <3>2. flat[k] = step[<<k, flat[k - 1]>>]
      BY <1>6 DEF Follows
    <3>3. QED
      BY <1>4, <3>1, <3>2
  <2>2. QED
    BY <2>1
<1>9. FlattenSeq(seqs) = flat[m]
  <2>1. CASE m = 0
    <3>1. \A t \in Seq(T) : Len(t) = 0 => t = << >>
      OBVIOUS
    <3>2. seqs = << >>
      BY <2>1, <3>1 DEF T
    <3>3. QED
      BY <1>7, <2>1, <3>2 DEF FlattenSeq
  <2>2. CASE m # 0
    <3>1. FlattenSeq(seqs) = (CHOOSE h : Is(h))[m]
      BY <2>2 DEF FlattenSeq
    <3>2. \E h : Is(h)
      <4> DEFINE g == [i \in 1..m |-> flat[i]]
      <4>1. \A i \in 1..m : i # 1 => i - 1 \in 1..m
        OBVIOUS
      <4>2. m # 0 => flat[1] = seqs[1]
        <5>1. m # 0 => 1 \in 1..m /\ 1 - 1 = 0
          OBVIOUS
        <5>2. m # 0 => flat[1] = << >> \o seqs[1] /\ seqs[1] \in T
          BY <1>1, <1>7, <1>8, <5>1
        <5>3. QED
          BY <1>3, <5>2
      <4>3. \A i \in 1..m : g[i] = IF i = 1 THEN seqs[1] ELSE g[i - 1] \o seqs[i]
        BY <1>8, <2>2, <4>1, <4>2
      <4>4. g = [i \in 1..m |-> g[i]]
        OBVIOUS
      <4> HIDE DEF g
      <4>5. Is(g)
        BY <4>3, <4>4
      <4>6. QED
        BY <4>5
    <3>3. PICK h : h = (CHOOSE f : Is(f)) /\ Is(h)
      BY <3>2
    <3> DEFINE R == {j \in 0..m : j = 0 \/ h[j] = flat[j]}
    <3>4. 0 \in R
      OBVIOUS
    <3>5. ASSUME NEW j \in 1..m, j - 1 \in R
          PROVE  j \in R
      <4>1. h[j] = IF j = 1 THEN seqs[1] ELSE h[j - 1] \o seqs[j]
        BY <3>3
      <4>2. CASE j = 1
        <5>1. flat[1] = << >> \o seqs[1] /\ seqs[1] \in T
          <6>1. 1 \in 1..m /\ 1 - 1 = 0
            BY <4>2
          <6>2. QED
            BY <1>1, <1>7, <1>8, <6>1
        <5>2. flat[1] = seqs[1]
          BY <1>3, <5>1
        <5>3. QED
          BY <4>1, <4>2, <5>2
      <4>3. CASE j # 1
        <5>1. h[j - 1] = flat[j - 1]
          BY <3>5, <4>3
        <5>2. h[j] = flat[j]
          BY <1>8, <4>1, <4>3, <5>1
        <5>3. QED
          BY <5>2
      <4>4. QED
        BY <4>2, <4>3
    <3> HIDE DEF R
    <3>6. \A j \in 0..m : j \in R
      BY <3>4, <3>5, InductUpTo
    <3>7. m \in R
      BY <3>6
    <3>8. QED
      BY <2>2, <3>1, <3>3, <3>7 DEF R
  <2>3. QED
    BY <2>1, <2>2
<1>10. QED
  BY <1>1, <1>6, <1>7, <1>8, <1>9 DEF Flat, T

\* Sequence i is in the whole, where those before it end.
InFlat(flat, seqs, m, i) ==
    /\ At(flat[m], Len(flat[i - 1]) + 1, seqs[i])
    /\ Len(flat[i]) = Len(flat[i - 1]) + Len(seqs[i])
LEMMA FlatAt ==
    ASSUME NEW S, NEW m \in Nat, NEW seqs, NEW flat, Flat(flat, seqs, m, S)
    PROVE  \A i \in 1..m : InFlat(flat, seqs, m, i)
<1> SUFFICES ASSUME NEW i \in 1..m
             PROVE  InFlat(flat, seqs, m, i)
  OBVIOUS
<1> DEFINE R == {j \in 0..m : i <= j => Begins(flat[i], flat[j])}
<1>1. ASSUME NEW j \in 1..m
      PROVE  /\ flat[j - 1] \in Seq(S) /\ seqs[j] \in Seq(S) /\ flat[j] \in Seq(S)
             /\ flat[j] = flat[j - 1] \o seqs[j]
  <2>1. j - 1 \in 0..m /\ j \in 0..m
    OBVIOUS
  <2>2. QED
    BY <2>1 DEF Flat
<1>2. ASSUME NEW s \in Seq(S), NEW t \in Seq(S), NEW u \in Seq(S), u = s \o t
      PROVE  /\ Begins(s, u) /\ Len(u) = Len(s) + Len(t)
             /\ At(u, Len(s) + 1, t)
  <2>1. Len(u) = Len(s) + Len(t) /\ Len(s) \in Nat /\ Len(t) \in Nat
    BY <1>2
  <2>2. \A p \in 1..Len(s) : u[p] = s[p]
    BY <1>2
  <2>3. \A j \in 1..Len(t) : u[Len(s) + j] = t[j]
    BY <1>2
  <2>4. \A j \in 1..Len(t) : Len(s) + 1 + j - 1 = Len(s) + j
    BY <2>1
  <2>5. QED
    BY <2>1, <2>2, <2>3, <2>4 DEF Begins, At
<1>3. 0 \in R
  OBVIOUS
<1>4. ASSUME NEW j \in 1..m, j - 1 \in R
      PROVE  j \in R
  <2>1. CASE i = j
    <3>1. flat[j] \in Seq(S)
      BY <1>1
    <3>2. Begins(flat[j], flat[j])
      BY <3>1 DEF Begins
    <3>3. QED
      BY <2>1, <3>2
  <2>2. CASE i < j
    <3>1. Begins(flat[i], flat[j - 1])
      BY <1>4, <2>2
    <3>2. Begins(flat[j - 1], flat[j])
      BY <1>1, <1>2
    <3>3. Len(flat[i]) \in Nat /\ Len(flat[j - 1]) \in Nat /\ Len(flat[j]) \in Nat
      BY <1>1
    <3>4. Begins(flat[i], flat[j])
      BY <3>1, <3>2, <3>3 DEF Begins
    <3>5. QED
      BY <3>4
  <2>3. CASE i > j
    BY <2>3
  <2>4. QED
    BY <2>1, <2>2, <2>3
<1> HIDE DEF R
<1>5. \A j \in 0..m : j \in R
  BY <1>3, <1>4, InductUpTo
<1>6. m \in R
  BY <1>5
<1>7. Begins(flat[i], flat[m])
  BY <1>6 DEF R
<1>8. /\ flat[i - 1] \in Seq(S) /\ seqs[i] \in Seq(S) /\ flat[i] \in Seq(S) /\ flat[m] \in Seq(S)
      /\ At(flat[i], Len(flat[i - 1]) + 1, seqs[i])
      /\ Len(flat[i]) = Len(flat[i - 1]) + Len(seqs[i])
  <2>1. /\ flat[i - 1] \in Seq(S) /\ seqs[i] \in Seq(S) /\ flat[i] \in Seq(S)
        /\ flat[i] = flat[i - 1] \o seqs[i]
    BY <1>1
  <2>2. flat[m] \in Seq(S)
    BY DEF Flat
  <2>3. /\ At(flat[i], Len(flat[i - 1]) + 1, seqs[i])
        /\ Len(flat[i]) = Len(flat[i - 1]) + Len(seqs[i])
    BY <1>2, <2>1
  <2>4. QED
    BY <2>1, <2>2, <2>3
<1>9. PICK x, y, z, w \in Nat : /\ x = Len(flat[i - 1]) /\ y = Len(seqs[i])
                                /\ z = Len(flat[i]) /\ w = Len(flat[m])
  <2>1. \A s \in Seq(S) : Len(s) \in Nat
    OBVIOUS
  <2>2. QED
    BY <1>8, <2>1
<1>10. z = x + y /\ z <= w
  BY <1>7, <1>8, <1>9 DEF Begins
<1>11. ASSUME NEW j \in 1..y
       PROVE  flat[m][x + 1 + j - 1] = seqs[i][j]
  <2>1. flat[i][x + 1 + j - 1] = seqs[i][j]
    BY <1>8, <1>9 DEF At
  <2>2. x + 1 + j - 1 \in 1..z
    BY <1>10
  <2>3. flat[m][x + 1 + j - 1] = flat[i][x + 1 + j - 1]
    BY <1>7, <1>9, <2>2 DEF Begins
  <2>4. QED
    BY <2>1, <2>3
<1>12. x + 1 + y - 1 <= w
  BY <1>10
<1>13. QED
  BY <1>8, <1>9, <1>11, <1>12 DEF At, InFlat

\* the m sequences of c items are one after the other in whole
Even(whole, seqs, m, c, S) ==
    /\ whole \in Seq(S) /\ Len(whole) = c * m
    /\ \A k \in 1..m : \A j \in 1..c : whole[c * (k - 1) + j] = seqs[k][j]
LEMMA FlatEven ==
    ASSUME NEW S, NEW m \in Nat, NEW seqs, NEW flat, Flat(flat, seqs, m, S),
           NEW c \in Nat \ {0}, \A k \in 1..m : Len(seqs[k]) = c
    PROVE  Even(flat[m], seqs, m, c, S)
<1>1. \A k \in 1..m : InFlat(flat, seqs, m, k)
  BY FlatAt
<1>2. flat[0] = << >> /\ \A k \in 0..m : flat[k] \in Seq(S)
  BY DEF Flat
<1> DEFINE R == {k \in 0..m : Len(flat[k]) = c * k}
<1>3. 0 \in R
  <2>1. Len(flat[0]) = 0
    BY <1>2
  <2>2. QED
    BY <2>1
<1>4. ASSUME NEW k \in 1..m, k - 1 \in R
      PROVE  k \in R
  <2>1. Len(flat[k]) = Len(flat[k - 1]) + Len(seqs[k])
    BY <1>1 DEF InFlat
  <2>2. Len(flat[k]) = c * (k - 1) + c
    BY <1>4, <2>1
  <2>3. c * (k - 1) + c = c * k
    OBVIOUS
  <2>4. QED
    BY <2>2, <2>3
<1> HIDE DEF R
<1>5. \A k \in 0..m : k \in R
  BY <1>3, <1>4, InductUpTo
<1>6. \A k \in 0..m : Len(flat[k]) = c * k
  BY <1>5 DEF R
<1>7. ASSUME NEW k \in 1..m, NEW j \in 1..c
      PROVE  flat[m][c * (k - 1) + j] = seqs[k][j]
  <2>1. k - 1 \in 0..m
    OBVIOUS
  <2>2. At(flat[m], Len(flat[k - 1]) + 1, seqs[k])
    BY <1>1 DEF InFlat
  <2>3. PICK x \in Nat : x = c * (k - 1)
    OBVIOUS
  <2>4. Len(flat[k - 1]) = x
    BY <1>6, <2>1, <2>3
  <2>5. flat[m][x + 1 + j - 1] = seqs[k][j]
    BY <2>2, <2>4 DEF At
  <2>6. x + 1 + j - 1 = x + j
    OBVIOUS
  <2>7. QED
    BY <2>3, <2>5, <2>6
<1>8. QED
  BY <1>2, <1>6, <1>7 DEF Even

\* Every place is in one of the groups of c.
LEMMA Grouped ==
    ASSUME NEW c \in Nat \ {0}, NEW m \in Nat, NEW p \in 1..(c * m)
    PROVE  \E k \in 1..m, j \in 1..c : p = c * (k - 1) + j
<1>1. p - 1 \in Nat /\ c * m \in Nat
  OBVIOUS
<1>2. PICK q \in Nat, r \in 0..(c - 1) : p - 1 = q * c + r
  <2>1. /\ p - 1 = ((p - 1) \div c) * c + ((p - 1) % c)
        /\ (p - 1) \div c \in Nat /\ (p - 1) % c \in 0..(c - 1)
    BY <1>1
  <2>2. QED
    BY <2>1
<1>3. q < m
  <2>1. SUFFICES ASSUME q >= m PROVE FALSE
    OBVIOUS
  <2>2. PICK d \in Nat : q = m + d
    BY <2>1
  <2>3. q * c = c * m + d * c /\ d * c \in Nat
    BY <2>2
  <2>4. QED
    BY <1>1, <1>2, <2>3
<1>4. q + 1 \in 1..m /\ r + 1 \in 1..c /\ p = c * ((q + 1) - 1) + (r + 1)
  <2>1. c * ((q + 1) - 1) = q * c
    OBVIOUS
  <2>2. QED
    BY <1>1, <1>2, <1>3, <2>1
<1>5. QED
  BY <1>4

LEMMA FlatOf ==
    ASSUME NEW S, NEW seqs \in Seq(Seq(S)), NEW m \in Nat, m = Len(seqs)
    PROVE  \E flat : Flat(flat, seqs, m, S) /\ FlattenSeq(seqs) = flat[m]
<1>1. PICK flat \in [0..m -> Seq(S)] : Flat(flat, seqs, m, S) /\ FlattenSeq(seqs) = flat[m]
  BY Flattened
<1>2. QED
  BY <1>1

\* sequences of c items, one after the other
LEMMA FlattenedEven ==
    ASSUME NEW S, NEW seqs \in Seq(Seq(S)), NEW m \in Nat, m = Len(seqs),
           NEW c \in Nat \ {0}, \A k \in 1..m : Len(seqs[k]) = c
    PROVE  Even(FlattenSeq(seqs), seqs, m, c, S)
<1>1. PICK flat : Flat(flat, seqs, m, S) /\ FlattenSeq(seqs) = flat[m]
  BY FlatOf, Zenon
<1>2. QED
  BY <1>1, FlatEven

-----------------------------------------------------------------------------
(* Sums and counts *)

\* The sum of a sequence, place by place.
Sums(f, s, n) == f[0] = 0 /\ \A k \in 1..n : f[k] = f[k - 1] + s[k]

LEMMA SumIs ==
    ASSUME NEW s \in Seq(Int)
    PROVE  \E f \in [0..Len(s) -> Int] : Sums(f, s, Len(s)) /\ SumOf(s) = f[Len(s)]
<1> DEFINE n == Len(s)
           next(k, x) == x + s[k]
           step == [p \in (1..n) \X Int |-> next(p[1], p[2])]
           Is(h) == h = [k \in 0..n |-> IF k = 0 THEN 0 ELSE h[k - 1] + s[k]]
<1>1. SumOf(s) = (CHOOSE g : Is(g))[n]
  BY DEF SumOf
<1>2. n \in Nat /\ 0 \in Int /\ \A k \in 1..n, x \in Int : next(k, x) \in Int
  OBVIOUS
<1> HIDE DEF n
<1>3. ASSUME NEW h
      PROVE  Is(h) <=> (h = [k \in 0..n |-> h[k]] /\ h[0] = 0 /\ \A k \in 1..n : h[k] = next(k, h[k - 1]))
  <2>1. 0 \in 0..n /\ \A k \in 0..n : k = 0 \/ k \in 1..n
    BY <1>2
  <2>2. \A k \in 1..n : k \in 0..n /\ k # 0
    BY <1>2
  <2>3. QED
    BY <2>1, <2>2
<1> HIDE DEF Is
<1>4. step \in [(1..n) \X Int -> Int] /\ \A k \in 1..n, x \in Int : step[<<k, x>>] = next(k, x)
  BY <1>2
<1> HIDE DEF step, next
<1>5. PICK f \in [0..n -> Int] : Follows(f, n, 0, step)
  BY <1>2, <1>4, Recursion
<1>6. f = [k \in 0..n |-> f[k]] /\ f[0] = 0 /\ \A k \in 1..n : f[k] = next(k, f[k - 1])
  <2>1. \A k \in 1..n : k - 1 \in 0..n
    BY <1>2
  <2>2. \A k \in 1..n : f[k - 1] \in Int
    BY <2>1
  <2>3. QED
    BY <1>4, <1>5, <2>2 DEF Follows
<1>7. PICK h : h = (CHOOSE g : Is(g)) /\ Is(h)
  BY <1>3, <1>6
<1>8. Recurs(h, n, 0, step, Int)
  BY <1>3, <1>4, <1>7 DEF Recurs
<1>9. h \in [0..n -> Int]
  BY <1>2, <1>4, <1>8, RecursIs
<1>10. h[0] = 0 /\ \A k \in 1..n : h[k] = h[k - 1] + s[k]
  BY <1>3, <1>7 DEF next
<1>11. QED
  BY <1>1, <1>7, <1>9, <1>10 DEF Sums, n

\* How many of the first k naturals are in a set.
LEMMA CountUpTo ==
    ASSUME NEW P
    PROVE  /\ Cardinality(P \cap (1..0)) = 0
           /\ \A k \in Nat : /\ IsFiniteSet(P \cap (1..k))
                             /\ Cardinality(P \cap (1..k)) \in Nat
           /\ \A k \in Nat \ {0} : Cardinality(P \cap (1..k))
                = Cardinality(P \cap (1..(k - 1))) + (IF k \in P THEN 1 ELSE 0)
<1>1. Cardinality(P \cap (1..0)) = 0
  <2>1. P \cap (1..0) = {}
    OBVIOUS
  <2>2. QED
    BY <2>1, FS_EmptySet
<1>2. ASSUME NEW k \in Nat
      PROVE  IsFiniteSet(P \cap (1..k)) /\ Cardinality(P \cap (1..k)) \in Nat
  <2>1. IsFiniteSet(1..k)
    BY FS_Interval
  <2>2. P \cap (1..k) \in SUBSET (1..k)
    OBVIOUS
  <2>3. IsFiniteSet(P \cap (1..k))
    BY <2>1, <2>2, FS_Subset
  <2>4. QED
    BY <2>3, FS_CardinalityType
<1>3. ASSUME NEW k \in Nat \ {0}
      PROVE  Cardinality(P \cap (1..k))
               = Cardinality(P \cap (1..(k - 1))) + (IF k \in P THEN 1 ELSE 0)
  <2>1. k - 1 \in Nat /\ IsFiniteSet(P \cap (1..(k - 1))) /\ Cardinality(P \cap (1..(k - 1))) \in Nat
    <3>1. k - 1 \in Nat
      OBVIOUS
    <3>2. QED
      BY <1>2, <3>1
  <2>2. k \notin P \cap (1..(k - 1))
    OBVIOUS
  <2>3. CASE k \in P
    <3>1. P \cap (1..k) = (P \cap (1..(k - 1))) \cup {k}
      BY <2>3
    <3>2. QED
      BY <2>1, <2>2, <2>3, <3>1, FS_AddElement
  <2>4. CASE k \notin P
    <3>1. P \cap (1..k) = P \cap (1..(k - 1))
      BY <2>4
    <3>2. \A c \in Nat : c + 0 = c
      OBVIOUS
    <3>3. QED
      BY <2>1, <2>4, <3>1, <3>2
  <2>5. QED
    BY <2>3, <2>4
<1>4. QED
  BY <1>1, <1>2, <1>3

\* one more, modulo d
LEMMA ModNext ==
    ASSUME NEW c \in Nat, NEW d \in Nat \ {0}
    PROVE  (c + 1) % d = IF (c % d) + 1 = d THEN 0 ELSE (c % d) + 1
<1>1. c = (c \div d) * d + (c % d) /\ c \div d \in Int /\ c % d \in 0..(d - 1)
  OBVIOUS
<1>2. c + 1 \in Nat
  OBVIOUS
<1>3. /\ c + 1 = ((c + 1) \div d) * d + ((c + 1) % d)
      /\ (c + 1) \div d \in Int /\ (c + 1) % d \in 0..(d - 1)
  BY <1>2
<1>4. PICK p, q \in Int, x, y \in 0..(d - 1) :
        p = c \div d /\ q = (c + 1) \div d /\ x = c % d /\ y = (c + 1) % d
  BY <1>1, <1>3
<1>5. c = p * d + x /\ c + 1 = q * d + y
  BY <1>1, <1>3, <1>4
<1>6. CASE x + 1 = d
  <2>1. (p + 1) * d + 0 = q * d + y
    BY <1>5, <1>6
  <2>2. 0 \in 0..(d - 1) /\ p + 1 \in Int
    OBVIOUS
  <2>3. 0 = y
    BY <2>1, <2>2, ModUnique
  <2>4. QED
    BY <1>4, <1>6, <2>3
<1>7. CASE x + 1 # d
  <2>1. p * d + (x + 1) = q * d + y
    BY <1>5
  <2>2. x + 1 \in 0..(d - 1)
    BY <1>7
  <2>3. x + 1 = y
    BY <2>1, <2>2, ModUnique
  <2>4. QED
    BY <1>4, <1>7, <2>3
<1>8. QED
  BY <1>6, <1>7

\* The sum of n numbers, number by number.
Adds(f, s, n) == f \in [0..n -> Int] /\ Sums(f, s, n) /\ SumOf(s) = f[n]
AddsAt(f, s, k) == f[k - 1] \in Int /\ s[k] \in Int /\ f[k] = f[k - 1] + s[k]

LEMMA AddsUp ==
    ASSUME NEW n \in Nat, NEW s \in [1..n -> Int]
    PROVE  \E f : Adds(f, s, n)
<1>1. s \in Seq(Int) /\ Len(s) = n
  OBVIOUS
<1>2. PICK f \in [0..Len(s) -> Int] : Sums(f, s, Len(s)) /\ SumOf(s) = f[Len(s)]
  BY <1>1, SumIs
<1>3. QED
  BY <1>1, <1>2 DEF Adds

LEMMA AddsIs ==
    ASSUME NEW n \in Nat, NEW s \in [1..n -> Int], NEW f, Adds(f, s, n), NEW k \in 1..n
    PROVE  AddsAt(f, s, k)
<1>1. k - 1 \in 0..n
  OBVIOUS
<1>2. QED
  BY <1>1 DEF Adds, Sums, AddsAt

LEMMA AddsFrom == \A f, s, n : Adds(f, s, n) => f[0] = 0
BY DEF Adds, Sums

PairSums(a, b, c, n) == \A k \in 1..n : c[k] = a[k] + b[k]

\* The sum of sums.
LEMMA SumAdd ==
    ASSUME NEW n \in Nat, NEW a \in [1..n -> Int], NEW b \in [1..n -> Int], NEW c \in [1..n -> Int],
           PairSums(a, b, c, n)
    PROVE  SumOf(c) = SumOf(a) + SumOf(b)
<1>1. PICK f : Adds(f, a, n)
  BY AddsUp
<1>2. PICK g : Adds(g, b, n)
  BY AddsUp
<1>3. PICK h : Adds(h, c, n)
  BY AddsUp
<1> DEFINE R == {k \in 0..n : h[k] = f[k] + g[k]}
<1>4. 0 \in R
  BY <1>1, <1>2, <1>3, AddsFrom
<1>5. ASSUME NEW k \in 1..n, k - 1 \in R
      PROVE  k \in R
  <2>1. k \in 0..n /\ h[k - 1] = f[k - 1] + g[k - 1]
    BY <1>5
  <2>2. c[k] = a[k] + b[k]
    BY DEF PairSums
  <2>3. AddsAt(f, a, k)
    BY <1>1, AddsIs, Zenon
  <2>4. AddsAt(g, b, k)
    BY <1>2, AddsIs, Zenon
  <2>5. AddsAt(h, c, k)
    BY <1>3, AddsIs, Zenon
  <2>6. h[k] = f[k] + g[k]
    BY <2>1, <2>2, <2>3, <2>4, <2>5 DEF AddsAt
  <2>7. QED
    BY <2>1, <2>6
<1> HIDE DEF R
<1>6. \A k \in 0..n : k \in R
  BY <1>4, <1>5, InductUpTo
<1>7. n \in 0..n
  OBVIOUS
<1>8. QED
  BY <1>1, <1>2, <1>3, <1>6, <1>7 DEF R, Adds

Multiplied(a, p, b, n) == \A k \in 1..n : b[k] = a[k] * p

\* The sum of multiples.
LEMMA SumTimes ==
    ASSUME NEW n \in Nat, NEW a \in [1..n -> Int], NEW b \in [1..n -> Int], NEW p \in Int,
           Multiplied(a, p, b, n)
    PROVE  SumOf(b) = SumOf(a) * p
<1>1. PICK f : Adds(f, a, n)
  BY AddsUp
<1>2. PICK g : Adds(g, b, n)
  BY AddsUp
<1> DEFINE R == {k \in 0..n : g[k] = f[k] * p}
<1>3. 0 \in R
  BY <1>1, <1>2, AddsFrom
<1>4. ASSUME NEW k \in 1..n, k - 1 \in R
      PROVE  k \in R
  <2>1. k \in 0..n /\ g[k - 1] = f[k - 1] * p
    BY <1>4
  <2>2. b[k] = a[k] * p
    BY DEF Multiplied
  <2>3. AddsAt(f, a, k)
    BY <1>1, AddsIs, Zenon
  <2>4. AddsAt(g, b, k)
    BY <1>2, AddsIs, Zenon
  <2>5. g[k] = f[k] * p
    BY <2>1, <2>2, <2>3, <2>4 DEF AddsAt
  <2>6. QED
    BY <2>1, <2>5
<1> HIDE DEF R
<1>5. \A k \in 0..n : k \in R
  BY <1>3, <1>4, InductUpTo
<1>6. n \in 0..n
  OBVIOUS
<1>7. QED
  BY <1>1, <1>2, <1>5, <1>6 DEF R, Adds

NoMore(a, b, n) == \A k \in 1..n : a[k] <= b[k]

\* The sum of what is no more.
LEMMA SumMost ==
    ASSUME NEW n \in Nat, NEW a \in [1..n -> Int], NEW b \in [1..n -> Int],
           NoMore(a, b, n)
    PROVE  SumOf(a) <= SumOf(b)
<1>1. PICK f : Adds(f, a, n)
  BY AddsUp
<1>2. PICK g : Adds(g, b, n)
  BY AddsUp
<1> DEFINE R == {k \in 0..n : f[k] <= g[k]}
<1>3. 0 \in R
  BY <1>1, <1>2, AddsFrom
<1>4. ASSUME NEW k \in 1..n, k - 1 \in R
      PROVE  k \in R
  <2>1. k \in 0..n /\ f[k - 1] <= g[k - 1]
    BY <1>4
  <2>2. a[k] <= b[k]
    BY DEF NoMore
  <2>3. AddsAt(f, a, k)
    BY <1>1, AddsIs, Zenon
  <2>4. AddsAt(g, b, k)
    BY <1>2, AddsIs, Zenon
  <2>5. f[k] <= g[k]
    BY <2>1, <2>2, <2>3, <2>4 DEF AddsAt
  <2>6. QED
    BY <2>1, <2>5
<1> HIDE DEF R
<1>5. \A k \in 0..n : k \in R
  BY <1>3, <1>4, InductUpTo
<1>6. n \in 0..n
  OBVIOUS
<1>7. QED
  BY <1>1, <1>2, <1>5, <1>6 DEF R, Adds

AllNat(a, n) == \A k \in 1..n : a[k] \in Nat

\* The sum of naturals.
LEMMA SumNatural ==
    ASSUME NEW n \in Nat, NEW a \in [1..n -> Int],
           AllNat(a, n)
    PROVE  SumOf(a) \in Nat
<1>1. PICK f : Adds(f, a, n)
  BY AddsUp
<1> DEFINE R == {k \in 0..n : f[k] \in Nat}
<1>2. 0 \in R
  BY <1>1, AddsFrom
<1>3. ASSUME NEW k \in 1..n, k - 1 \in R
      PROVE  k \in R
  <2>1. k \in 0..n /\ f[k - 1] \in Nat
    BY <1>3
  <2>2. a[k] \in Nat
    BY DEF AllNat
  <2>3. AddsAt(f, a, k)
    BY <1>1, AddsIs, Zenon
  <2>4. f[k] \in Nat
    BY <2>1, <2>2, <2>3 DEF AddsAt
  <2>5. QED
    BY <2>1, <2>4
<1> HIDE DEF R
<1>4. \A k \in 0..n : k \in R
  BY <1>2, <1>3, InductUpTo
<1>5. n \in 0..n
  OBVIOUS
<1>6. QED
  BY <1>1, <1>4, <1>5 DEF R, Adds

OnlyAt(a, t, v, n) == \A k \in 1..n : a[k] = IF k = t THEN v ELSE 0

\* The sum of one number and zeros.
LEMMA SumOne ==
    ASSUME NEW n \in Nat, NEW a \in [1..n -> Int], NEW v \in Int, NEW t \in 1..n,
           OnlyAt(a, t, v, n)
    PROVE  SumOf(a) = v
<1>1. PICK f : Adds(f, a, n)
  BY AddsUp
<1> DEFINE R == {k \in 0..n : f[k] = IF t <= k THEN v ELSE 0}
<1>2. 0 \in R
  BY <1>1, AddsFrom
<1>3. ASSUME NEW k \in 1..n, k - 1 \in R
      PROVE  k \in R
  <2>1. k \in 0..n /\ f[k - 1] = IF t <= k - 1 THEN v ELSE 0
    BY <1>3
  <2>2. a[k] = IF k = t THEN v ELSE 0
    BY DEF OnlyAt
  <2>3. AddsAt(f, a, k)
    BY <1>1, AddsIs, Zenon
  <2>4. f[k] = IF t <= k THEN v ELSE 0
    BY <2>1, <2>2, <2>3 DEF AddsAt
  <2>5. QED
    BY <2>1, <2>4
<1> HIDE DEF R
<1>4. \A k \in 0..n : k \in R
  BY <1>2, <1>3, InductUpTo
<1>5. n \in 0..n
  OBVIOUS
<1>6. QED
  BY <1>1, <1>4, <1>5 DEF R, Adds

OnesOf(a, P, n) == \A k \in 1..n : a[k] = IF k \in P THEN 1 ELSE 0

\* The sum of ones for the members of a set.
LEMMA SumCount ==
    ASSUME NEW n \in Nat, NEW a \in [1..n -> Int], NEW P,
           OnesOf(a, P, n)
    PROVE  SumOf(a) = Cardinality(P \cap (1..n))
<1>1. PICK f : Adds(f, a, n)
  BY AddsUp
<1> DEFINE R == {k \in 0..n : f[k] = Cardinality(P \cap (1..k))}
<1>2. 0 \in R
  BY <1>1, AddsFrom, CountUpTo
<1>3. ASSUME NEW k \in 1..n, k - 1 \in R
      PROVE  k \in R
  <2>1. k \in 0..n /\ f[k - 1] = Cardinality(P \cap (1..(k - 1)))
    BY <1>3
  <2>0. Cardinality(P \cap (1..k)) = Cardinality(P \cap (1..(k - 1))) + (IF k \in P THEN 1 ELSE 0)
    <3>1. \A j \in Nat \ {0} : Cardinality(P \cap (1..j)) = Cardinality(P \cap (1..(j - 1))) + (IF j \in P THEN 1 ELSE 0)
      BY CountUpTo, Zenon
    <3>2. k \in Nat \ {0}
      OBVIOUS
    <3>3. QED
      BY <3>1, <3>2, Zenon
  <2>2. a[k] = IF k \in P THEN 1 ELSE 0
    BY DEF OnesOf
  <2>3. AddsAt(f, a, k)
    BY <1>1, AddsIs, Zenon
  <2>4. f[k] = Cardinality(P \cap (1..k))
    BY <2>1, <2>2, <2>3, <2>0 DEF AddsAt
  <2>5. QED
    BY <2>1, <2>4
<1> HIDE DEF R
<1>4. \A k \in 0..n : k \in R
  BY <1>2, <1>3, InductUpTo
<1>5. n \in 0..n
  OBVIOUS
<1>6. QED
  BY <1>1, <1>4, <1>5 DEF R, Adds

FirstOf(t, s, k, S) == t \in [1..k -> S] /\ \A i \in 1..k : t[i] = s[i]
LEMMA FirstItems ==
    ASSUME NEW S, NEW s \in Seq(S), NEW k \in Nat, NEW n \in Nat, Len(s) = k + n
    PROVE  FirstOf(SubSeq(s, 1, k), s, k, S)
<1>1. \A i \in 1..k : i \in 1..Len(s)
  OBVIOUS
<1>2. SubSeq(s, 1, k) = [i \in 1..k |-> s[i]]
  OBVIOUS
<1>3. \A i \in 1..k : s[i] \in S
  BY <1>1
<1> DEFINE t == SubSeq(s, 1, k)
<1> HIDE DEF t
<1>4. t = [i \in 1..k |-> s[i]]
  BY <1>2 DEF t
<1>5. FirstOf(t, s, k, S)
  BY <1>3, <1>4 DEF FirstOf
<1>6. QED
  BY <1>5 DEF t

LEMMA PrefixIs ==
    ASSUME NEW S, NEW s \in Seq(S), NEW t \in Seq(S), NEW n \in Nat, NEW m \in Nat,
           Len(s) = n, Len(t) = m, n <= m, \A i \in 1..n : s[i] = t[i]
    PROVE  IsPrefix(s, t) /\ (n = m => s = t)
<1>1. SubSeq(s, 1, n) = [i \in 1..n |-> s[i]] /\ SubSeq(t, 1, n) = [i \in 1..n |-> t[i]]
  OBVIOUS
<1>2. s = [i \in 1..n |-> s[i]] /\ t = [i \in 1..m |-> t[i]]
  OBVIOUS
<1>3. SubSeq(s, 1, n) = SubSeq(t, 1, n)
  BY <1>1
<1>4. n = m => s = t
  BY <1>2
<1>5. QED
  BY <1>3, <1>4 DEF IsPrefix

LEMMA PrefixHas ==
    ASSUME NEW S, NEW s \in Seq(S), NEW t \in Seq(S), IsPrefix(s, t)
    PROVE  Len(s) <= Len(t) /\ \A i \in 1..Len(s) : t[i] = s[i]
<1>1. PICK a : a = SubSeq(s, 1, Len(s)) /\ a = SubSeq(t, 1, Len(s))
  BY DEF IsPrefix
<1>2. Len(s) <= Len(t) /\ Len(s) \in Nat /\ Len(t) \in Nat
  BY DEF IsPrefix
<1>3. a = [i \in 1..Len(s) |-> s[i]]
  BY <1>1
<1>4. a = [i \in 1..Len(s) |-> t[i]]
  BY <1>1, <1>2
<1>5. QED
  BY <1>2, <1>3, <1>4

\* what is behind the first a items
Behinds(t, s, a, r) == Len(t) = r /\ \A i \in 1..r : t[i] = s[a + i]
LEMMA BehindIs ==
    ASSUME NEW S, NEW s \in Seq(S), NEW a \in Nat, NEW r \in Nat, Len(s) = a + r
    PROVE  /\ SubSeq(s, a + 1, Len(s)) \in Seq(S)
           /\ Behinds(SubSeq(s, a + 1, Len(s)), s, a, r)
<1>1. (a + r) - (a + 1) + 1 = r
  OBVIOUS
<1>2. PICK t : t = SubSeq(s, a + 1, Len(s))
  OBVIOUS
<1>3. t = [i \in 1..r |-> s[i + (a + 1) - 1]]
  BY <1>1, <1>2
<1>4. \A i \in 1..r : i + (a + 1) - 1 = a + i /\ a + i \in 1..(a + r)
  OBVIOUS
<1>5. \A i \in 1..r : s[i + (a + 1) - 1] = s[a + i] /\ s[a + i] \in S
  BY <1>4
<1>6. t \in Seq(S) /\ Len(t) = r /\ \A i \in 1..r : t[i] = s[a + i]
  BY <1>3, <1>5
<1>7. QED
  BY <1>2, <1>6 DEF Behinds

\* Behind what is behind.
LEMMA BehindTwice ==
    ASSUME NEW S, NEW s \in Seq(S), NEW a \in Nat, NEW b \in Nat, NEW r \in Nat, Len(s) = a + (b + r)
    PROVE  LET t == SubSeq(s, a + 1, Len(s))
           IN SubSeq(t, b + 1, Len(t)) = SubSeq(s, (a + b) + 1, Len(s))
<1>1. PICK t : t = SubSeq(s, a + 1, Len(s))
  OBVIOUS
<1>2. t \in Seq(S) /\ Len(t) = b + r /\ \A i \in 1..(b + r) : t[i] = s[a + i]
  <2>1. b + r \in Nat
    OBVIOUS
  <2>2. t \in Seq(S) /\ Behinds(t, s, a, b + r)
    BY <1>1, <2>1, BehindIs
  <2>3. QED
    BY <2>2 DEF Behinds
<1>3. PICK u : u = SubSeq(t, b + 1, Len(t))
  OBVIOUS
<1>4. u \in Seq(S) /\ Len(u) = r /\ \A i \in 1..r : u[i] = t[b + i]
  <2>1. u \in Seq(S) /\ Behinds(u, t, b, r)
    BY <1>2, <1>3, BehindIs
  <2>2. QED
    BY <2>1 DEF Behinds
<1>5. PICK w : w = SubSeq(s, (a + b) + 1, Len(s))
  OBVIOUS
<1>6. w \in Seq(S) /\ Len(w) = r /\ \A i \in 1..r : w[i] = s[(a + b) + i]
  <2>1. a + b \in Nat /\ Len(s) = (a + b) + r
    OBVIOUS
  <2>2. w \in Seq(S) /\ Behinds(w, s, a + b, r)
    BY <1>5, <2>1, BehindIs
  <2>3. QED
    BY <2>2 DEF Behinds
<1>7. \A i \in 1..r : u[i] = w[i]
  <2> TAKE i \in 1..r
  <2>1. b + i \in 1..(b + r) /\ a + (b + i) = (a + b) + i
    OBVIOUS
  <2>2. QED
    BY <1>2, <1>4, <1>6, <2>1
<1>8. u = w
  <2>1. u = [i \in 1..r |-> u[i]] /\ w = [i \in 1..r |-> w[i]]
    BY <1>4, <1>6
  <2>2. QED
    BY <1>7, <2>1
<1>9. QED
  BY <1>1, <1>3, <1>5, <1>8

LEMMA WiderSeq ==
    ASSUME NEW S, NEW T, \A x \in S : x \in T, NEW s \in Seq(S)
    PROVE  s \in Seq(T)
OBVIOUS

LEMMA ItemsIn ==
    ASSUME NEW S, NEW s \in Seq(S), NEW m \in Nat, m = Len(s)
    PROVE  \A k \in 1..m : s[k] \in S
OBVIOUS

LEMMA MinIs ==
    ASSUME NEW S, NEW x \in S, S \subseteq Int, \A y \in S : x <= y
    PROVE  Min(S) = x
<1>1. \A y \in S : (\A z \in S : y <= z) => y = x
  OBVIOUS
<1>2. \E y \in S : \A z \in S : y <= z
  OBVIOUS
<1>3. QED
  BY <1>1, <1>2 DEF Min

LEMMA MinOne == \A x \in Int : Min({x}) = x
BY DEF Min
LEMMA MaxOne == \A x \in Int : Max({x}) = x
BY DEF Max
=============================================================================
