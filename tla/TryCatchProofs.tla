--------------------------- MODULE TryCatchProofs ---------------------------
(***************************************************************************)
(* For any depth of nesting, catch_stack mirrors the scopes being tried    *)
(* and so try_catch/exitf implement structured exceptions.  The mirror is  *)
(* inductive together with the shape of the C stack: what is inside a      *)
(* tried expression is a call, so a return can only discard scopes that    *)
(* have already popped their jmp_buf.                                      *)
(***************************************************************************)
EXTENDS TryCatch, SequenceTheorems, TLAPS

\* main is the outermost scope and only a call can be inside an expression being tried
OnlyCallsInTried ==
    /\ scopes[1] = "call"
    /\ \A i \in DOMAIN scopes : scopes[i] = "trying" /\ i # Len(scopes) => scopes[i + 1] = "call"

\* below a jmp_buf there are at least as many scopes as jmp_bufs: why catch_stack stays small
EntriesBelow == \A k \in DOMAIN catch_stack : k <= catch_stack[k]

IInv == TypeOK /\ OnlyCallsInTried /\ CatchStackMirrorsScopes /\ EntriesBelow
-----------------------------------------------------------------------------
(* Sequences, in the forms the macros use them *)

\* Removing the last element keeps the others in place.
LEMMA PoppedIs ==
    ASSUME NEW S, NEW s \in Seq(S), s # << >>
    PROVE  /\ Popped(s) \in Seq(S) /\ Len(Popped(s)) = Len(s) - 1 /\ Len(s) \in Nat \ {0}
           /\ \A i \in 1..(Len(s) - 1) : Popped(s)[i] = s[i]
<1>1. Len(s) \in Nat \ {0} /\ \A i \in 1..(Len(s) - 1) : s[i] \in S
  BY EmptySeq, LenProperties
<1> DEFINE n == Len(s) - 1
           p == SubSeq(s, 1, n)
<1>2. /\ p \in Seq(S)
      /\ Len(p) = IF 1 <= n THEN n - 1 + 1 ELSE 0
      /\ \A i \in 1..(n - 1 + 1) : p[i] = s[1 + i - 1]
  BY <1>1, SubSeqProperties
<1>3. n \in Nat /\ Len(s) = n + 1 /\ p = Popped(s)
  BY <1>1 DEF Popped
<1> HIDE DEF n, p
<1>4. Len(p) = n /\ \A i \in 1..n : p[i] = s[i]
  BY <1>2, <1>3
<1>5. QED
  BY <1>1, <1>2, <1>3, <1>4

\* Cutting a sequence below n and putting x there keeps what is below n.
Cut(s, n, x) == Append(SubSeq(s, 1, n - 1), x)

LEMMA CutAt ==
    ASSUME NEW S, NEW s \in Seq(S), NEW n \in 1..Len(s), NEW x \in S
    PROVE  /\ Cut(s, n, x) \in Seq(S) /\ Len(Cut(s, n, x)) = n /\ Cut(s, n, x)[n] = x
           /\ \A i \in 1..(n - 1) : Cut(s, n, x)[i] = s[i]
<1>1. Len(s) \in Nat /\ n - 1 \in Nat /\ n - 1 <= Len(s)
  BY LenProperties
<1> DEFINE p == SubSeq(s, 1, n - 1)
<1>2. p \in Seq(S) /\ Len(p) = n - 1 /\ \A i \in 1..(n - 1) : p[i] = s[i]
  <2>1. /\ SubSeq(s, 1, n - 1) \in Seq(S)
        /\ Len(SubSeq(s, 1, n - 1)) = IF 1 <= n - 1 THEN (n - 1) - 1 + 1 ELSE 0
        /\ \A i \in 1..((n - 1) - 1 + 1) : SubSeq(s, 1, n - 1)[i] = s[1 + i - 1]
    BY <1>1, SubSeqProperties
  <2>2. QED
    BY <1>1, <2>1
<1> HIDE DEF p
<1>3. /\ Append(p, x) \in Seq(S) /\ Len(Append(p, x)) = Len(p) + 1
      /\ \A i \in 1..Len(p) : Append(p, x)[i] = p[i]
      /\ Append(p, x)[Len(p) + 1] = x
  BY <1>2, AppendProperties
<1>4. Cut(s, n, x) = Append(p, x)
  BY DEF p, Cut
<1>5. QED
  BY <1>1, <1>2, <1>3, <1>4
-----------------------------------------------------------------------------
(* The invariant *)

\* The lengths and the domains of the two sequences.
LEMMA Lengths ==
    ASSUME IInv
    PROVE  /\ scopes \in Seq(Scope) /\ catch_stack \in Seq(1..MaxDepth)
           /\ Len(scopes) \in Nat /\ 1 <= Len(scopes) /\ Len(scopes) <= MaxDepth
           /\ Len(catch_stack) \in Nat
           /\ DOMAIN scopes = 1..Len(scopes) /\ DOMAIN catch_stack = 1..Len(catch_stack)
           /\ catch_stack # << >> => Len(catch_stack) # 0
BY LenProperties, EmptySeq, MaxDepthAssumption DEF IInv, TypeOK

\* The three parts of the mirror and the shape of the C stack, by index.
LEMMA EntriesAreTried ==
    ASSUME IInv, NEW k \in 1..Len(catch_stack)
    PROVE  /\ catch_stack[k] \in 1..Len(scopes) /\ scopes[catch_stack[k]] = "trying"
           /\ k <= catch_stack[k]
BY Lengths DEF IInv, CatchStackMirrorsScopes, EntriesBelow

LEMMA EntriesInOrder ==
    ASSUME IInv, NEW j \in 1..Len(catch_stack), NEW k \in 1..Len(catch_stack), j < k
    PROVE  catch_stack[j] < catch_stack[k]
BY Lengths DEF IInv, CatchStackMirrorsScopes

LEMMA TriedHasEntry ==
    ASSUME IInv, NEW i \in 1..Len(scopes), scopes[i] = "trying"
    PROVE  \E k \in 1..Len(catch_stack) : catch_stack[k] = i
BY Lengths DEF IInv, CatchStackMirrorsScopes

LEMMA CallAboveTried ==
    ASSUME IInv, NEW i \in 1..Len(scopes), scopes[i] = "trying", i # Len(scopes)
    PROVE  scopes[i + 1] = "call"
BY Lengths DEF IInv, OnlyCallsInTried

\* The parts of the invariant for n scopes s and c jmp_bufs t, by index.
Framed(s, n) ==
    /\ s \in Seq(Scope) /\ Len(s) = n /\ s[1] = "call"
    /\ \A i \in 1..n : s[i] = "trying" /\ i # n => s[i + 1] = "call"
Landing(s, n, t, c) == \A k \in 1..c : t[k] \in 1..n /\ s[t[k]] = "trying" /\ k <= t[k]
Ordered(t, c) == \A j, k \in 1..c : j < k => t[j] < t[k]
Covered(s, n, t, c) == \A i \in 1..n : s[i] = "trying" => \E k \in 1..c : t[k] = i

\* How the invariant is established for the next state, from those parts.
LEMMA NextShape ==
    ASSUME NEW n \in 1..MaxDepth, NEW c \in Nat,
           catch_stack' \in Seq(1..MaxDepth), Len(catch_stack') = c,
           status' \in {"running", "returned", "failed"},
           Framed(scopes', n), Landing(scopes', n, catch_stack', c),
           Ordered(catch_stack', c), Covered(scopes', n, catch_stack', c)
    PROVE  IInv'
<1> USE DEF Framed, Landing, Ordered, Covered
<1>1. DOMAIN scopes' = 1..n /\ DOMAIN catch_stack' = 1..c
  BY LenProperties
<1>2. TypeOK'
  <2>1. c <= n
    <3>1. CASE c = 0
      BY <3>1
    <3>2. CASE c # 0
      <4>1. c \in 1..c
        BY <3>2
      <4>2. c <= catch_stack'[c] /\ catch_stack'[c] \in 1..n
        BY <4>1
      <4>3. QED
        BY <4>2, MaxDepthAssumption
    <3>3. QED
      BY <3>1, <3>2
  <2>2. QED
    BY <2>1 DEF TypeOK
<1>3. OnlyCallsInTried'
  BY <1>1 DEF OnlyCallsInTried
<1>4. CatchStackMirrorsScopes'
  BY <1>1 DEF CatchStackMirrorsScopes
<1>5. EntriesBelow'
  BY <1>1 DEF EntriesBelow
<1>6. QED
  BY <1>2, <1>3, <1>4, <1>5 DEF IInv

\* A scope put on top of one that is not being tried; a tried one comes with its jmp_buf.
LEMMA PushScope ==
    ASSUME IInv, NEW x \in Scope, Len(scopes) < MaxDepth, x # "call" => Top # "trying",
           scopes' = Append(scopes, x), status' = status,
           catch_stack' = IF x = "trying" THEN Append(catch_stack, Len(scopes) + 1) ELSE catch_stack
    PROVE  IInv'
<1> DEFINE n == Len(scopes)
           c == Len(catch_stack)
           d == IF x = "trying" THEN c + 1 ELSE c
<1>1. n \in 1..MaxDepth /\ n + 1 \in 1..MaxDepth /\ n \in Nat /\ c \in Nat /\ d \in Nat
  BY Lengths, MaxDepthAssumption
<1>2. /\ scopes' \in Seq(Scope) /\ Len(scopes') = n + 1
      /\ scopes'[n + 1] = x /\ \A i \in 1..n : scopes'[i] = scopes[i]
  BY Lengths, AppendProperties
<1>3. /\ catch_stack' \in Seq(1..MaxDepth) /\ Len(catch_stack') = d
      /\ x = "trying" => catch_stack'[c + 1] = n + 1
      /\ \A k \in 1..c : catch_stack'[k] = catch_stack[k]
  <2>1. CASE x = "trying"
    <3>1. catch_stack' = Append(catch_stack, n + 1) /\ catch_stack \in Seq(1..MaxDepth)
      BY <2>1, Lengths
    <3> HIDE DEF n
    <3>2. QED
      BY <1>1, <2>1, <3>1, AppendProperties
  <2>2. CASE x # "trying"
    BY <2>2, Lengths
  <2>3. QED
    BY <2>1, <2>2
<1>4. status' \in {"running", "returned", "failed"}
  BY DEF IInv, TypeOK
<1>5. scopes'[1] = "call"
  BY <1>1, <1>2 DEF IInv, OnlyCallsInTried
<1>6. ASSUME NEW i \in 1..(n + 1), scopes'[i] = "trying", i # n + 1
      PROVE  scopes'[i + 1] = "call"
  <2>1. i \in 1..n /\ scopes[i] = "trying"
    BY <1>1, <1>2, <1>6
  <2>2. CASE i = n
    <3>1. x = "call"
      BY <2>1, <2>2 DEF Top
    <3>2. QED
      BY <1>2, <2>2, <3>1
  <2>3. CASE i # n
    <3>1. scopes[i + 1] = "call"
      BY <2>1, <2>3, CallAboveTried
    <3>2. i + 1 \in 1..n
      BY <1>1, <2>1, <2>3
    <3>3. QED
      BY <1>2, <3>1, <3>2
  <2>4. QED
    BY <2>2, <2>3
<1>7. ASSUME NEW k \in 1..d
      PROVE  /\ catch_stack'[k] \in 1..(n + 1) /\ scopes'[catch_stack'[k]] = "trying"
             /\ k <= catch_stack'[k]
  <2>1. CASE k \in 1..c
    <3>1. catch_stack[k] \in 1..n /\ scopes[catch_stack[k]] = "trying" /\ k <= catch_stack[k]
      BY <2>1, EntriesAreTried
    <3>2. QED
      BY <1>1, <1>2, <1>3, <2>1, <3>1
  <2>2. CASE k = c + 1 /\ x = "trying"
    <3>1. c <= n
      BY DEF IInv, TypeOK
    <3>2. QED
      BY <1>1, <1>2, <1>3, <2>2, <3>1
  <2>3. QED
    BY <1>1, <2>1, <2>2
<1>8. ASSUME NEW j \in 1..d, NEW k \in 1..d, j < k
      PROVE  catch_stack'[j] < catch_stack'[k]
  <2>1. j \in 1..c
    BY <1>1, <1>8
  <2>2. catch_stack'[j] = catch_stack[j] /\ catch_stack[j] \in 1..n
    BY <1>3, <2>1, EntriesAreTried
  <2>3. CASE k \in 1..c
    <3>1. catch_stack[j] < catch_stack[k]
      BY <1>8, <2>1, <2>3, EntriesInOrder
    <3>2. QED
      BY <1>3, <2>2, <2>3, <3>1
  <2>4. CASE k = c + 1 /\ x = "trying"
    BY <1>1, <1>3, <2>2, <2>4
  <2>5. QED
    BY <1>1, <2>3, <2>4
<1>9. ASSUME NEW i \in 1..(n + 1), scopes'[i] = "trying"
      PROVE  \E k \in 1..d : catch_stack'[k] = i
  <2>1. CASE i = n + 1
    <3>1. x = "trying" /\ c + 1 \in 1..d /\ catch_stack'[c + 1] = i
      BY <1>1, <1>2, <1>3, <1>9, <2>1
    <3>2. QED
      BY <3>1
  <2>2. CASE i \in 1..n
    <3>1. scopes[i] = "trying"
      BY <1>2, <1>9, <2>2
    <3>2. PICK k \in 1..c : catch_stack[k] = i
      BY <2>2, <3>1, TriedHasEntry
    <3>3. k \in 1..d /\ catch_stack'[k] = i
      BY <1>1, <1>3, <3>2
    <3>4. QED
      BY <3>3
  <2>3. QED
    BY <1>1, <2>1, <2>2
<1>10. Framed(scopes', n + 1)
  BY <1>2, <1>5, <1>6 DEF Framed
<1>11. Landing(scopes', n + 1, catch_stack', d)
  BY <1>7 DEF Landing
<1>12. Ordered(catch_stack', d)
  BY <1>8 DEF Ordered
<1>13. Covered(scopes', n + 1, catch_stack', d)
  BY <1>9 DEF Covered
<1>14. QED
  BY <1>1, <1>3, <1>4, <1>10, <1>11, <1>12, <1>13, NextShape

\* Discarding the scopes above n, none of which is being tried, discards no jmp_buf.
LEMMA DiscardScopes ==
    ASSUME IInv, NEW n \in 1..Len(scopes),
           \A i \in 1..Len(scopes) : i > n => scopes[i] # "trying",
           scopes' = SubSeq(scopes, 1, n), UNCHANGED <<catch_stack, status>>
    PROVE  IInv'
<1> DEFINE c == Len(catch_stack)
           p == SubSeq(scopes, 1, n)
<1>1. n \in 1..MaxDepth /\ n \in Nat /\ n <= Len(scopes) /\ Len(scopes) \in Nat /\ c \in Nat
  BY Lengths, MaxDepthAssumption
<1>2. \A i \in 1..n : scopes[i] \in Scope
  BY <1>1, Lengths, LenProperties
<1>3. /\ p \in Seq(Scope)
      /\ Len(p) = IF 1 <= n THEN n - 1 + 1 ELSE 0
      /\ \A i \in 1..(n - 1 + 1) : p[i] = scopes[1 + i - 1]
  BY <1>1, <1>2, SubSeqProperties
<1>4. scopes' = p
  OBVIOUS
<1> HIDE DEF p
<1>5. scopes' \in Seq(Scope) /\ Len(scopes') = n /\ \A i \in 1..n : scopes'[i] = scopes[i]
  BY <1>1, <1>3, <1>4
<1>6. /\ catch_stack' \in Seq(1..MaxDepth) /\ Len(catch_stack') = c
      /\ status' \in {"running", "returned", "failed"}
  BY DEF IInv, TypeOK
<1>7. scopes'[1] = "call"
  BY <1>1, <1>5 DEF IInv, OnlyCallsInTried
<1>8. ASSUME NEW i \in 1..n, scopes'[i] = "trying", i # n
      PROVE  scopes'[i + 1] = "call"
  <2>1. i \in 1..Len(scopes) /\ i # Len(scopes) /\ i + 1 \in 1..n /\ scopes[i] = "trying"
    BY <1>1, <1>5, <1>8
  <2>2. QED
    BY <1>5, <2>1, CallAboveTried
<1>9. ASSUME NEW k \in 1..c
      PROVE  /\ catch_stack'[k] \in 1..n /\ scopes'[catch_stack'[k]] = "trying"
             /\ k <= catch_stack'[k]
  <2>1. /\ catch_stack[k] \in 1..Len(scopes) /\ scopes[catch_stack[k]] = "trying"
        /\ k <= catch_stack[k]
    BY EntriesAreTried
  <2>2. catch_stack[k] \in 1..n
    BY <1>1, <2>1
  <2>3. QED
    BY <1>5, <2>1, <2>2
<1>10. ASSUME NEW j \in 1..c, NEW k \in 1..c, j < k
       PROVE  catch_stack'[j] < catch_stack'[k]
  BY <1>10, EntriesInOrder
<1>11. ASSUME NEW i \in 1..n, scopes'[i] = "trying"
       PROVE  \E k \in 1..c : catch_stack'[k] = i
  <2>1. i \in 1..Len(scopes) /\ scopes[i] = "trying"
    BY <1>1, <1>5, <1>11
  <2>2. QED
    BY <2>1, TriedHasEntry
<1>12. Framed(scopes', n)
  BY <1>5, <1>7, <1>8 DEF Framed
<1>13. Landing(scopes', n, catch_stack', c)
  BY <1>9 DEF Landing
<1>14. Ordered(catch_stack', c)
  BY <1>10 DEF Ordered
<1>15. Covered(scopes', n, catch_stack', c)
  BY <1>11 DEF Covered
<1> HIDE DEF c
<1>16. QED
  BY <1>1, <1>6, <1>12, <1>13, <1>14, <1>15, NextShape

\* Popping the top jmp_buf and resuming in its scope leaves the jmp_bufs of the scopes below.
LEMMA PopAndResume ==
    ASSUME IInv, catch_stack # << >>, NEW x \in {"body", "handler"},
           scopes' = Append(SubSeq(scopes, 1, catch_stack[Len(catch_stack)] - 1), x),
           catch_stack' = Popped(catch_stack), status' = status
    PROVE  IInv'
<1> DEFINE c == Len(catch_stack)
           n == catch_stack[c]
<1>1. c \in Nat /\ c # 0 /\ c \in 1..c /\ c - 1 \in Nat
  BY Lengths
<1>2. n \in 1..Len(scopes) /\ scopes[n] = "trying"
  BY <1>1, EntriesAreTried
<1>3. n \in 1..MaxDepth /\ n \in Nat /\ n <= Len(scopes) /\ Len(scopes) \in Nat
  BY <1>2, Lengths, MaxDepthAssumption
<1>4. ASSUME NEW k \in 1..(c - 1)
      PROVE  k \in 1..c /\ catch_stack[k] \in 1..(n - 1) /\ scopes[catch_stack[k]] = "trying"
  <2>1. k \in 1..c /\ k < c
    BY <1>1
  <2>2. catch_stack[k] < n
    BY <1>1, <2>1, EntriesInOrder
  <2>3. catch_stack[k] \in 1..Len(scopes) /\ scopes[catch_stack[k]] = "trying"
    BY <2>1, EntriesAreTried
  <2>4. QED
    BY <1>3, <2>1, <2>2, <2>3
<1>5. /\ catch_stack' \in Seq(1..MaxDepth) /\ Len(catch_stack') = c - 1
      /\ \A k \in 1..(c - 1) : catch_stack'[k] = catch_stack[k]
  BY Lengths, PoppedIs
<1>6. /\ scopes' \in Seq(Scope) /\ Len(scopes') = n
      /\ scopes'[n] = x /\ \A i \in 1..(n - 1) : scopes'[i] = scopes[i]
  <2>1. x \in Scope /\ scopes \in Seq(Scope)
    BY Lengths DEF Scope
  <2>2. scopes' = Cut(scopes, n, x)
    BY DEF Cut
  <2> HIDE DEF n
  <2>3. /\ Cut(scopes, n, x) \in Seq(Scope) /\ Len(Cut(scopes, n, x)) = n
        /\ Cut(scopes, n, x)[n] = x
        /\ \A i \in 1..(n - 1) : Cut(scopes, n, x)[i] = scopes[i]
    BY <1>2, <2>1, CutAt
  <2>4. QED
    BY <2>2, <2>3
<1>7. status' \in {"running", "returned", "failed"} /\ scopes[1] = "call"
  BY DEF IInv, TypeOK, OnlyCallsInTried
<1> HIDE DEF n
<1>8. n # 1 /\ scopes'[1] = "call"
  <2>1. n # 1
    BY <1>2, <1>7
  <2>2. QED
    BY <1>3, <1>6, <1>7, <2>1
<1>9. ASSUME NEW i \in 1..n, scopes'[i] = "trying"
      PROVE  i \in 1..(n - 1) /\ i \in 1..Len(scopes) /\ scopes[i] = "trying"
  <2>1. i # n
    BY <1>6, <1>9
  <2>2. i \in 1..(n - 1)
    BY <1>3, <2>1
  <2>3. QED
    BY <1>3, <1>6, <1>9, <2>2
<1>10. ASSUME NEW i \in 1..n, scopes'[i] = "trying", i # n
       PROVE  scopes'[i + 1] = "call"
  <2>1. i \in 1..(n - 1) /\ i \in 1..Len(scopes) /\ scopes[i] = "trying"
    BY <1>9, <1>10
  <2> i # Len(scopes)
    BY <1>3, <2>1
  <2>2. scopes[i + 1] = "call"
    BY <2>1, CallAboveTried
  <2>3. i + 1 # n
    BY <1>2, <2>2
  <2>4. i + 1 \in 1..(n - 1)
    BY <1>3, <2>1, <2>3
  <2>5. QED
    BY <1>6, <2>2, <2>4
<1>11. ASSUME NEW k \in 1..(c - 1)
       PROVE  /\ catch_stack'[k] \in 1..n /\ scopes'[catch_stack'[k]] = "trying"
              /\ k <= catch_stack'[k]
  <2>1. catch_stack[k] \in 1..(n - 1) /\ catch_stack'[k] = catch_stack[k]
        /\ scopes[catch_stack[k]] = "trying" /\ k <= catch_stack[k]
    BY <1>4, <1>5, EntriesAreTried
  <2>2. QED
    BY <1>3, <1>6, <2>1
<1>12. ASSUME NEW j \in 1..(c - 1), NEW k \in 1..(c - 1), j < k
       PROVE  catch_stack'[j] < catch_stack'[k]
  <2>1. catch_stack[j] < catch_stack[k]
    BY <1>4, <1>12, EntriesInOrder
  <2>2. QED
    BY <1>5, <2>1
<1>13. ASSUME NEW i \in 1..n, scopes'[i] = "trying"
       PROVE  \E k \in 1..(c - 1) : catch_stack'[k] = i
  <2>1. i \in 1..(n - 1) /\ i \in 1..Len(scopes) /\ scopes[i] = "trying"
    BY <1>9, <1>13
  <2>2. PICK k \in 1..c : catch_stack[k] = i
    BY <2>1, TriedHasEntry
  <2>3. k # c
    BY <1>3, <2>1, <2>2 DEF n
  <2>4. k \in 1..(c - 1)
    BY <1>1, <2>2, <2>3
  <2>5. QED
    BY <1>5, <2>2, <2>4
<1>14. Framed(scopes', n)
  BY <1>6, <1>8, <1>10 DEF Framed
<1>15. Landing(scopes', n, catch_stack', c - 1)
  BY <1>11 DEF Landing
<1>16. Ordered(catch_stack', c - 1)
  BY <1>12 DEF Ordered
<1>17. Covered(scopes', n, catch_stack', c - 1)
  BY <1>13 DEF Covered
<1> HIDE DEF c
<1>18. QED
  BY <1>1, <1>3, <1>5, <1>7, <1>14, <1>15, <1>16, <1>17, NextShape

\* The scope being tried at the top of the C stack owns the top jmp_buf.
LEMMA TopOwnsTop ==
    ASSUME IInv, Top = "trying"
    PROVE  catch_stack # << >> /\ catch_stack[Len(catch_stack)] = Len(scopes)
<1> DEFINE c == Len(catch_stack)
           n == Len(scopes)
<1>1. n \in 1..n /\ n \in Nat /\ c \in Nat /\ scopes[n] = "trying"
  BY Lengths DEF Top
<1>2. PICK k \in 1..c : catch_stack[k] = n
  BY <1>1, TriedHasEntry
<1>3. c # 0 /\ c \in 1..c
  BY <1>1, <1>2
<1>4. catch_stack # << >>
  BY <1>3, EmptySeq
<1>5. catch_stack[c] \in 1..n
  BY <1>3, EntriesAreTried
<1>6. CASE k < c
  <2>1. catch_stack[k] < catch_stack[c]
    BY <1>3, <1>6, EntriesInOrder
  <2>2. QED
    BY <1>1, <1>2, <1>5, <2>1
<1>7. QED
  BY <1>1, <1>2, <1>3, <1>4, <1>6

\* What a return discards is not being tried: the innermost function is the last call.
LEMMA NothingTriedAboveCall ==
    ASSUME IInv, Top # "trying", NEW f \in 1..Len(scopes), scopes[f] = "call",
           \A i \in 1..Len(scopes) : i > f => scopes[i] # "call"
    PROVE  \A i \in 1..Len(scopes) : i > f - 1 => scopes[i] # "trying"
<1>1. SUFFICES ASSUME NEW i \in 1..Len(scopes), i > f - 1, scopes[i] = "trying" PROVE FALSE
  OBVIOUS
<1>2. i # Len(scopes) /\ i # f /\ Len(scopes) \in Nat
  BY <1>1, Lengths DEF Top
<1>3. scopes[i + 1] = "call"
  BY <1>1, <1>2, CallAboveTried
<1>4. i + 1 \in 1..Len(scopes) /\ i + 1 > f
  BY <1>1, <1>2
<1>5. QED
  BY <1>3, <1>4
-----------------------------------------------------------------------------
(* The steps *)

LEMMA CallStep == ASSUME IInv, Call PROVE IInv'
BY PushScope DEF Call, Scope

LEMMA EnterTryStep == ASSUME IInv, EnterTry PROVE IInv'
<1>1. CASE UNCHANGED scopes /\ UNCHANGED catch_stack /\ status' = "failed"
  BY <1>1 DEF IInv, TypeOK, OnlyCallsInTried, CatchStackMirrorsScopes, EntriesBelow
<1>2. CASE scopes' = Append(scopes, "trying") /\ catch_stack' = Append(catch_stack, Len(scopes) + 1)
           /\ status' = status
  BY <1>2, PushScope DEF EnterTry, Scope
<1>3. QED
  BY <1>1, <1>2 DEF EnterTry

LEMMA ExprDoneStep == ASSUME IInv, ExprDone PROVE IInv'
<1>1. catch_stack # << >> /\ catch_stack[Len(catch_stack)] = Len(scopes)
  BY TopOwnsTop DEF ExprDone
<1>2. QED
  BY <1>1, PopAndResume DEF ExprDone, ResumesAt

LEMMA StatementDoneStep == ASSUME IInv, StatementDone PROVE IInv'
<1> DEFINE n == Len(scopes) - 1
<1>1. Len(scopes) \in Nat /\ 1 <= Len(scopes)
  BY Lengths
<1>2. scopes[Len(scopes)] # "trying" /\ Len(scopes) # 1
  BY DEF StatementDone, Top, IInv, OnlyCallsInTried
<1>3. n \in 1..Len(scopes) /\ \A i \in 1..Len(scopes) : i > n => scopes[i] # "trying"
  <2>1. n \in 1..Len(scopes)
    <3> DEFINE l == Len(scopes)
    <3>1. l \in Nat /\ 1 <= l /\ l # 1 /\ n = l - 1
      BY <1>1, <1>2
    <3> HIDE DEF l, n
    <3>2. n \in 1..l
      BY <3>1
    <3>3. QED
      BY <3>2 DEF l
  <2>2. ASSUME NEW i \in 1..Len(scopes), i > n PROVE i = Len(scopes)
    BY <1>1, <2>2
  <2>3. QED
    BY <1>2, <2>1, <2>2
<1>4. scopes' = SubSeq(scopes, 1, n) /\ UNCHANGED <<catch_stack, status>>
  BY DEF StatementDone, Popped
<1> HIDE DEF n
<1>5. QED
  BY <1>3, <1>4, DiscardScopes

LEMMA ReturnStep == ASSUME IInv, Return PROVE IInv'
<1>1. DOMAIN scopes = 1..Len(scopes) /\ Len(scopes) \in Nat
  BY Lengths
<1>2. PICK f \in 1..Len(scopes) :
        /\ scopes[f] = "call"
        /\ \A i \in 1..Len(scopes) : i > f => scopes[i] # "call"
        /\ IF f = 1 THEN status' = "returned" /\ UNCHANGED scopes
                    ELSE scopes' = SubSeq(scopes, 1, f - 1) /\ UNCHANGED status
  BY <1>1 DEF Return
<1>3. catch_stack' = catch_stack /\ Top # "trying"
  BY DEF Return
<1>4. CASE f = 1
  BY <1>2, <1>3, <1>4 DEF IInv, TypeOK, OnlyCallsInTried, CatchStackMirrorsScopes, EntriesBelow
<1>5. CASE f # 1
  <2> DEFINE n == f - 1
  <2>1. n \in 1..Len(scopes)
    BY <1>1, <1>2, <1>5
  <2>2. \A i \in 1..Len(scopes) : i > n => scopes[i] # "trying"
    BY <1>2, <1>3, NothingTriedAboveCall
  <2>3. scopes' = SubSeq(scopes, 1, n) /\ UNCHANGED <<catch_stack, status>>
    BY <1>2, <1>3, <1>5
  <2> HIDE DEF n
  <2>4. QED
    BY <2>1, <2>2, <2>3, DiscardScopes
<1>6. QED
  BY <1>4, <1>5

LEMMA ExitfStep == ASSUME IInv, Exitf PROVE IInv'
<1>1. CASE catch_stack # << >>
  BY <1>1, PopAndResume DEF Exitf, ResumesAt
<1>2. CASE catch_stack = << >>
  BY <1>2 DEF Exitf, IInv, TypeOK, OnlyCallsInTried, CatchStackMirrorsScopes, EntriesBelow
<1>3. QED
  BY <1>1, <1>2

LEMMA InitShape == Init => IInv
<1> SUFFICES ASSUME Init PROVE IInv
  OBVIOUS
<1>1. scopes \in Seq(Scope) /\ Len(scopes) = 1 /\ scopes[1] = "call" /\ DOMAIN scopes = {1}
  BY DEF Init, Scope
<1>2. catch_stack \in Seq(1..MaxDepth) /\ DOMAIN catch_stack = {}
  BY EmptySeq DEF Init
<1>3. QED
  BY <1>1, <1>2, MaxDepthAssumption
  DEF Init, IInv, TypeOK, OnlyCallsInTried, CatchStackMirrorsScopes, EntriesBelow

LEMMA NextKeepsShape == IInv /\ [Next]_vars => IInv'
<1> SUFFICES ASSUME IInv, [Next]_vars PROVE IInv'
  OBVIOUS
<1>1. CASE UNCHANGED vars
  BY <1>1 DEF vars, IInv, TypeOK, OnlyCallsInTried, CatchStackMirrorsScopes, EntriesBelow
<1>2. CASE Next
  BY <1>2, CallStep, EnterTryStep, ExprDoneStep, StatementDoneStep, ReturnStep, ExitfStep DEF Next
<1>3. QED
  BY <1>1, <1>2

LEMMA Invariance == Spec => []IInv
BY InitShape, NextKeepsShape, PTL DEF Spec

\* At every moment catch_stack is the scopes being tried, outermost first, for any nesting.
THEOREM CatchStackIsExact == Spec => [](TypeOK /\ CatchStackMirrorsScopes)
<1>1. IInv => TypeOK /\ CatchStackMirrorsScopes
  BY DEF IInv
<1>2. QED
  BY <1>1, Invariance, PTL
-----------------------------------------------------------------------------
(* Refinement *)

\* The top jmp_buf is the innermost scope being tried; there is none when the stack is empty.
LEMMA TopIsInnermost ==
    ASSUME IInv
    PROVE  /\ catch_stack = << >> => Exceptions!Trying = {}
           /\ catch_stack # << >> =>
                /\ catch_stack[Len(catch_stack)] \in Exceptions!Trying
                /\ \A i \in Exceptions!Trying : i <= catch_stack[Len(catch_stack)]
<1> DEFINE c == Len(catch_stack)
<1>1. c \in Nat /\ DOMAIN scopes = 1..Len(scopes) /\ Len(scopes) \in Nat
      /\ (catch_stack # << >> => c # 0)
  BY Lengths
<1>2. ASSUME NEW i \in Exceptions!Trying
      PROVE  \E k \in 1..c : catch_stack[k] = i
  BY <1>1, TriedHasEntry DEF Exceptions!Trying
<1>3. ASSUME catch_stack # << >>
      PROVE  catch_stack[c] \in Exceptions!Trying
  <2>1. c \in 1..c
    BY <1>1, <1>3
  <2>2. QED
    BY <1>1, <2>1, EntriesAreTried DEF Exceptions!Trying
<1>4. ASSUME catch_stack # << >>, NEW i \in Exceptions!Trying
      PROVE  i <= catch_stack[c]
  <2>1. PICK k \in 1..c : catch_stack[k] = i
    BY <1>2
  <2>2. c \in 1..c /\ catch_stack[c] \in 1..Len(scopes)
    BY <1>1, <1>4, EntriesAreTried
  <2>3. CASE k = c
    BY <2>1, <2>2, <2>3
  <2>4. CASE k < c
    <3>1. catch_stack[k] < catch_stack[c]
      BY <2>2, <2>4, EntriesInOrder
    <3>2. catch_stack[k] \in 1..Len(scopes)
      BY EntriesAreTried
    <3>3. QED
      BY <2>1, <2>2, <3>1, <3>2
  <2>5. QED
    BY <1>1, <2>1, <2>3, <2>4
<1>5. ASSUME catch_stack = << >>
      PROVE  Exceptions!Trying = {}
  <2>1. c = 0
    BY <1>5, EmptySeq
  <2>2. QED
    BY <1>2, <2>1
<1>6. QED
  BY <1>3, <1>4, <1>5

\* Every step of the macros is a step of the structured exceptions.
LEMMA StepRefines ==
    ASSUME IInv, Next
    PROVE  Exceptions!ExcNext
<1>1. CASE Call
  BY <1>1 DEF Call, Running, Exceptions!ExcNext, Exceptions!Call, Exceptions!Running
<1>2. CASE EnterTry
  BY <1>2 DEF EnterTry, Running, Top, Exceptions!ExcNext, Exceptions!Try, Exceptions!Abort,
              Exceptions!Running, Exceptions!Top
<1>3. CASE ExprDone
  BY <1>3 DEF ExprDone, Running, Top, ResumesAt, Exceptions!ExcNext, Exceptions!Tried,
              Exceptions!Running, Exceptions!Top, Exceptions!UnwindTo
<1>4. CASE StatementDone
  BY <1>4 DEF StatementDone, Running, Top, Popped, Exceptions!ExcNext, Exceptions!Leave,
              Exceptions!Running, Exceptions!Top
<1>5. CASE Return
  BY <1>5 DEF Return, Running, Top, Exceptions!ExcNext, Exceptions!Return,
              Exceptions!Running, Exceptions!Top
<1>6. CASE Exitf
  <2>1. CASE catch_stack = << >>
    BY <1>6, <2>1, TopIsInnermost DEF Exitf, Running, Exceptions!ExcNext, Exceptions!Raise,
                                      Exceptions!Running
  <2>2. CASE catch_stack # << >>
    <3> DEFINE i == catch_stack[Len(catch_stack)]
    <3>1. i \in Exceptions!Trying /\ \A j \in Exceptions!Trying : j <= i
      BY <2>2, TopIsInnermost
    <3>2. Exceptions!UnwindTo(i, "handler") /\ UNCHANGED status /\ Exceptions!Running
      BY <1>6, <2>2 DEF Exitf, ResumesAt, Running, Exceptions!UnwindTo, Exceptions!Running
    <3> HIDE DEF i
    <3>3. Exceptions!Raise
      BY <3>1, <3>2 DEF Exceptions!Raise
    <3>4. QED
      BY <3>3 DEF Exceptions!ExcNext
  <2>3. QED
    BY <2>1, <2>2
<1>7. QED
  BY <1>1, <1>2, <1>3, <1>4, <1>5, <1>6 DEF Next

\* setjmp, longjmp and a global stack implement structured exceptions, for any nesting.
THEOREM Refinement == Spec => ImplementsExceptions
<1>1. Init => Exceptions!Start
  BY DEF Init, Exceptions!Start
<1>2. IInv /\ [Next]_vars => [Exceptions!ExcNext]_(Exceptions!exc)
  <2>1. ASSUME UNCHANGED vars PROVE UNCHANGED Exceptions!exc
    BY <2>1 DEF vars, Exceptions!exc
  <2>2. QED
    BY <2>1, StepRefines
<1>3. QED
  BY <1>1, <1>2, Invariance, PTL DEF Spec, ImplementsExceptions, Exceptions!ExcSpec
=============================================================================
