------------------------------ MODULE FoldLemmas ------------------------------
(***************************************************************************)
(* Induction over natural numbers and sequences, stated of sets rather     *)
(* than of predicates, and what it says of folds and concatenations.       *)
(***************************************************************************)
EXTENDS FoldOver, SequenceTheorems, WellFoundedInduction, TLAPS

-----------------------------------------------------------------------------
(* Induction.                                                              *)

\* A set of natural numbers has a first.
LEMMA First ==
  ASSUME NEW T, T \subseteq Nat, T # {}
  PROVE  \E x \in T : \A y \in T : x <= y
<1> DEFINE R == {ss \in Nat \X Nat : ss[1] < ss[2]}
<1>1. IsWellFoundedOn(R, Nat)
  BY NatLessThanWellFounded DEF OpToRel
<1>2. \E x \in T : \A y \in T : ~ (<<y, x>> \in R)
  <2> HIDE DEF R
  <2> QED
    BY <1>1, WFMin
<1>3. PICK x \in T : \A y \in T : ~ (<<y, x>> \in R)
  BY <1>2
<1>4. ASSUME NEW y \in T PROVE x <= y
  <2>1. x \in Nat /\ y \in Nat /\ ~ (<<y, x>> \in R)
    BY <1>3
  <2>2. ~ (y < x)
    BY <2>1
  <2> QED
    BY <2>1, <2>2
<1> QED
  BY <1>3, <1>4

\* Induction up to a bound.
LEMMA UpTo ==
  ASSUME NEW n \in Nat, NEW S, 0 \in S, \A i \in 0 .. n - 1 : i \in S => i + 1 \in S
  PROVE  \A i \in 0 .. n : i \in S
<1> DEFINE T == {i \in 0 .. n : i \notin S}
<1> SUFFICES ASSUME T # {} PROVE FALSE
  OBVIOUS
<1>1. PICK x \in T : \A y \in T : x <= y
  <2> T \subseteq Nat
    OBVIOUS
  <2> HIDE DEF T
  <2> QED
    BY First
<1>2. x # 0 /\ x - 1 \in 0 .. n - 1 /\ x - 1 \notin T
  BY <1>1
<1> QED
  BY <1>1, <1>2

\* Induction over sequences, an element at a time at the end.
LEMMA SeqInduction ==
  ASSUME NEW C, NEW S, <<>> \in S,
         \A s \in Seq(C), c \in C : s \in S => Append(s, c) \in S
  PROVE  \A s \in Seq(C) : s \in S
<1> SUFFICES ASSUME NEW s \in Seq(C) PROVE s \in S
  OBVIOUS
<1> DEFINE n == Len(s)
           Front(i) == [j \in 1 .. i |-> s[j]]
           I == {i \in 0 .. n : Front(i) \in S}
<1>0. n \in Nat /\ s = Front(n)
  BY LenProperties
<1>1. 0 \in I
  <2>1. Front(0) = <<>>
    OBVIOUS
  <2> QED
    BY <1>0, <2>1
<1>2. ASSUME NEW i \in 0 .. n - 1, i \in I PROVE i + 1 \in I
  <2>1. s[i + 1] \in C /\ i + 1 \in 0 .. n /\ i \in Nat
    BY <1>0, ElementOfSeq
  <2>2. Front(i) \in Seq(C) /\ Len(Front(i)) = i
    BY <1>0, ElementOfSeq
  <2>3. Front(i + 1) = Append(Front(i), s[i + 1])
    BY <2>1, <2>2
  <2>4. Front(i) \in S
    BY <1>2
  <2>5. Append(Front(i), s[i + 1]) \in S
    <3> HIDE DEF Front
    <3> QED
      BY <2>1, <2>2, <2>4
  <2> QED
    BY <2>1, <2>3, <2>5
<1>3. n \in I
  <2> HIDE DEF I, n
  <2>1. \A i \in 0 .. n - 1 : i \in I => i + 1 \in I
    BY <1>2
  <2>2. n \in 0 .. n
    BY <1>0
  <2> QED
    BY <1>0, <1>1, <2>1, <2>2, UpTo
<1> QED
  BY <1>0, <1>3

-----------------------------------------------------------------------------
(* Folds.                                                                  *)

IsStep(step, T, C) == step \in [T -> [C -> T]]

\* What a fold is after each element.
IsRun(f, step, x, s) ==
  f = [i \in 0 .. Len(s) |-> IF i = 0 THEN x ELSE step[f[i - 1]][s[i]]]

\* A fold has a run over any sequence,
LEMMA RunExists ==
  ASSUME NEW T, NEW C, NEW step, IsStep(step, T, C), NEW x \in T, NEW s \in Seq(C)
  PROVE  \E f \in [0 .. Len(s) -> T] : IsRun(f, step, x, s)
<1> DEFINE n == Len(s)
           Part(m) == {f \in [0 .. m -> T] :
                         f[0] = x /\ \A i \in 1 .. m : f[i] = step[f[i - 1]][s[i]]}
           S == {m \in 0 .. n : Part(m) # {}}
<1>0. n \in Nat
  BY LenProperties
<1>1. 0 \in S
  <2>1. [i \in 0 .. 0 |-> x] \in Part(0)
    OBVIOUS
  <2> HIDE DEF Part
  <2> QED
    BY <1>0, <2>1
<1>2. ASSUME NEW m \in 0 .. n - 1, m \in S PROVE m + 1 \in S
  <2>1. PICK f \in Part(m) : TRUE
    BY <1>2
  <2> DEFINE g == [i \in 0 .. m + 1 |-> IF i = m + 1 THEN step[f[m]][s[m + 1]] ELSE f[i]]
  <2>2. m \in Nat /\ m + 1 \in 0 .. n
    BY <1>0
  <2>3. f \in [0 .. m -> T] /\ f[0] = x /\ \A i \in 1 .. m : f[i] = step[f[i - 1]][s[i]]
    BY <2>1
  <2>4. f[m] \in T /\ s[m + 1] \in C
    BY <1>0, <2>2, <2>3, ElementOfSeq
  <2>5. step[f[m]][s[m + 1]] \in T
    BY <2>4 DEF IsStep
  <2>6. g \in [0 .. m + 1 -> T]
    BY <2>2, <2>3, <2>5
  <2>7. g[0] = x
    BY <2>2, <2>3
  <2>8. ASSUME NEW i \in 1 .. m + 1 PROVE g[i] = step[g[i - 1]][s[i]]
    <3>1. g[i - 1] = f[i - 1]
      BY <2>2
    <3>2. CASE i = m + 1
      <4>1. i - 1 = m /\ g[i] = step[f[m]][s[m + 1]]
        BY <2>2, <3>2
      <4> QED
        BY <3>1, <3>2, <4>1
    <3>3. CASE i # m + 1
      <4>1. i \in 1 .. m /\ g[i] = f[i]
        BY <2>2, <3>3
      <4> QED
        BY <2>3, <3>1, <4>1
    <3> QED
      BY <3>2, <3>3
  <2>9. g \in Part(m + 1)
    <3> HIDE DEF g
    <3> QED
      BY <2>6, <2>7, <2>8
  <2> HIDE DEF Part, g
  <2> QED
    BY <2>2, <2>9
<1>3. n \in S
  <2> HIDE DEF S, n
  <2>1. \A m \in 0 .. n - 1 : m \in S => m + 1 \in S
    BY <1>2
  <2>2. n \in 0 .. n
    BY <1>0
  <2> QED
    BY <1>0, <1>1, <2>1, <2>2, UpTo
<1>4. PICK f \in Part(n) : TRUE
  BY <1>3
<1>5. f \in [0 .. n -> T] /\ f[0] = x /\ \A i \in 1 .. n : f[i] = step[f[i - 1]][s[i]]
  BY <1>4
<1>6. f = [i \in 0 .. n |-> IF i = 0 THEN x ELSE step[f[i - 1]][s[i]]]
  <2>1. ASSUME NEW i \in 0 .. n PROVE f[i] = IF i = 0 THEN x ELSE step[f[i - 1]][s[i]]
    BY <1>0, <1>5
  <2> QED
    BY <1>5, <2>1
<1> QED
  BY <1>5, <1>6 DEF IsRun

\* The same, as equations.
RunValues(f, step, x, s) ==
  /\ f[0] = x
  /\ \A i \in 1 .. Len(s) : f[i] = step[f[i - 1]][s[i]]

\* What the run is, element by element.
LEMMA RunHasValues ==
  ASSUME NEW step, NEW x, NEW s, Len(s) \in Nat, NEW f, IsRun(f, step, x, s)
  PROVE  RunValues(f, step, x, s)
<1>1. \A i \in 0 .. Len(s) : f[i] = IF i = 0 THEN x ELSE step[f[i - 1]][s[i]]
  BY DEF IsRun
<1> QED
  BY <1>1 DEF RunValues

\* and only one.
LEMMA RunIsOne ==
  ASSUME NEW step, NEW x, NEW s, Len(s) \in Nat, NEW f, NEW g, IsRun(f, step, x, s), IsRun(g, step, x, s)
  PROVE  f = g
<1> DEFINE n == Len(s)
           S == {i \in 0 .. n : f[i] = g[i]}
<1>0. n \in Nat
  OBVIOUS
<1>1. RunValues(f, step, x, s) /\ RunValues(g, step, x, s)
  BY RunHasValues
<1>2. 0 \in S
  BY <1>0, <1>1 DEF RunValues
<1>3. ASSUME NEW i \in 0 .. n - 1, i \in S PROVE i + 1 \in S
  <2>1. i + 1 \in 1 .. n /\ i + 1 \in 0 .. n /\ (i + 1) - 1 = i
    BY <1>0
  <2>2. f[i + 1] = step[f[i]][s[i + 1]]
    BY <1>1, <2>1 DEF RunValues
  <2>3. g[i + 1] = step[g[i]][s[i + 1]]
    BY <1>1, <2>1 DEF RunValues
  <2> QED
    BY <1>3, <2>1, <2>2, <2>3
<1>4. \A i \in 0 .. n : i \in S
  <2> HIDE DEF S, n
  <2>1. \A i \in 0 .. n - 1 : i \in S => i + 1 \in S
    BY <1>3
  <2> QED
    BY <1>0, <1>2, <2>1, UpTo
<1>5. f = [i \in 0 .. n |-> f[i]]
  BY DEF IsRun
<1>6. g = [i \in 0 .. n |-> g[i]]
  BY DEF IsRun
<1>7. \A i \in 0 .. n : f[i] = g[i]
  BY <1>4
<1> QED
  BY <1>5, <1>6, <1>7

\* The fold is the last value of its run.
LEMMA FoldIsRun ==
  ASSUME NEW step, NEW x, NEW s, Len(s) \in Nat, NEW f, IsRun(f, step, x, s)
  PROVE  FoldOver(step, x, s) = f[Len(s)]
<1> DEFINE h == CHOOSE h : IsRun(h, step, x, s)
<1>1. FoldOver(step, x, s) = h[Len(s)]
  BY DEF FoldOver, IsRun
<1>2. IsRun(h, step, x, s)
  OBVIOUS
<1>3. h = f
  <2> HIDE DEF h
  <2> QED
    BY <1>2, RunIsOne
<1> QED
  BY <1>1, <1>3

\* Folding over nothing,
LEMMA FoldOverEmpty ==
  ASSUME NEW step, NEW x
  PROVE  FoldOver(step, x, <<>>) = x
<1> DEFINE f == [i \in 0 .. 0 |-> x]
<1>1. IsRun(f, step, x, <<>>)
  BY DEF IsRun
<1>2. <<>> \in Seq({}) /\ f[Len(<<>>)] = x
  OBVIOUS
<1> QED
  BY <1>1, <1>2, FoldIsRun

\* and over one element more.
LEMMA FoldOverAppend ==
  ASSUME NEW T, NEW C, NEW step, IsStep(step, T, C), NEW x \in T, NEW s \in Seq(C), NEW c \in C
  PROVE  /\ FoldOver(step, x, s) \in T
         /\ FoldOver(step, x, Append(s, c)) = step[FoldOver(step, x, s)][c]
<1>1. PICK f \in [0 .. Len(s) -> T] : IsRun(f, step, x, s)
  BY RunExists
<1> DEFINE n == Len(s)
           t == Append(s, c)
           g == [i \in 0 .. n + 1 |-> IF i = n + 1 THEN step[f[n]][c] ELSE f[i]]
<1>2. /\ n \in Nat /\ t \in Seq(C) /\ Len(t) = n + 1 /\ t[n + 1] = c
      /\ \A i \in 1 .. n : t[i] = s[i]
  BY LenProperties, AppendProperties
<1>3. FoldOver(step, x, s) = f[n]
  BY <1>1, FoldIsRun
<1>4. f[0] = x /\ \A i \in 1 .. n : f[i] = step[f[i - 1]][s[i]]
  <2>1. RunValues(f, step, x, s)
    BY <1>1, <1>2, RunHasValues
  <2> QED
    BY <2>1 DEF RunValues
<1>5. IsRun(g, step, x, t)
  <2>1. ASSUME NEW i \in 0 .. n + 1 PROVE g[i] = IF i = 0 THEN x ELSE step[g[i - 1]][t[i]]
    <3>1. CASE i = 0
      <4>1. g[i] = f[0]
        BY <1>2, <3>1
      <4> QED
        BY <1>4, <3>1, <4>1
    <3>2. CASE i \in 1 .. n
      <4>1. g[i] = f[i] /\ g[i - 1] = f[i - 1] /\ t[i] = s[i] /\ i # 0
        BY <1>2, <3>2
      <4> QED
        BY <1>4, <3>2, <4>1
    <3>3. CASE i = n + 1
      <4>1. g[i] = step[f[n]][c] /\ g[i - 1] = f[n] /\ t[i] = c /\ i # 0
        BY <1>2, <3>3
      <4> QED
        BY <4>1
    <3> QED
      BY <1>2, <3>1, <3>2, <3>3
  <2>2. g = [i \in 0 .. n + 1 |-> IF i = 0 THEN x ELSE step[g[i - 1]][t[i]]]
    <3>1. g = [i \in 0 .. n + 1 |-> g[i]]
      OBVIOUS
    <3> HIDE DEF g, t
    <3> QED
      BY <2>1, <3>1
  <2> QED
    BY <1>2, <2>2 DEF IsRun
<1>6. FoldOver(step, x, t) = g[n + 1]
  <2> HIDE DEF g, t
  <2> QED
    BY <1>2, <1>5, FoldIsRun
<1>7. g[n + 1] = step[f[n]][c] /\ f[n] \in T
  BY <1>2
<1> QED
  <2> HIDE DEF g, n, t
  <2> QED
    BY <1>3, <1>6, <1>7 DEF t

\* A fold keeps its type.
LEMMA FoldOverType ==
  ASSUME NEW T, NEW C, NEW step, IsStep(step, T, C), NEW x \in T, NEW s \in Seq(C)
  PROVE  FoldOver(step, x, s) \in T
<1>1. PICK f \in [0 .. Len(s) -> T] : IsRun(f, step, x, s)
  BY RunExists
<1>2. FoldOver(step, x, s) = f[Len(s)]
  BY <1>1, FoldIsRun
<1>3. f[Len(s)] \in T
  BY LenProperties
<1> QED
  BY <1>2, <1>3

\* Folding over one element.
LEMMA FoldOverOne ==
  ASSUME NEW T, NEW C, NEW step, IsStep(step, T, C), NEW x \in T, NEW c \in C
  PROVE  FoldOver(step, x, <<c>>) = step[x][c]
<1>1. <<>> \in Seq(C) /\ <<c>> = Append(<<>>, c)
  OBVIOUS
<1> DEFINE e == <<>>
<1>2. FoldOver(step, x, Append(e, c)) = step[FoldOver(step, x, e)][c]
  <2>1. e \in Seq(C)
    BY <1>1
  <2> HIDE DEF e
  <2> QED
    BY <2>1, FoldOverAppend
<1>3. FoldOver(step, x, e) = x
  BY FoldOverEmpty
<1> QED
  BY <1>1, <1>2, <1>3

\* Folding over one sequence and then another.
LEMMA FoldOverConcat ==
  ASSUME NEW T, NEW C, NEW step, IsStep(step, T, C), NEW x \in T, NEW s \in Seq(C), NEW t \in Seq(C)
  PROVE  FoldOver(step, x, s \o t) = FoldOver(step, FoldOver(step, x, s), t)
<1> DEFINE y == FoldOver(step, x, s)
           S == {u \in Seq(C) : FoldOver(step, x, s \o u) = FoldOver(step, y, u)}
<1>0. y \in T
  BY FoldOverType
<1>1. <<>> \in S
  <2>1. s \o <<>> = s /\ <<>> \in Seq(C)
    BY ConcatEmptySeq
  <2>2. FoldOver(step, y, <<>>) = y
    BY FoldOverEmpty
  <2> QED
    BY <2>1, <2>2
<1>2. ASSUME NEW u \in Seq(C), NEW c \in C, u \in S PROVE Append(u, c) \in S
  <2>0. Append(u, c) \in Seq(C) /\ s \o u \in Seq(C)
    OBVIOUS
  <2>1. s \o Append(u, c) = Append(s \o u, c)
    OBVIOUS
  <2>2. FoldOver(step, x, Append(s \o u, c)) = step[FoldOver(step, x, s \o u)][c]
    <3> DEFINE r == s \o u
    <3>0. r \in Seq(C)
      BY <2>0
    <3>1. FoldOver(step, x, Append(r, c)) = step[FoldOver(step, x, r)][c]
      <4> HIDE DEF r
      <4> QED
        BY <3>0, FoldOverAppend
    <3> QED
      BY <3>1 DEF r
  <2>3. FoldOver(step, y, Append(u, c)) = step[FoldOver(step, y, u)][c]
    <3> HIDE DEF y
    <3> QED
      BY <1>0, FoldOverAppend
  <2>4. FoldOver(step, x, s \o u) = FoldOver(step, y, u)
    BY <1>2
  <2> QED
    <3> HIDE DEF y
    <3> QED
      BY <2>0, <2>1, <2>2, <2>3, <2>4
<1>3. t \in S
  <2> HIDE DEF S
  <2>1. \A u \in Seq(C), c \in C : u \in S => Append(u, c) \in S
    BY <1>2
  <2> QED
    BY <1>1, <2>1, SeqInduction
<1> QED
  BY <1>3
===============================================================================
