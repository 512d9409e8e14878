---------------------------- MODULE LoopTheorems ----------------------------
(***************************************************************************)
(* The loop rule for loops written as recursive functions,                 *)
(*   after[i \in 0..n] == IF i = 0 THEN First(p) ELSE Body(p, after[i-1], i) *)
(* A module instantiates it for each of its loops: what holds before the   *)
(* loop and is kept by every turn holds of the value after n turns.        *)
(* With it stand induction over the naturals and what appending does to a  *)
(* sequence without repetitions, which the loops need.                     *)
(***************************************************************************)
EXTENDS Integers, Sequences, FiniteSets, FiniteSetTheorems, TLAPS

CONSTANTS
  First(_),      \* the value before the loop
  Body(_, _, _), \* the value after turn i, from the value before it
  Inv(_, _, _)   \* what holds of the value after i turns

Value(p, n) ==
  LET after[i \in 0..n] == IF i = 0 THEN First(p) ELSE Body(p, after[i - 1], i)
  IN  after[n]

Solves(f, p, n) == f = [i \in 0..n |-> IF i = 0 THEN First(p) ELSE Body(p, f[i - 1], i)]

-----------------------------------------------------------------------------
\* A set that has 0 and the successor of each of its numbers has them all.
LEMMA SetInduction ==
  ASSUME NEW S, 0 \in S, \A n \in Nat : n \in S => n + 1 \in S
  PROVE  Nat \subseteq S
<1> SUFFICES ASSUME NEW m \in Nat, m \notin S PROVE FALSE
  OBVIOUS
<1> DEFINE T == {0..k : k \in (0..m) \ S}
           R == StrictSubsetOrdering(0..m)
<1>1. IsWellFoundedOn(R, FiniteSubsetsOf(0..m))
  BY FS_StrictSubsetOrderingWellFounded
<1>2. T \subseteq FiniteSubsetsOf(0..m)
  <2> SUFFICES ASSUME NEW k \in 0..m PROVE 0..k \in FiniteSubsetsOf(0..m)
    OBVIOUS
  <2>1. IsFiniteSet(0..k)
    BY FS_Interval
  <2> QED BY <2>1 DEF FiniteSubsetsOf
<1>3. T # {}
  OBVIOUS
<1>4. PICK x \in T : \A y \in T : ~ (<<y, x>> \in R)
  <2> HIDE DEF R, T
  <2> QED BY <1>1, <1>2, <1>3, WFMin
<1>5. PICK k \in (0..m) \ S : x = 0..k
  BY <1>4
<1>6. k # 0 /\ k-1 \in (0..m) /\ k - 1 \notin S
  OBVIOUS
<1>7. 0..(k-1) \in T
  BY <1>6
<1>8. <<0..(k-1), 0..k>> \in R
  BY <1>6 DEF StrictSubsetOrdering
<1> QED BY <1>4, <1>5, <1>7, <1>8

\* A nonempty set of numbers has a least one.
LEMMA LeastNumber ==
  ASSUME NEW S, NEW m \in Nat, m \in S
  PROVE  \E n \in Nat : n \in S /\ \A k \in Nat : k < n => k \notin S
<1> SUFFICES ASSUME \A n \in Nat : n \in S => \E k \in Nat : k < n /\ k \in S PROVE FALSE
  OBVIOUS
<1> DEFINE T == {n \in Nat : \A k \in Nat : k <= n => k \notin S}
<1>1. 0 \in T
  OBVIOUS
<1>2. \A n \in Nat : n \in T => n + 1 \in T
  OBVIOUS
<1>3. Nat \subseteq T
  <2> HIDE DEF T
  <2> QED BY <1>1, <1>2, SetInduction
<1> QED BY <1>3

\* The recursive definition of a loop has a solution.
LEMMA LoopIsDefined == ASSUME NEW p PROVE \A n \in Nat : \E f : Solves(f, p, n)
<1> DEFINE S == {n \in Nat : \E f : Solves(f, p, n)}
<1>1. 0 \in S
  <2>1. Solves([i \in 0..0 |-> First(p)], p, 0)
    BY DEF Solves
  <2> QED BY <2>1
<1>2. ASSUME NEW n \in Nat, n \in S PROVE n + 1 \in S
  <2>1. PICK f : Solves(f, p, n)
    BY <1>2
  <2> DEFINE g == [i \in 0..(n + 1) |-> IF i <= n THEN f[i] ELSE Body(p, f[n], n + 1)]
  <2>2. ASSUME NEW i \in 0..(n + 1)
        PROVE g[i] = IF i = 0 THEN First(p) ELSE Body(p, g[i - 1], i)
    <3>1. CASE i <= n
      BY <2>1, <3>1 DEF Solves
    <3>2. CASE i = n + 1
      BY <3>2
    <3> QED BY <3>1, <3>2
  <2>3. Solves(g, p, n + 1)
    BY <2>2 DEF Solves
  <2> QED BY <2>3
<1>3. Nat \subseteq S
  <2> HIDE DEF S
  <2> QED BY <1>1, <1>2, SetInduction
<1> QED BY <1>3

\* The loop rule.
THEOREM LoopRule ==
  ASSUME NEW p, NEW n \in Nat, Inv(p, First(p), 0),
         \A i \in 1..n : \A v : Inv(p, v, i - 1) => Inv(p, Body(p, v, i), i)
  PROVE  Inv(p, Value(p, n), n)
<1> DEFINE after == CHOOSE f : Solves(f, p, n)
<1>1. Solves(after, p, n)
  BY LoopIsDefined
<1>2. Value(p, n) = after[n]
  BY DEF Value, Solves
<1> HIDE DEF after
<1> DEFINE S == {i \in Nat : i <= n => Inv(p, after[i], i)}
<1>3. 0 \in S
  BY <1>1 DEF Solves
<1>4. ASSUME NEW i \in Nat, i \in S PROVE i + 1 \in S
  <2> SUFFICES ASSUME i + 1 <= n PROVE Inv(p, after[i + 1], i + 1)
    OBVIOUS
  <2>1. after[i + 1] = Body(p, after[i], i + 1)
    BY <1>1 DEF Solves
  <2>2. Inv(p, after[i], i)
    BY <1>4
  <2>3. i + 1 \in 1..n /\ (i + 1) - 1 = i
    OBVIOUS
  <2> QED BY <2>1, <2>2, <2>3
<1>5. n \in S
  <2> HIDE DEF S
  <2> QED BY <1>3, <1>4, SetInduction
<1> QED BY <1>5, <1>2

\* A solution for more turns is a solution for fewer.
LEMMA SolutionsAgree ==
  ASSUME NEW p, NEW n \in Nat, NEW m \in Nat, n <= m,
         NEW f, Solves(f, p, n), NEW g, Solves(g, p, m)
  PROVE  f[n] = g[n]
<1> DEFINE S == {i \in Nat : i <= n => f[i] = g[i]}
<1>1. 0 \in S
  BY DEF Solves
<1>2. ASSUME NEW i \in Nat, i \in S PROVE i + 1 \in S
  <2> SUFFICES ASSUME i + 1 <= n PROVE f[i + 1] = g[i + 1]
    OBVIOUS
  <2>1. f[i] = g[i]
    BY <1>2
  <2>2. f[i + 1] = Body(p, f[i], i + 1) /\ g[i + 1] = Body(p, g[i], i + 1)
    BY DEF Solves
  <2> QED BY <2>1, <2>2
<1>3. n \in S
  <2> HIDE DEF S
  <2> QED BY <1>1, <1>2, SetInduction
<1> QED BY <1>3

\* One more turn.
LEMMA LoopUnfolds ==
  ASSUME NEW p
  PROVE  /\ Value(p, 0) = First(p)
         /\ \A n \in Nat : Value(p, n + 1) = Body(p, Value(p, n), n + 1)
<1> DEFINE after(n) == CHOOSE f : Solves(f, p, n)
<1>1. ASSUME NEW n \in Nat PROVE Solves(after(n), p, n) /\ Value(p, n) = after(n)[n]
  <2>1. Solves(after(n), p, n)
    BY LoopIsDefined
  <2>2. Value(p, n) = after(n)[n]
    BY DEF Value, Solves
  <2> QED BY <2>1, <2>2
<1> HIDE DEF after
<1>2. Value(p, 0) = First(p)
  BY <1>1 DEF Solves
<1>3. ASSUME NEW n \in Nat PROVE Value(p, n + 1) = Body(p, Value(p, n), n + 1)
  <2>1. Solves(after(n), p, n) /\ Solves(after(n + 1), p, n + 1)
    BY <1>1
  <2>2. after(n)[n] = after(n + 1)[n]
    BY <2>1, SolutionsAgree
  <2>3. after(n + 1)[n + 1] = Body(p, after(n + 1)[n], n + 1)
    BY <2>1 DEF Solves
  <2> QED BY <1>1, <2>2, <2>3
<1> QED BY <1>2, <1>3

\* What a sequence without repetitions has when one more element is appended.
LEMMA AppendedOnce ==
  ASSUME NEW S, NEW v \in Seq(S), NEW x \in S, \A i, j \in DOMAIN v : v[i] = v[j] => i = j,
         \A i \in DOMAIN v : v[i] # x, NEW w, w = Append(v, x)
  PROVE  /\ w \in Seq(S)
         /\ \A i, j \in DOMAIN w : w[i] = w[j] => i = j
         /\ \A y : (\E i \in DOMAIN w : w[i] = y) <=> y = x \/ \E i \in DOMAIN v : v[i] = y
<1>1. w \in Seq(S) /\ DOMAIN w = 1..Len(v) + 1 /\ DOMAIN v = 1..Len(v) /\ Len(v) \in Nat
  OBVIOUS
<1>2. (\A i \in 1..Len(v) : w[i] = v[i]) /\ w[Len(v) + 1] = x
  OBVIOUS
<1>3. \A i, j \in DOMAIN w : w[i] = w[j] => i = j
  BY <1>1, <1>2
<1>4. \A y : (\E i \in DOMAIN w : w[i] = y) <=> y = x \/ \E i \in DOMAIN v : v[i] = y
  BY <1>1, <1>2
<1> QED
  BY <1>1, <1>3, <1>4
=============================================================================
