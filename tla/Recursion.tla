----------------------------- MODULE Recursion -----------------------------
(***************************************************************************)
(* Induction over the natural numbers, for sets instead of operators, and  *)
(* what it gives for the recursive functions of the models: the function   *)
(* that follows a step from a first value exists, so that a definition of  *)
(* the form f[i \in 0 .. n] == IF i = 0 THEN a ELSE h(i, f[i - 1]) has     *)
(* the values its equations say.                                           *)
(***************************************************************************)
EXTENDS Integers, WellFoundedInduction, TLAPS

\* A set with 0 and with every successor has all numbers.
LEMMA Induction ==
  ASSUME NEW S, 0 \in S, \A n \in Nat : n \in S => n + 1 \in S
  PROVE  Nat \subseteq S
<1> DEFINE T == Nat \ S
           R == OpToRel(<, Nat)
<1>1. SUFFICES ASSUME T # {} PROVE FALSE
  OBVIOUS
<1>2. T \subseteq Nat /\ IsWellFoundedOn(R, Nat)
  BY NatLessThanWellFounded
<1>3. \A a, b \in Nat : a < b => <<a, b>> \in R
  BY DEF OpToRel
<1>. HIDE DEF T, R
<1>4. PICK x \in T : \A y \in T : ~(<<y, x>> \in R)
  BY <1>1, <1>2, WFMin, Zenon
<1>5. x \in Nat /\ x \notin S
  BY <1>4 DEF T
<1>6. x - 1 \in Nat
  BY <1>5
<1>7. <<x - 1, x>> \in R
  BY <1>3, <1>5, <1>6
<1>8. x - 1 \notin T
  BY <1>4, <1>7
<1>. QED  BY <1>5, <1>6, <1>8 DEF T

\* The same for the numbers up to n.
LEMMA UpTo ==
  ASSUME NEW n \in Nat, NEW S, 0 \in S, \A i \in 0 .. n - 1 : i \in S => i + 1 \in S
  PROVE  0 .. n \subseteq S
<1> DEFINE T == {i \in Nat : i <= n => i \in S}
<1>1. Nat \subseteq T
  <2>1. 0 \in T
    OBVIOUS
  <2>2. \A i \in Nat : i \in T => i + 1 \in T
    OBVIOUS
  <2>. HIDE DEF T
  <2>. QED  BY <2>1, <2>2, Induction
<1>. QED  BY <1>1

\* h is a step from the value at i - 1 to the value at i, and f follows it from a.
IsStep(h, n, V) == h \in [(1 .. n) \X V -> V]
Follows(f, n, V, a, h) == f \in [0 .. n -> V] /\ f[0] = a /\ \A i \in 1 .. n : f[i] = h[<<i, f[i - 1]>>]

\* Some function follows each step from each value.
LEMMA RecursionExists ==
  ASSUME NEW n \in Nat, NEW V, NEW a \in V, NEW h, IsStep(h, n, V)
  PROVE  \E f : Follows(f, n, V, a, h)
<1>. USE DEF IsStep, Follows
<1> DEFINE Good(m, f) == f \in [0 .. m -> V] /\ f[0] = a /\ \A i \in 1 .. m : f[i] = h[<<i, f[i - 1]>>]
           S == {m \in Nat : \E f : Good(m, f)}
<1>1. 0 \in S
  <2>1. Good(0, [i \in 0 .. 0 |-> a])
    OBVIOUS
  <2>. QED  BY <2>1
<1>2. ASSUME NEW m \in 0 .. n - 1, m \in S PROVE m + 1 \in S
  <2>1. PICK f : Good(m, f)
    BY <1>2
  <2> DEFINE g == [i \in 0 .. m + 1 |-> IF i = m + 1 THEN h[<<m + 1, f[m]>>] ELSE f[i]]
  <2>2. f[m] \in V /\ m + 1 \in 1 .. n
    BY <2>1
  <2>3. h[<<m + 1, f[m]>>] \in V
    BY <2>2
  <2>4. g \in [0 .. m + 1 -> V] /\ g[0] = a
    BY <2>1, <2>3
  <2>5. ASSUME NEW i \in 1 .. m + 1 PROVE g[i] = h[<<i, g[i - 1]>>]
    <3>0. m \in Nat /\ i - 1 \in 0 .. m + 1 /\ i - 1 # m + 1 /\ g[i - 1] = f[i - 1]
      OBVIOUS
    <3>1. CASE i = m + 1
      <4>1. g[i] = h[<<m + 1, f[m]>>] /\ i - 1 = m
        BY <3>1
      <4>. QED  BY <3>0, <3>1, <4>1
    <3>2. CASE i # m + 1
      <4>1. g[i] = f[i] /\ i \in 1 .. m
        BY <3>2
      <4>. QED  BY <2>1, <3>0, <4>1
    <3>. QED  BY <3>1, <3>2
  <2>6. Good(m + 1, g)
    BY <2>4, <2>5
  <2>7. m + 1 \in Nat
    OBVIOUS
  <2>. HIDE DEF g, Good
  <2>. QED  BY <2>6, <2>7
<1>. HIDE DEF S
<1>3. 0 .. n \subseteq S
  BY <1>1, <1>2, UpTo
<1>. QED  BY <1>3 DEF S
=============================================================================
