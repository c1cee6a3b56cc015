---------------------------- MODULE LeastNumber ----------------------------
(***************************************************************************)
(* Induction over the natural numbers in a form that names no operator: as *)
(* the least element of a set, and as a set closed under successor.  The   *)
(* recursive functions of the models are unfolded with it.                 *)
(***************************************************************************)
EXTENDS Naturals, FiniteSetTheorems, WellFoundedInduction, TLAPS

\* A set of natural numbers that is not empty has a least element.
LEMMA Least ==
  ASSUME NEW T \in SUBSET Nat, T # {}
  PROVE  \E x \in T : \A y \in T : x <= y
<1> DEFINE U == {0..t : t \in T}
<1>1. U \subseteq FiniteSubsetsOf(Nat)
  <2>1. \A t \in T : IsFiniteSet(0..t)
    BY FS_Interval
  <2> QED
    BY <2>1 DEF FiniteSubsetsOf
<1>2. U # {}
  OBVIOUS
<1>3. \E x \in U : \A y \in U : <<y, x>> \notin StrictSubsetOrdering(Nat)
  <2> HIDE DEF U
  <2> QED
    BY <1>1, <1>2, WFMin, FS_StrictSubsetOrderingWellFounded
<1>4. PICK t \in T : \A s \in T : <<0..s, 0..t>> \notin StrictSubsetOrdering(Nat)
  BY <1>3
<1>5. ASSUME NEW s \in T, s < t PROVE FALSE
  <2>1. 0..s \subseteq 0..t /\ 0..s # 0..t
    <3>1. t \in 0..t /\ t \notin 0..s
      BY <1>5
    <3>2. \A k \in 0..s : k \in 0..t
      BY <1>5
    <3> QED
      BY <3>1, <3>2
  <2>2. 0..s \in SUBSET Nat /\ 0..t \in SUBSET Nat
    OBVIOUS
  <2> QED
    BY <1>4, <2>1, <2>2 DEF StrictSubsetOrdering
<1> QED
  BY <1>5

\* What holds of 0 and of the successor of each number it holds of.
LEMMA Climb ==
  ASSUME NEW T \in SUBSET Nat, 0 \in T, \A n \in T : n + 1 \in T
  PROVE  T = Nat
<1>1. SUFFICES ASSUME Nat \ T # {} PROVE FALSE
  OBVIOUS
<1>2. PICK x \in Nat \ T : \A y \in Nat \ T : x <= y
  <2>1. Nat \ T \in SUBSET Nat
    OBVIOUS
  <2> QED
    BY <1>1, <2>1, Least
<1>3. x # 0 /\ x - 1 \in Nat /\ x - 1 + 1 = x /\ ~(x <= x - 1)
  <2>1. x # 0
    OBVIOUS
  <2> QED
    BY <2>1
<1>4. x - 1 \in T
  BY <1>2, <1>3
<1> QED
  BY <1>3, <1>4

\* A value for 0 and, for each further number k, one found from that of a smaller
\* number par[k]: the recursive functions of the models have these values.
Backwards(par, n) == \A k \in 1..n : par[k] \in 0..(k - 1)
Steps(step, n, C) == \A k \in 1..n, v \in C : step[<<k, v>>] \in C
Walked(g, par, base, step, n, C) ==
  /\ g \in [0..n -> C] /\ g[0] = base
  /\ \A k \in 1..n : g[k] = step[<<k, g[par[k]]>>]

LEMMA Walk ==
  ASSUME NEW n \in Nat, NEW par, NEW C, NEW base \in C, NEW step,
         Backwards(par, n), Steps(step, n, C)
  PROVE  \E g : Walked(g, par, base, step, n, C)
<1>0. /\ \A k \in 1..n : par[k] \in 0..(k - 1)
      /\ \A k \in 1..n, v \in C : step[<<k, v>>] \in C
  BY DEF Backwards, Steps
<1> DEFINE Upto(g, m) == /\ g \in [0..m -> C] /\ g[0] = base
                         /\ \A k \in 1..m : g[k] = step[<<k, g[par[k]]>>]
           T == {m \in Nat : m <= n => \E g : Upto(g, m)}
<1>1. 0 \in T
  <2>1. PICK g : g = [k \in 0..0 |-> base]
    OBVIOUS
  <2>2. Upto(g, 0)
    BY <2>1
  <2> QED
    BY <2>2
<1>2. ASSUME NEW m \in T PROVE m + 1 \in T
  <2>1. SUFFICES ASSUME m + 1 <= n PROVE \E g : Upto(g, m + 1)
    BY <1>2
  <2>2. m \in Nat /\ m <= n
    BY <2>1
  <2>3. PICK f : Upto(f, m)
    BY <2>2
  <2>4. PICK l \in Nat : l = m + 1 /\ l \in 1..n /\ par[l] \in 0..m
    BY <1>0, <2>1, <2>2
  <2>5. PICK w \in C : w = step[<<l, f[par[l]]>>]
    BY <1>0, <2>3, <2>4
  <2>6. PICK g : g = [k \in 0..l |-> IF k = l THEN w ELSE f[k]]
    OBVIOUS
  <2>7. g \in [0..l -> C] /\ g[l] = w /\ \A k \in 0..m : g[k] = f[k]
    BY <2>2, <2>3, <2>4, <2>5, <2>6
  <2>8. ASSUME NEW k \in 1..l PROVE g[k] = step[<<k, g[par[k]]>>]
    <3>1. CASE k = l
      BY <2>4, <2>5, <2>7, <3>1
    <3>2. CASE k # l
      <4>1. k \in 1..m /\ k \in 0..m
        BY <2>2, <2>4, <3>2
      <4>2. par[k] \in 0..m
        BY <1>0, <2>2, <4>1
      <4> QED
        BY <2>3, <2>7, <4>1, <4>2
    <3> QED
      BY <3>1, <3>2
  <2>9. g[0] = base
    <3>1. 0 \in 0..m
      BY <2>2
    <3> QED
      BY <2>3, <2>7, <3>1
  <2>10. Upto(g, l)
    BY <2>7, <2>8, <2>9
  <2> QED
    BY <2>4, <2>10
<1>3. T = Nat
  <2> HIDE DEF T
  <2>1. T \in SUBSET Nat
    BY DEF T
  <2> QED
    BY <1>1, <1>2, <2>1, Climb
<1>4. PICK g : Upto(g, n)
  BY <1>3
<1> QED
  BY <1>4 DEF Walked
=============================================================================
