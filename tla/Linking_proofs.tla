--------------------------- MODULE Linking_proofs ---------------------------
(***************************************************************************)
(* From the compiler's tables to the objects of the running machine, for   *)
(* any programs whose parents come first.                                  *)
(***************************************************************************)
EXTENDS Classes_proofs

---------------------------------------------------------------------------
(* Lists.                                                                  *)

LEMMA RangeList ==
  ASSUME NEW s, IsSeq(s), NEW R, R = Range(s) PROVE s \in Seq(R)
<1>1. PICK S : s \in Seq(S)
  BY DEF IsSeq
<1>2. PICK n \in Nat : n = Len(s) /\ s \in [1..n -> S]
  BY <1>1, LenProperties
<1>3. n \in Nat /\ s \in [1..n -> R]
  BY <1>2 DEF Range
<1> QED
  BY <1>3, SeqDef

LEMMA IsSeqByLength ==
  ASSUME NEW n \in Nat, NEW s, s = [i \in 1..n |-> s[i]]
  PROVE  IsSeq(s) /\ Len(s) = n /\ DOMAIN s = 1..n
<1>1. s \in [1..n -> Range(s)]
  BY DEF Range
<1>2. s \in Seq(Range(s))
  BY <1>1, SeqDef
<1> QED
  BY <1>1, <1>2, LenProperties DEF IsSeq

LEMMA Joined ==
  ASSUME NEW s, IsSeq(s), NEW t, IsSeq(t)
  PROVE  /\ IsSeq(s \o t) /\ Len(s \o t) = Len(s) + Len(t)
         /\ \A i \in 1..Len(s) : (s \o t)[i] = s[i]
         /\ \A i \in 1..Len(t) : (s \o t)[Len(s) + i] = t[i]
<1>1. PICK S, T : s \in Seq(S) /\ t \in Seq(T)
  BY DEF IsSeq
<1>2. PICK U : U = S \cup T
  OBVIOUS
<1>3. s \in Seq(U) /\ t \in Seq(U)
  BY <1>1, <1>2, SeqMonotonic
<1>4. PICK m \in Nat, n \in Nat : m = Len(s) /\ n = Len(t)
  BY <1>1, LenProperties
<1>5. /\ s \o t \in Seq(U) /\ Len(s \o t) = m + n
      /\ \A i \in 1..(m + n) : (s \o t)[i] = IF i <= m THEN s[i] ELSE t[i - m]
  BY <1>3, <1>4, ConcatProperties
<1>6. \A i \in 1..m : (s \o t)[i] = s[i]
  BY <1>5
<1>7. ASSUME NEW i \in 1..n PROVE (s \o t)[m + i] = t[i]
  <2>1. m + i \in 1..(m + n) /\ ~(m + i <= m) /\ (m + i) - m = i
    BY <1>4
  <2> QED
    BY <1>5, <2>1
<1> QED
  BY <1>4, <1>5, <1>6, <1>7 DEF IsSeq

LEMMA Added ==
  ASSUME NEW s, IsSeq(s), NEW e
  PROVE  /\ IsSeq(Append(s, e)) /\ Len(Append(s, e)) = Len(s) + 1
         /\ \A i \in 1..Len(s) : Append(s, e)[i] = s[i]
         /\ Append(s, e)[Len(s) + 1] = e
<1>1. PICK S : s \in Seq(S)
  BY DEF IsSeq
<1>2. PICK U : U = S \cup {e}
  OBVIOUS
<1>3. s \in Seq(U) /\ e \in U
  BY <1>1, <1>2, SeqMonotonic
<1>4. PICK n \in Nat : n = Len(s)
  BY <1>1, LenProperties
<1> QED
  BY <1>3, <1>4, AppendProperties DEF IsSeq

\* Lists of lists, one behind the other in t: q[k] is where the k-th ends.
Ends(q, s, t, N) ==
  /\ q \in [0..N -> Nat]
  /\ q[0] = 0 /\ q[N] = Len(t)
  /\ \A k \in 1..N : q[k] = q[k - 1] + Len(s[k])
  /\ \A k \in 0..N : q[k] <= Len(t)
  /\ \A k \in 1..N : \A j \in 1..Len(s[k]) : t[q[k - 1] + j] = s[k][j]

LEMMA FlattenedAt ==
  ASSUME NEW s, IsSeq(s), \A k \in DOMAIN s : IsSeq(s[k]), NEW N, N = Len(s)
  PROVE  IsSeq(FlattenSeq(s)) /\ \E q : Ends(q, s, FlattenSeq(s), N)
<1>0. N \in Nat /\ DOMAIN s = 1..N
  BY SeqFacts
<1>1. PICK E : E = UNION {Range(s[k]) : k \in 1..N}
  OBVIOUS
<1>2. \A k \in 1..N : s[k] \in Seq(E)
  <2> SUFFICES ASSUME NEW k \in 1..N PROVE s[k] \in Seq(E)
    OBVIOUS
  <2>1. PICK t : t = s[k]
    OBVIOUS
  <2>2. IsSeq(t)
    BY <1>0, <2>1
  <2>3. PICK R : R = Range(t)
    OBVIOUS
  <2>4. t \in Seq(R)
    BY <2>2, <2>3, RangeList
  <2>6. R \subseteq E
    BY <1>1, <2>1, <2>3
  <2>5. t \in Seq(E)
    BY <2>4, <2>6, SeqMonotonic
  <2> QED
    BY <2>1, <2>5
<1>3. PICK C : C = Seq(E)
  OBVIOUS
<1>4. PICK step : step = [x \in (1..N) \X C |-> x[2] \o s[x[1]]]
  OBVIOUS
<1>5. \A k \in 1..N, v \in C : step[<<k, v>>] = v \o s[k]
  <2> SUFFICES ASSUME NEW k \in 1..N, NEW v \in C PROVE step[<<k, v>>] = v \o s[k]
    OBVIOUS
  <2>1. PICK x \in (1..N) \X C : x = <<k, v>>
    OBVIOUS
  <2>2. step[x] = x[2] \o s[x[1]] /\ x[1] = k /\ x[2] = v
    BY <1>4, <2>1
  <2> QED
    BY <2>1, <2>2
<1>51. \A k \in 1..N, v \in C : step[<<k, v>>] \in C
  <2> SUFFICES ASSUME NEW k \in 1..N, NEW v \in C PROVE step[<<k, v>>] \in C
    OBVIOUS
  <2>1. v \in Seq(E) /\ s[k] \in Seq(E)
    BY <1>2, <1>3
  <2>2. v \o s[k] \in Seq(E)
    BY <2>1, ConcatProperties
  <2>3. step[<<k, v>>] = v \o s[k]
    BY <1>5
  <2> QED
    BY <1>3, <2>2, <2>3
<1>6. PICK par : par = [k \in 1..N |-> k - 1]
  OBVIOUS
<1>7. \A k \in 1..N : par[k] = k - 1
  BY <1>6
<1>71. \A k \in 1..N : par[k] \in 0..(k - 1)
  BY <1>0, <1>7
<1>8. PICK e \in C : e = <<>>
  BY <1>3, EmptySeq
<1>9. PICK g \in [0..N -> C] :
        g[0] = e /\ \A k \in 1..N : g[k] = step[<<k, g[par[k]]>>]
  <2>1. Backwards(par, N) /\ Steps(step, N, C)
    BY <1>51, <1>71 DEF Backwards, Steps
  <2>2. PICK g : Walked(g, par, e, step, N, C)
    BY <1>0, <2>1, Walk
  <2> QED
    BY <2>2 DEF Walked
<1>10. \A k \in 1..N : k - 1 \in 0..N /\ g[k] = g[k - 1] \o s[k]
  <2> SUFFICES ASSUME NEW k \in 1..N PROVE k - 1 \in 0..N /\ g[k] = g[k - 1] \o s[k]
    OBVIOUS
  <2>1. k - 1 \in 0..N
    BY <1>0
  <2>2. PICK v \in C : v = g[k - 1]
    BY <1>9, <2>1
  <2> QED
    BY <1>5, <1>7, <1>9, <2>1, <2>2, Zenon
<1>11. FlattenSeq(s) = g[N]
  <2>1. CASE N = 0
    <3>1. s = <<>>
      BY <2>1, EmptySeq DEF IsSeq
    <3> QED
      BY <1>8, <1>9, <2>1, <3>1 DEF FlattenSeq
  <2>2. CASE N # 0
    <3>1. PICK f : f = [i \in 1..N |-> g[i]]
      OBVIOUS
    <3>2. ASSUME NEW i \in 1..N PROVE f[i] = IF i = 1 THEN s[i] ELSE f[i - 1] \o s[i]
      <4>1. CASE i = 1
        <5>1. g[1] = g[0] \o s[1] /\ s[1] \in Seq(E)
          <6>1. 1 \in 1..N /\ 1 - 1 = 0
            BY <4>1
          <6> QED
            BY <1>2, <1>10, <6>1
        <5>2. <<>> \o s[1] = s[1]
          BY <5>1, ConcatEmptySeq
        <5> QED
          BY <1>8, <1>9, <3>1, <4>1, <5>1, <5>2
      <4>2. CASE i # 1
        <5>1. i - 1 \in 1..N
          BY <1>0, <4>2
        <5> QED
          BY <1>10, <3>1, <4>2, <5>1
      <4> QED
        BY <4>1, <4>2
    <3>3. f = [i \in 1..N |-> IF i = 1 THEN s[i] ELSE f[i - 1] \o s[i]]
      BY <3>1, <3>2
    <3>4. PICK h : h = (CHOOSE ff : ff = [i \in 1..Len(s) |-> IF i = 1 THEN s[i] ELSE ff[i - 1] \o s[i]])
      OBVIOUS
    <3>5. h = [i \in 1..N |-> IF i = 1 THEN s[i] ELSE h[i - 1] \o s[i]]
      BY <3>3, <3>4
    <3>6. FlattenSeq(s) = h[N]
      BY <2>2, <3>4 DEF FlattenSeq
    <3> DEFINE T == {k \in Nat : k + 1 <= N => h[k + 1] = f[k + 1]}
    <3>7. 0 \in T
      BY <3>3, <3>5
    <3>8. ASSUME NEW k \in T PROVE k + 1 \in T
      <4>1. SUFFICES ASSUME (k + 1) + 1 <= N PROVE h[(k + 1) + 1] = f[(k + 1) + 1]
        OBVIOUS
      <4>2. PICK l \in 1..N : l = (k + 1) + 1 /\ l # 1 /\ l - 1 = k + 1 /\ k + 1 <= N
        BY <1>0, <4>1
      <4>3. h[l - 1] = f[l - 1]
        BY <4>2
      <4>4. h[l] = h[l - 1] \o s[l] /\ f[l] = f[l - 1] \o s[l]
        BY <3>2, <3>5, <4>2
      <4> QED
        BY <4>2, <4>3, <4>4
    <3>9. T = Nat
      <4> HIDE DEF T
      <4>1. T \in SUBSET Nat
        BY DEF T
      <4> QED
        BY <3>7, <3>8, <4>1, Climb
    <3>10. N - 1 \in Nat /\ (N - 1) + 1 = N /\ N \in 1..N
      BY <1>0, <2>2
    <3>11. N - 1 \in T
      BY <3>9, <3>10
    <3> QED
      BY <3>1, <3>6, <3>10, <3>11
  <2> QED
    BY <2>1, <2>2
<1>12. \A k \in 0..N : g[k] \in Seq(E) /\ Len(g[k]) \in Nat
  BY <1>3, <1>9, LenProperties
<1>13. \A k \in 1..N : /\ Len(s[k]) \in Nat /\ Len(g[k - 1]) \in Nat
                       /\ Len(g[k]) = Len(g[k - 1]) + Len(s[k])
                       /\ \A i \in 1..Len(g[k - 1]) : g[k][i] = g[k - 1][i]
                       /\ \A j \in 1..Len(s[k]) : g[k][Len(g[k - 1]) + j] = s[k][j]
  <2> SUFFICES ASSUME NEW k \in 1..N
               PROVE  /\ Len(s[k]) \in Nat /\ Len(g[k - 1]) \in Nat
                      /\ Len(g[k]) = Len(g[k - 1]) + Len(s[k])
                      /\ \A i \in 1..Len(g[k - 1]) : g[k][i] = g[k - 1][i]
                      /\ \A j \in 1..Len(s[k]) : g[k][Len(g[k - 1]) + j] = s[k][j]
    OBVIOUS
  <2>1. PICK a, b : a = g[k - 1] /\ b = s[k]
    OBVIOUS
  <2>2. IsSeq(a) /\ IsSeq(b) /\ Len(a) \in Nat /\ Len(b) \in Nat
    BY <1>2, <1>10, <1>12, <2>1, LenProperties DEF IsSeq
  <2>3. g[k] = a \o b
    BY <1>10, <2>1
  <2>4. /\ Len(a \o b) = Len(a) + Len(b)
        /\ \A i \in 1..Len(a) : (a \o b)[i] = a[i]
        /\ \A j \in 1..Len(b) : (a \o b)[Len(a) + j] = b[j]
    BY <2>2, Joined
  <2> QED
    BY <2>1, <2>2, <2>3, <2>4
<1> DEFINE Kept(k) == \A m \in 1..k :
                        /\ Len(g[m]) <= Len(g[k])
                        /\ \A j \in 1..Len(s[m]) : g[k][Len(g[m - 1]) + j] = s[m][j]
           U == {k \in Nat : k <= N => Kept(k)}
<1>14. 0 \in U
  OBVIOUS
<1>15. ASSUME NEW k \in U PROVE k + 1 \in U
  <2>1. SUFFICES ASSUME k + 1 <= N PROVE Kept(k + 1)
    BY <1>15
  <2>2. PICK l \in 1..N : l = k + 1 /\ l - 1 = k /\ k \in 0..N /\ k <= N
    BY <1>0, <1>15, <2>1
  <2>3. Kept(k)
    BY <1>15, <2>2
  <2>4. /\ Len(s[l]) \in Nat /\ Len(g[k]) \in Nat
        /\ Len(g[l]) = Len(g[k]) + Len(s[l])
        /\ \A i \in 1..Len(g[k]) : g[l][i] = g[k][i]
        /\ \A j \in 1..Len(s[l]) : g[l][Len(g[k]) + j] = s[l][j]
    <3>1. /\ Len(s[l]) \in Nat /\ Len(g[l - 1]) \in Nat
          /\ Len(g[l]) = Len(g[l - 1]) + Len(s[l])
          /\ \A i \in 1..Len(g[l - 1]) : g[l][i] = g[l - 1][i]
          /\ \A j \in 1..Len(s[l]) : g[l][Len(g[l - 1]) + j] = s[l][j]
      BY <1>13
    <3> QED
      BY <2>2, <3>1
  <2>5. ASSUME NEW m \in 1..l
        PROVE  /\ Len(g[m]) <= Len(g[l])
               /\ \A j \in 1..Len(s[m]) : g[l][Len(g[m - 1]) + j] = s[m][j]
    <3>1. CASE m = l
      BY <2>2, <2>4, <3>1
    <3>2. CASE m # l
      <4>1. m \in 1..k /\ m \in 1..N /\ m \in 0..N
        BY <2>2, <3>2
      <4>2. /\ Len(g[m]) <= Len(g[k]) /\ Len(g[m]) \in Nat
            /\ \A j \in 1..Len(s[m]) : g[k][Len(g[m - 1]) + j] = s[m][j]
        BY <1>12, <2>3, <4>1
      <4>3. /\ Len(s[m]) \in Nat /\ Len(g[m - 1]) \in Nat
            /\ Len(g[m]) = Len(g[m - 1]) + Len(s[m])
        BY <1>13, <4>1
      <4>4. ASSUME NEW j \in 1..Len(s[m]) PROVE g[l][Len(g[m - 1]) + j] = s[m][j]
        <5>1. PICK a \in Nat, b \in Nat, c \in Nat, d \in Nat :
                a = Len(g[m - 1]) /\ b = Len(s[m]) /\ c = Len(g[m]) /\ d = Len(g[k])
          BY <2>4, <4>2, <4>3
        <5>2. c <= d /\ c = a + b /\ j \in 1..b
          BY <4>2, <4>3, <5>1
        <5>3. a + j \in 1..d
          BY <5>2
        <5>4. Len(g[m - 1]) + j \in 1..Len(g[k])
          BY <5>1, <5>3
        <5>5. g[l][Len(g[m - 1]) + j] = g[k][Len(g[m - 1]) + j]
          BY <2>4, <5>4
        <5> QED
          BY <4>2, <5>5
      <4>5. PICK a \in Nat, b \in Nat, c \in Nat, d \in Nat :
              a = Len(g[m]) /\ b = Len(g[k]) /\ c = Len(g[l]) /\ d = Len(s[l])
        <5>1. Len(g[l]) \in Nat
          BY <1>12
        <5> QED
          BY <2>4, <4>2, <5>1
      <4>6. a <= b
        BY <4>2, <4>5
      <4>7. c = b + d
        BY <2>4, <4>5
      <4>8. a <= c
        BY <4>6, <4>7
      <4>9. Len(g[m]) <= Len(g[l])
        BY <4>5, <4>8
      <4> QED
        BY <4>4, <4>9
    <3> QED
      BY <3>1, <3>2
  <2> QED
    BY <2>2, <2>5
<1>16. U = Nat
  <2> HIDE DEF U
  <2>1. U \in SUBSET Nat
    BY DEF U
  <2> QED
    BY <1>14, <1>15, <2>1, Climb
<1>17. Kept(N)
  <2>1. N \in U
    <3> HIDE DEF U
    <3> QED
      BY <1>0, <1>16
  <2>2. N <= N
    BY <1>0
  <2> HIDE DEF Kept
  <2> QED
    BY <2>1, <2>2
<1>18. PICK q \in [0..N -> Nat] : q = [k \in 0..N |-> Len(g[k])]
  BY <1>12
<1>19. q[0] = 0 /\ q[N] = Len(g[N])
  <2>1. 0 \in 0..N /\ N \in 0..N /\ Len(<<>>) = 0
    BY <1>0, EmptySeq
  <2>2. g[0] = <<>>
    BY <1>8, <1>9
  <2> QED
    BY <1>18, <2>1, <2>2
<1>20. \A k \in 1..N : q[k] = q[k - 1] + Len(s[k]) /\ q[k - 1] = Len(g[k - 1])
  <2> SUFFICES ASSUME NEW k \in 1..N
               PROVE  q[k] = q[k - 1] + Len(s[k]) /\ q[k - 1] = Len(g[k - 1])
    OBVIOUS
  <2>1. k \in 0..N /\ k - 1 \in 0..N
    BY <1>0
  <2>2. q[k] = Len(g[k]) /\ q[k - 1] = Len(g[k - 1])
    BY <1>18, <2>1
  <2>3. Len(g[k]) = Len(g[k - 1]) + Len(s[k])
    BY <1>13
  <2> QED
    BY <2>2, <2>3
<1>21. IsSeq(g[N])
  BY <1>0, <1>12 DEF IsSeq
<1>22. \A k \in 1..N : \A j \in 1..Len(s[k]) : g[N][q[k - 1] + j] = s[k][j]
  BY <1>17, <1>20
<1>23. ASSUME NEW k \in 0..N PROVE q[k] <= q[N]
  <2>1. N \in 0..N /\ q[k] = Len(g[k]) /\ q[N] = Len(g[N])
    BY <1>0, <1>18
  <2>2. CASE k = 0
    BY <1>12, <1>19, <2>1, <2>2
  <2>3. CASE k # 0
    <3>1. k \in 1..N
      BY <1>0, <2>3
    <3> QED
      BY <1>17, <2>1, <3>1
  <2> QED
    BY <2>2, <2>3
<1> HIDE DEF Kept, U
<1>24. \A k \in 1..N : q[k] = q[k - 1] + Len(s[k])
  BY <1>20
<1>25. Ends(q, s, g[N], N)
  BY <1>18, <1>19, <1>22, <1>23, <1>24 DEF Ends
<1> QED
  BY <1>11, <1>21, <1>25

\* The list of the symbols of one kind holds each of them once, in their order.
Listing(e, r, syms, sc, n) ==
  /\ e \in [1..Len(r) -> {i \in 1..n : syms[i].sc = sc}]
  /\ \A j \in 1..Len(r) : r[j] = syms[e[j]]
  /\ \A j, l \in 1..Len(r) : e[j] = e[l] => j = l
  /\ \A i \in 1..n : syms[i].sc = sc => \E j \in 1..Len(r) : e[j] = i

LEMMA ListingStep ==
  ASSUME NEW syms, NEW sc, NEW k \in Nat, NEW r, IsSeq(r), NEW e, Listing(e, r, syms, sc, k),
         NEW t, t = IF syms[k + 1].sc = sc THEN Append(r, syms[k + 1]) ELSE r
  PROVE  \E f : Listing(f, t, syms, sc, k + 1)
<1>1. PICK m \in Nat : m = Len(r)
  BY SeqFacts
<1>2. /\ e \in [1..m -> {i \in 1..k : syms[i].sc = sc}]
      /\ \A j \in 1..m : r[j] = syms[e[j]]
      /\ \A j, l \in 1..m : e[j] = e[l] => j = l
      /\ \A i \in 1..k : syms[i].sc = sc => \E j \in 1..m : e[j] = i
  BY <1>1 DEF Listing
<1>3. \A j \in 1..m : e[j] \in 1..k /\ e[j] # k + 1 /\ syms[e[j]].sc = sc
  BY <1>2
<1>4. PICK n \in Nat : n = k + 1 /\ \A i \in 1..n : i = n \/ i \in 1..k
  OBVIOUS
<1>5. CASE syms[n].sc # sc
  <2>1. t = r
    BY <1>4, <1>5
  <2>2. \A i \in 1..n : syms[i].sc = sc => i \in 1..k
    BY <1>4, <1>5
  <2>3. e \in [1..m -> {i \in 1..n : syms[i].sc = sc}]
    BY <1>2, <1>4
  <2>4. \A i \in 1..n : syms[i].sc = sc => \E j \in 1..m : e[j] = i
    BY <1>2, <2>2
  <2>5. Listing(e, t, syms, sc, n)
    BY <1>1, <1>2, <2>1, <2>3, <2>4 DEF Listing
  <2> QED
    BY <1>4, <2>5
<1>6. CASE syms[n].sc = sc
  <2>1. t = Append(r, syms[n])
    BY <1>4, <1>6
  <2>2. Len(t) = m + 1 /\ (\A j \in 1..m : t[j] = r[j]) /\ t[m + 1] = syms[n]
    BY <1>1, <2>1, Added
  <2>3. PICK l \in Nat : l = m + 1 /\ (\A j \in 1..l : j = l \/ j \in 1..m) /\ l \in 1..l /\ l \notin 1..m
    OBVIOUS
  <2>4. PICK f : f = [j \in 1..l |-> IF j = l THEN n ELSE e[j]]
    OBVIOUS
  <2>5. f[l] = n /\ \A j \in 1..m : f[j] = e[j] /\ f[j] # n
    BY <1>3, <1>4, <2>3, <2>4
  <2>6. n \in 1..n /\ \A i \in 1..k : i \in 1..n
    BY <1>4
  <2>7. f \in [1..l -> {i \in 1..n : syms[i].sc = sc}]
    <3>1. \A j \in 1..l : f[j] \in 1..n /\ syms[f[j]].sc = sc
      BY <1>3, <1>6, <2>3, <2>5, <2>6
    <3> QED
      BY <2>4, <3>1
  <2>8. \A j \in 1..l : t[j] = syms[f[j]]
    BY <1>2, <2>2, <2>3, <2>5
  <2>9. \A j, i \in 1..l : f[j] = f[i] => j = i
    BY <1>2, <2>3, <2>5
  <2>10. \A i \in 1..n : syms[i].sc = sc => \E j \in 1..l : f[j] = i
    <3> SUFFICES ASSUME NEW i \in 1..n, syms[i].sc = sc PROVE \E j \in 1..l : f[j] = i
      OBVIOUS
    <3>1. CASE i = n
      BY <2>3, <2>5, <3>1
    <3>2. CASE i # n
      <4>1. PICK j \in 1..m : e[j] = i
        BY <1>2, <1>4, <3>2
      <4> QED
        BY <2>3, <2>5, <4>1
    <3> QED
      BY <3>1, <3>2
  <2>11. Len(t) = l
    BY <2>2, <2>3
  <2>12. Listing(f, t, syms, sc, n)
    BY <2>7, <2>8, <2>9, <2>10, <2>11 DEF Listing
  <2> QED
    BY <1>4, <2>12
<1> QED
  BY <1>5, <1>6

LEMMA DividedFacts ==
  ASSUME NEW syms, IsSeq(syms), NEW sc, NEW r, r = Divided(syms, sc)
  PROVE  IsSeq(r) /\ \E e : Listing(e, r, syms, sc, Len(syms))
<1>1. PICK n \in Nat : n = Len(syms) /\ DOMAIN syms = 1..n
  BY SeqFacts
<1>2. PICK S : S = Range(syms)
  OBVIOUS
<1>3. \A i \in 1..n : syms[i] \in S
  BY <1>1, <1>2 DEF Range
<1>4. PICK C : C = Seq(S)
  OBVIOUS
<1>5. PICK step : step = [x \in (1..n) \X C |->
                           IF syms[x[1]].sc = sc THEN Append(x[2], syms[x[1]]) ELSE x[2]]
  OBVIOUS
<1>6. ASSUME NEW k \in 1..n, NEW v \in C
      PROVE  /\ step[<<k, v>>] = IF syms[k].sc = sc THEN Append(v, syms[k]) ELSE v
             /\ step[<<k, v>>] \in C
  <2>1. PICK x \in (1..n) \X C : x = <<k, v>>
    OBVIOUS
  <2>2. /\ step[x] = IF syms[x[1]].sc = sc THEN Append(x[2], syms[x[1]]) ELSE x[2]
        /\ x[1] = k /\ x[2] = v
    BY <1>5, <2>1
  <2>3. Append(v, syms[k]) \in C
    BY <1>3, <1>4, AppendProperties
  <2> QED
    BY <2>1, <2>2, <2>3
<1>7. PICK par : par = [k \in 1..n |-> k - 1]
  OBVIOUS
<1>8. Backwards(par, n) /\ Steps(step, n, C)
  BY <1>6, <1>7 DEF Backwards, Steps
<1>9. PICK b \in C : b = <<>>
  BY <1>4, EmptySeq
<1>10. PICK g : Walked(g, par, b, step, n, C)
  BY <1>8, Walk
<1>11. \A k \in 0..n : g[k] \in Seq(S)
  BY <1>4, <1>10 DEF Walked
<1>12. g[0] = <<>>
  BY <1>9, <1>10 DEF Walked
<1>13. ASSUME NEW k \in 1..n
       PROVE  k - 1 \in 0..n /\ g[k] = IF syms[k].sc = sc THEN Append(g[k - 1], syms[k]) ELSE g[k - 1]
  <2>1. k - 1 \in 0..n
    OBVIOUS
  <2>2. g[k - 1] \in C /\ g[k] = step[<<k, g[k - 1]>>]
    BY <1>7, <1>10, <2>1 DEF Walked
  <2> QED
    BY <1>6, <2>1, <2>2
<1>14. \E h : h = [i \in 0..n |-> IF i = 0 THEN <<>>
                    ELSE IF syms[i].sc = sc THEN Append(h[i - 1], syms[i]) ELSE h[i - 1]]
  <2>1. ASSUME NEW i \in 0..n
        PROVE  g[i] = IF i = 0 THEN <<>>
                      ELSE IF syms[i].sc = sc THEN Append(g[i - 1], syms[i]) ELSE g[i - 1]
    BY <1>12, <1>13
  <2>2. g = [i \in 0..n |-> g[i]]
    BY <1>10 DEF Walked
  <2>3. g = [i \in 0..n |-> IF i = 0 THEN <<>>
                    ELSE IF syms[i].sc = sc THEN Append(g[i - 1], syms[i]) ELSE g[i - 1]]
    BY <2>1, <2>2
  <2> QED
    BY <2>3
<1>15. PICK h : h = CHOOSE ff : ff = [i \in 0..Len(syms) |-> IF i = 0 THEN <<>>
                    ELSE IF syms[i].sc = sc THEN Append(ff[i - 1], syms[i]) ELSE ff[i - 1]]
  OBVIOUS
<1>16. h = [i \in 0..n |-> IF i = 0 THEN <<>>
                    ELSE IF syms[i].sc = sc THEN Append(h[i - 1], syms[i]) ELSE h[i - 1]]
  BY <1>1, <1>14, <1>15
<1>17. r = h[n]
  BY <1>1, <1>15 DEF Divided
<1> DEFINE T == {k \in Nat : k <= n => h[k] \in Seq(S) /\ \E e : Listing(e, h[k], syms, sc, k)}
<1>18. 0 \in T
  <2>1. h[0] = <<>> /\ Len(<<>>) = 0 /\ <<>> \in Seq(S)
    BY <1>16, EmptySeq
  <2>2. PICK e : e = [j \in 1..0 |-> 0]
    OBVIOUS
  <2>3. Listing(e, <<>>, syms, sc, 0)
    BY <2>1, <2>2 DEF Listing
  <2> QED
    BY <2>1, <2>3
<1>19. ASSUME NEW k \in T PROVE k + 1 \in T
  <2>1. SUFFICES ASSUME k + 1 <= n
                 PROVE  h[k + 1] \in Seq(S) /\ \E e : Listing(e, h[k + 1], syms, sc, k + 1)
    BY <1>19
  <2>2. k \in Nat /\ k <= n /\ k + 1 \in 0..n /\ k + 1 \in 1..n /\ (k + 1) - 1 = k /\ k + 1 # 0
    BY <1>19, <2>1
  <2>3. PICK a, t : a = h[k] /\ t = h[k + 1]
    OBVIOUS
  <2>4. a \in Seq(S) /\ \E e : Listing(e, a, syms, sc, k)
    BY <1>19, <2>2, <2>3
  <2>5. t = IF syms[k + 1].sc = sc THEN Append(a, syms[k + 1]) ELSE a
    BY <1>16, <2>2, <2>3
  <2>6. Append(a, syms[k + 1]) \in Seq(S)
    BY <1>3, <2>2, <2>4, AppendProperties
  <2>7. IsSeq(a)
    BY <2>4 DEF IsSeq
  <2>8. \E e : Listing(e, t, syms, sc, k + 1)
    BY <2>2, <2>4, <2>5, <2>7, ListingStep
  <2> QED
    BY <2>3, <2>4, <2>5, <2>6, <2>8
<1>20. T = Nat
  <2> HIDE DEF T
  <2>1. T \in SUBSET Nat
    BY DEF T
  <2> QED
    BY <1>18, <1>19, <2>1, Climb
<1>21. h[n] \in Seq(S) /\ \E e : Listing(e, h[n], syms, sc, n)
  BY <1>20
<1> QED
  BY <1>1, <1>17, <1>21 DEF IsSeq

---------------------------------------------------------------------------
(* The file.                                                               *)

\* The tokens of w are those behind position o.
Written(f, o, w) == \A j \in 1..Len(w) : f[o + j] = w[j]

LEMMA WrittenJoined ==
  ASSUME NEW a, IsSeq(a), NEW b, IsSeq(b), NEW f, NEW o \in Nat, Written(f, o, a \o b)
  PROVE  Written(f, o, a) /\ Written(f, o + Len(a), b)
<1>1. PICK m \in Nat, n \in Nat : m = Len(a) /\ n = Len(b)
  BY SeqFacts
<1>2. /\ Len(a \o b) = m + n
      /\ \A i \in 1..m : (a \o b)[i] = a[i]
      /\ \A i \in 1..n : (a \o b)[m + i] = b[i]
  BY <1>1, Joined
<1>3. \A j \in 1..(m + n) : f[o + j] = (a \o b)[j]
  BY <1>1, <1>2 DEF Written
<1>4. ASSUME NEW i \in 1..m PROVE f[o + i] = a[i]
  <2>1. i \in 1..(m + n)
    BY <1>1
  <2> QED
    BY <1>2, <1>3, <2>1
<1>5. ASSUME NEW i \in 1..n PROVE f[(o + m) + i] = b[i]
  <2>1. m + i \in 1..(m + n) /\ o + (m + i) = (o + m) + i
    BY <1>1
  <2> QED
    BY <1>2, <1>3, <2>1
<1> QED
  BY <1>1, <1>4, <1>5 DEF Written

\* Lists of items of the same length.
LEMMA Multiples ==
  ASSUME NEW n \in Nat, NEW c \in Nat, NEW q \in [0..n -> Nat], q[0] = 0,
         \A k \in 1..n : q[k] = q[k - 1] + c
  PROVE  \A k \in 0..n : q[k] = c * k
<1> DEFINE T == {k \in Nat : k <= n => q[k] = c * k}
<1>1. 0 \in T
  OBVIOUS
<1>2. ASSUME NEW k \in T PROVE k + 1 \in T
  <2>1. SUFFICES ASSUME k + 1 <= n PROVE q[k + 1] = c * (k + 1)
    BY <1>2
  <2>2. k \in Nat /\ k <= n /\ k + 1 \in 1..n /\ (k + 1) - 1 = k
    BY <2>1
  <2>3. q[k + 1] = c * k + c
    BY <2>2
  <2>4. c * (k + 1) = c * k + c
    BY <2>2
  <2> QED
    BY <2>3, <2>4
<1>3. T = Nat
  <2> HIDE DEF T
  <2>1. T \in SUBSET Nat
    BY DEF T
  <2> QED
    BY <1>1, <1>2, <2>1, Climb
<1> QED
  <2> SUFFICES ASSUME NEW k \in 0..n PROVE q[k] = c * k
    OBVIOUS
  <2>1. k \in T
    <3> HIDE DEF T
    <3> QED
      BY <1>3
  <2> QED
    BY <2>1

\* w holds their number and then the items.
Itemized(w, item, n, c) ==
  /\ IsSeq(w) /\ w[1] = n /\ Len(w) = 1 + c * n
  /\ \A k \in 1..n : \A j \in 1..c : w[1 + (c * (k - 1) + j)] = item[k][j]

LEMMA Items ==
  ASSUME NEW n \in Nat, NEW item, NEW c \in Nat,
         \A i \in 1..n : IsSeq(item[i]) /\ Len(item[i]) = c,
         NEW w, w = <<n>> \o FlattenSeq([i \in 1..n |-> item[i]])
  PROVE  Itemized(w, item, n, c)
<1>1. PICK s : s = [i \in 1..n |-> item[i]]
  OBVIOUS
<1>2. s = [i \in 1..n |-> s[i]]
  BY <1>1
<1>3. IsSeq(s) /\ Len(s) = n /\ DOMAIN s = 1..n
  BY <1>2, IsSeqByLength
<1>4. \A k \in 1..n : s[k] = item[k] /\ IsSeq(s[k]) /\ Len(s[k]) = c
  BY <1>1
<1>5. PICK t : t = FlattenSeq(s)
  OBVIOUS
<1>6. IsSeq(t) /\ \E q : Ends(q, s, t, n)
  BY <1>3, <1>4, <1>5, FlattenedAt
<1>7. PICK q : Ends(q, s, t, n)
  BY <1>6
<1>8. PICK l \in Nat : l = Len(t)
  BY <1>6, SeqFacts
<1>9. /\ q \in [0..n -> Nat] /\ q[0] = 0 /\ q[n] = l
      /\ \A k \in 1..n : q[k] = q[k - 1] + c
      /\ \A k \in 0..n : q[k] <= l
      /\ \A k \in 1..n : \A j \in 1..c : t[q[k - 1] + j] = item[k][j]
  BY <1>4, <1>7, <1>8, ZenonT(30) DEF Ends
<1>10. \A k \in 0..n : q[k] = c * k
  BY <1>9, Multiples
<1>11. PICK u : u = <<n>>
  OBVIOUS
<1>12. IsSeq(u) /\ Len(u) = 1 /\ u[1] = n
  <2>1. u \in Seq(Nat) /\ Len(u) = 1 /\ u[1] = n
    BY <1>11
  <2> QED
    BY <2>1 DEF IsSeq
<1>13. w = u \o t
  BY <1>1, <1>5, <1>11
<1>14. /\ IsSeq(u \o t) /\ Len(u \o t) = 1 + l
       /\ \A i \in 1..1 : (u \o t)[i] = u[i]
       /\ \A i \in 1..l : (u \o t)[1 + i] = t[i]
  <2>1. /\ IsSeq(u \o t) /\ Len(u \o t) = Len(u) + Len(t)
        /\ \A i \in 1..Len(u) : (u \o t)[i] = u[i]
        /\ \A i \in 1..Len(t) : (u \o t)[Len(u) + i] = t[i]
    <3>1. IsSeq(u) /\ IsSeq(t)
      BY <1>6, <1>12
    <3> QED
      BY <3>1, Joined
  <2> QED
    BY <1>8, <1>12, <2>1
<1>15. w[1] = n
  BY <1>12, <1>13, <1>14
<1>16. Len(w) = 1 + c * n
  <2>1. n \in 0..n
    OBVIOUS
  <2> QED
    BY <1>9, <1>10, <1>13, <1>14, <2>1
<1>17. ASSUME NEW k \in 1..n, NEW j \in 1..c PROVE w[1 + (c * (k - 1) + j)] = item[k][j]
  <2>1. k \in 0..n /\ k - 1 \in 0..n
    OBVIOUS
  <2>2. PICK x \in Nat, y \in Nat : x = q[k - 1] /\ y = q[k]
    BY <1>9, <2>1
  <2>6. y = x + c /\ y <= l
    BY <1>9, <2>1, <2>2
  <2>3. x + j \in 1..l
    BY <1>8, <2>6
  <2>4. x = c * (k - 1)
    BY <1>10, <2>1, <2>2
  <2>5. t[x + j] = item[k][j]
    BY <1>9, <2>2
  <2> QED
    BY <1>13, <1>14, <2>3, <2>4, <2>5
<1> QED
  BY <1>13, <1>14, <1>15, <1>16, <1>17 DEF Itemized

\* The symbols as the loader stores them: in the order of the text again.
AsLoaded(r) ==
  [i \in 1..Len(r) |-> [name |-> r[Len(r) + 1 - i].ident, addr |-> r[Len(r) + 1 - i].addr,
                        const_ptr |-> r[Len(r) + 1 - i].const_ptr]]

LEMMA SymsListed ==
  ASSUME NEW r, IsSeq(r), NEW w, w = classout_prvektab_ll(r)
  PROVE  Itemized(w, [i \in 1..Len(r) |-> <<r[i].ident, r[i].addr, r[i].const_ptr>>], Len(r), 3)
<1>1. PICK n \in Nat : n = Len(r) /\ DOMAIN r = 1..n
  BY SeqFacts
<1>2. PICK item : item = [i \in 1..n |-> <<r[i].ident, r[i].addr, r[i].const_ptr>>]
  OBVIOUS
<1>3. ASSUME NEW i \in 1..n PROVE IsSeq(item[i]) /\ Len(item[i]) = 3
  <2>1. PICK a, b, c : item[i] = <<a, b, c>>
    BY <1>2
  <2>2. PICK S : S = {a, b, c}
    OBVIOUS
  <2>3. <<a, b, c>> \in Seq(S) /\ Len(<<a, b, c>>) = 3
    BY <2>2
  <2> QED
    BY <2>1, <2>3 DEF IsSeq
<1>4. item = [i \in 1..n |-> item[i]]
  BY <1>2
<1>5. w = <<n>> \o FlattenSeq([i \in 1..n |-> item[i]])
  BY <1>1, <1>2, <1>4 DEF classout_prvektab_ll
<1>6. 3 \in Nat
  OBVIOUS
<1>7. Itemized(w, item, n, 3)
  BY <1>3, <1>5, <1>6, Items
<1> QED
  BY <1>1, <1>2, <1>7

LEMMA SymsLoaded ==
  ASSUME NEW r, IsSeq(r), NEW w, w = classout_prvektab_ll(r),
         NEW o \in Nat, Written(file, o, w), NEW p, p = o + 1
  PROVE  kexe_load_syms(p).syms = AsLoaded(r) /\ kexe_load_syms(p).end = p + Len(w)
<1>1. PICK n \in Nat : n = Len(r)
  BY SeqFacts
<1>2. PICK item : item = [i \in 1..n |-> <<r[i].ident, r[i].addr, r[i].const_ptr>>]
  OBVIOUS
<1>3. /\ IsSeq(w) /\ w[1] = n /\ Len(w) = 1 + 3 * n
      /\ \A k \in 1..n : \A j \in 1..3 : w[1 + (3 * (k - 1) + j)] = item[k][j]
  <2>1. Itemized(w, item, n, 3)
    BY <1>1, <1>2, SymsListed
  <2> QED
    BY <2>1 DEF Itemized
<1>4. \A j \in 1..(1 + 3 * n) : file[o + j] = w[j]
  BY <1>3 DEF Written
<1>5. file[p] = n
  BY <1>3, <1>4
<1>6. ASSUME NEW i \in 1..n
      PROVE  /\ file[p + 1 + 3 * (n - i)] = r[n + 1 - i].ident
             /\ file[p + 2 + 3 * (n - i)] = r[n + 1 - i].addr
             /\ file[p + 3 + 3 * (n - i)] = r[n + 1 - i].const_ptr
  <2>1. PICK k \in 1..n : k = n + 1 - i
    OBVIOUS
  <2>2. item[k] = <<r[k].ident, r[k].addr, r[k].const_ptr>>
    BY <1>2
  <2>3. ASSUME NEW j \in 1..3 PROVE file[p + j + 3 * (n - i)] = item[k][j]
    <3>1. 1 + (3 * (k - 1) + j) \in 1..(1 + 3 * n)
      BY <2>1
    <3>2. p + j + 3 * (n - i) = o + (1 + (3 * (k - 1) + j))
      BY <2>1
    <3> QED
      BY <1>3, <1>4, <3>1, <3>2
  <2>4. 1 \in 1..3 /\ 2 \in 1..3 /\ 3 \in 1..3
    OBVIOUS
  <2>5. /\ file[p + 1 + 3 * (n - i)] = item[k][1]
        /\ file[p + 2 + 3 * (n - i)] = item[k][2]
        /\ file[p + 3 + 3 * (n - i)] = item[k][3]
    BY <2>3, <2>4
  <2> QED
    BY <2>1, <2>2, <2>5
<1>7. kexe_load_syms(p).syms =
        [i \in 1..n |-> [name |-> file[p + 1 + 3 * (n - i)], addr |-> file[p + 2 + 3 * (n - i)],
                         const_ptr |-> file[p + 3 + 3 * (n - i)]]]
  BY <1>5 DEF kexe_load_syms
<1>8. AsLoaded(r) =
        [i \in 1..n |-> [name |-> file[p + 1 + 3 * (n - i)], addr |-> file[p + 2 + 3 * (n - i)],
                         const_ptr |-> file[p + 3 + 3 * (n - i)]]]
  BY <1>1, <1>6 DEF AsLoaded
<1>9. kexe_load_syms(p).end = p + Len(w)
  <2>1. kexe_load_syms(p).end = p + 1 + 3 * n
    BY <1>5 DEF kexe_load_syms
  <2> QED
    BY <1>3, <2>1
<1> QED
  BY <1>7, <1>8, <1>9

LEMMA MethodListed ==
  ASSUME NEW me PROVE IsSeq(classout_method(me)) /\ Len(classout_method(me)) = 4
<1>1. PICK a, b, c, d : classout_method(me) = <<a, b, c, d>>
  BY DEF classout_method
<1>2. PICK S : S = {a, b, c, d}
  OBVIOUS
<1>3. <<a, b, c, d>> \in Seq(S) /\ Len(<<a, b, c, d>>) = 4
  BY <1>2
<1> QED
  BY <1>1, <1>3 DEF IsSeq

LEMMA MethodsLoaded ==
  ASSUME NEW ms, IsSeq(ms), NEW w, w = classout_methods(ms),
         NEW o \in Nat, Written(file, o, w), NEW p, p = o + 1
  PROVE  kexe_load_methods(p).end = p + Len(w)
<1>1. PICK n \in Nat : n = Len(ms) /\ DOMAIN ms = 1..n
  BY SeqFacts
<1>2. PICK item : item = [i \in 1..n |-> classout_method(ms[i])]
  OBVIOUS
<1>3. item = [i \in 1..n |-> item[i]] /\ \A i \in 1..n : IsSeq(item[i]) /\ Len(item[i]) = 4
  BY <1>2, MethodListed
<1>4. w = <<n>> \o FlattenSeq([i \in 1..n |-> item[i]])
  BY <1>1, <1>2, <1>3 DEF classout_methods
<1>5. 4 \in Nat
  OBVIOUS
<1>6. Itemized(w, item, n, 4)
  BY <1>3, <1>4, <1>5, Items
<1>7. w[1] = n /\ Len(w) = 1 + 4 * n
  BY <1>6 DEF Itemized
<1>8. file[p] = n
  BY <1>7 DEF Written
<1>9. kexe_load_methods(p).end = p + 1 + 4 * n
  BY <1>8 DEF kexe_load_methods
<1> QED
  BY <1>7, <1>9

LEMMA MethodsListed ==
  ASSUME NEW ms, IsSeq(ms) PROVE IsSeq(classout_methods(ms))
<1>1. PICK n \in Nat : n = Len(ms) /\ DOMAIN ms = 1..n
  BY SeqFacts
<1>2. PICK item : item = [i \in 1..n |-> classout_method(ms[i])]
  OBVIOUS
<1>3. item = [i \in 1..n |-> item[i]] /\ \A i \in 1..n : IsSeq(item[i]) /\ Len(item[i]) = 4
  BY <1>2, MethodListed
<1>4. PICK w : w = classout_methods(ms)
  OBVIOUS
<1>5. w = <<n>> \o FlattenSeq([i \in 1..n |-> item[i]])
  BY <1>1, <1>2, <1>3, <1>4 DEF classout_methods
<1>6. 4 \in Nat
  OBVIOUS
<1>7. Itemized(w, item, n, 4)
  BY <1>3, <1>5, <1>6, Items
<1> QED
  BY <1>4, <1>7 DEF Itemized

LEMMA OptionalListed ==
  ASSUME NEW me, NEW w, w = classout_optional(me)
  PROVE  /\ IsSeq(w)
         /\ me = NONE => w[1] = FALSE /\ Len(w) = 1
         /\ me # NONE => w[1] = TRUE /\ Len(w) = 5
<1>1. CASE me = NONE
  <2>1. w = <<FALSE>> /\ <<FALSE>> \in Seq({FALSE}) /\ Len(<<FALSE>>) = 1 /\ <<FALSE>>[1] = FALSE
    BY <1>1 DEF classout_optional
  <2> QED
    BY <1>1, <2>1 DEF IsSeq
<1>2. CASE me # NONE
  <2>1. PICK u, v : u = <<TRUE>> /\ v = classout_method(me) /\ w = u \o v
    BY <1>2 DEF classout_optional
  <2>2. u \in Seq({TRUE}) /\ Len(u) = 1 /\ u[1] = TRUE
    BY <2>1
  <2>3. IsSeq(u) /\ IsSeq(v) /\ Len(v) = 4
    BY <2>1, <2>2, MethodListed DEF IsSeq
  <2>4. /\ IsSeq(u \o v) /\ Len(u \o v) = Len(u) + Len(v)
        /\ \A i \in 1..Len(u) : (u \o v)[i] = u[i]
    BY <2>3, Joined, ZenonT(30)
  <2>5. Len(w) = 5
    BY <2>1, <2>2, <2>3, <2>4
  <2>6. 1 \in 1..Len(u)
    BY <2>2
  <2>7. w[1] = u[1]
    BY <2>1, <2>4, <2>6, Zenon
  <2>8. w[1] = TRUE
    BY <2>2, <2>7, Zenon
  <2> QED
    BY <1>2, <2>1, <2>4, <2>5, <2>8
<1> QED
  BY <1>1, <1>2

LEMMA OptionalLoaded ==
  ASSUME NEW me, NEW w, w = classout_optional(me),
         NEW o \in Nat, Written(file, o, w), NEW p, p = o + 1
  PROVE  Optional(p).end = p + Len(w)
<1>1. CASE me = NONE
  <2>1. w[1] = FALSE /\ Len(w) = 1
    BY <1>1, OptionalListed
  <2>2. file[p] = FALSE
    BY <2>1 DEF Written
  <2>3. Optional(p).end = p + 1
    BY <2>2 DEF Optional
  <2> QED
    BY <2>1, <2>3
<1>2. CASE me # NONE
  <2>1. w[1] = TRUE /\ Len(w) = 5
    BY <1>2, OptionalListed
  <2>2. file[p] = TRUE
    BY <2>1 DEF Written
  <2>3. Optional(p).end = p + 5
    BY <2>2 DEF Optional
  <2> QED
    BY <2>1, <2>3
<1> QED
  BY <1>1, <1>2

\* What the loader makes of a class of the compiler.  The methods are whatever
\* was read.
LoadedFrom(c, ce) ==
  /\ c = [name |-> c.name, parent_name |-> c.parent_name, parent |-> c.parent,
          native |-> c.native, syms_static |-> c.syms_static, syms_instance |-> c.syms_instance,
          static_init |-> c.static_init, constructor |-> c.constructor, methods |-> c.methods,
          total |-> c.total, offset |-> c.offset]
  /\ c.name = ce.className
  /\ c.parent_name = IF ce.parent # NONE THEN ce.parentName ELSE ""
  /\ c.syms_instance = AsLoaded(Divided(ce.syms, "SC_INSTANCE"))
  /\ c.native = FALSE

LEMMA Pair ==
  ASSUME NEW x, NEW y
  PROVE  IsSeq(<<x, y>>) /\ Len(<<x, y>>) = 2 /\ <<x, y>>[1] = x /\ <<x, y>>[2] = y
<1>1. PICK S : S = {x, y}
  OBVIOUS
<1>2. <<x, y>> \in Seq(S)
  BY <1>1
<1> QED
  BY <1>2 DEF IsSeq

LEMMA ClassListed ==
  ASSUME NEW ce, IsSeq(ce.syms), IsSeq(ce.methods) PROVE IsSeq(classout_class(ce))
<1>1. PICK rs, ri : rs = Divided(ce.syms, "SC_CLASS") /\ ri = Divided(ce.syms, "SC_INSTANCE")
  OBVIOUS
<1>2. IsSeq(rs) /\ IsSeq(ri)
  BY <1>1, DividedFacts
<1>3. PICK h, a, b, c, d, e :
        /\ h = <<ce.className, IF ce.parent # NONE THEN ce.parentName ELSE "">>
        /\ a = classout_prvektab_ll(rs) /\ b = classout_prvektab_ll(ri)
        /\ c = classout_optional(ce.static_init) /\ d = classout_optional(ce.constructor)
        /\ e = classout_methods(ce.methods)
  OBVIOUS
<1>4. IsSeq(a) /\ IsSeq(b)
  BY <1>2, <1>3, SymsListed DEF Itemized
<1>5. IsSeq(c) /\ IsSeq(d)
  BY <1>3, OptionalListed
<1>6. IsSeq(h) /\ IsSeq(e)
  BY <1>3, Pair, MethodsListed
<1>7. IsSeq(h \o a \o b \o c \o d \o e)
  BY <1>4, <1>5, <1>6, Joined
<1> QED
  BY <1>1, <1>3, <1>7 DEF classout_class

LEMMA ClassLoaded ==
  ASSUME NEW ce, IsSeq(ce.syms), IsSeq(ce.methods), NEW w, w = classout_class(ce),
         NEW o \in Nat, Written(file, o, w), NEW p, p = o + 1
  PROVE  /\ IsSeq(w) /\ kexe_load_class(p).end = p + Len(w)
         /\ LoadedFrom(kexe_load_class(p).class, ce)
<1>1. PICK rs, ri : rs = Divided(ce.syms, "SC_CLASS") /\ ri = Divided(ce.syms, "SC_INSTANCE")
  OBVIOUS
<1>2. IsSeq(rs) /\ IsSeq(ri)
  BY <1>1, DividedFacts
<1>3. PICK h, a, b, c, d, e :
        /\ h = <<ce.className, IF ce.parent # NONE THEN ce.parentName ELSE "">>
        /\ a = classout_prvektab_ll(rs) /\ b = classout_prvektab_ll(ri)
        /\ c = classout_optional(ce.static_init) /\ d = classout_optional(ce.constructor)
        /\ e = classout_methods(ce.methods)
  OBVIOUS
<1>4. w = h \o a \o b \o c \o d \o e
  BY <1>1, <1>3 DEF classout_class
<1>5. IsSeq(h) /\ Len(h) = 2
  BY <1>3, Pair
<1>50. h[1] = ce.className /\ h[2] = IF ce.parent # NONE THEN ce.parentName ELSE ""
  BY <1>3, Pair
<1>6. IsSeq(a) /\ IsSeq(b)
  BY <1>2, <1>3, SymsListed DEF Itemized
<1>7. IsSeq(c) /\ IsSeq(d)
  BY <1>3, OptionalListed
<1>8. IsSeq(e)
  BY <1>3, MethodsListed
<1>9. PICK w1, w2, w3, w4 : w1 = h \o a /\ w2 = w1 \o b /\ w3 = w2 \o c /\ w4 = w3 \o d
  OBVIOUS
<1>10. w = w4 \o e
  BY <1>4, <1>9
<1>11. IsSeq(w1) /\ Len(w1) = Len(h) + Len(a)
  BY <1>5, <1>6, <1>9, Joined
<1>12. IsSeq(w2) /\ Len(w2) = Len(w1) + Len(b)
  BY <1>11, <1>6, <1>9, Joined
<1>13. IsSeq(w3) /\ Len(w3) = Len(w2) + Len(c)
  BY <1>12, <1>7, <1>9, Joined
<1>14. IsSeq(w4) /\ Len(w4) = Len(w3) + Len(d)
  BY <1>13, <1>7, <1>9, Joined
<1>15. IsSeq(w) /\ Len(w) = Len(w4) + Len(e)
  <2>1. IsSeq(w4 \o e) /\ Len(w4 \o e) = Len(w4) + Len(e)
    <3>1. IsSeq(w4) /\ IsSeq(e)
      BY <1>14, <1>8
    <3> QED
      BY <3>1, Joined
  <2> QED
    BY <1>10, <2>1
<1>16. PICK la \in Nat, lb \in Nat, lc \in Nat, ld \in Nat, le \in Nat :
         la = Len(a) /\ lb = Len(b) /\ lc = Len(c) /\ ld = Len(d) /\ le = Len(e)
  <2>1. Len(a) \in Nat /\ Len(b) \in Nat
    BY <1>6, SeqFacts
  <2>2. Len(c) \in Nat /\ Len(d) \in Nat
    BY <1>7, SeqFacts
  <2>3. Len(e) \in Nat
    BY <1>8, SeqFacts
  <2> QED
    BY <2>1, <2>2, <2>3, Zenon
<1>17. /\ Len(w1) = 2 + la /\ Len(w2) = 2 + la + lb /\ Len(w3) = 2 + la + lb + lc
       /\ Len(w4) = 2 + la + lb + lc + ld /\ Len(w) = 2 + la + lb + lc + ld + le
  BY <1>5, <1>11, <1>12, <1>13, <1>14, <1>15, <1>16
<1>18. Written(file, o, w4) /\ Written(file, o + Len(w4), e)
  <2>1. Written(file, o, w4 \o e)
    BY <1>10
  <2> QED
    BY <1>8, <1>14, <2>1, WrittenJoined
<1>19. Written(file, o, w3) /\ Written(file, o + Len(w3), d)
  <2>1. Written(file, o, w3 \o d)
    BY <1>9, <1>18
  <2> QED
    BY <1>7, <1>13, <2>1, WrittenJoined
<1>20. Written(file, o, w2) /\ Written(file, o + Len(w2), c)
  <2>1. Written(file, o, w2 \o c)
    BY <1>9, <1>19
  <2> QED
    BY <1>7, <1>12, <2>1, WrittenJoined
<1>21. Written(file, o, w1) /\ Written(file, o + Len(w1), b)
  <2>1. Written(file, o, w1 \o b)
    BY <1>9, <1>20
  <2> QED
    BY <1>6, <1>11, <2>1, WrittenJoined
<1>22. Written(file, o, h) /\ Written(file, o + Len(h), a)
  <2>1. Written(file, o, h \o a)
    BY <1>9, <1>21
  <2> QED
    BY <1>5, <1>6, <2>1, WrittenJoined
<1>23. file[p] = h[1] /\ file[p + 1] = h[2]
  <2>0. 1 \in 1..Len(h) /\ 2 \in 1..Len(h)
    BY <1>5
  <2>1. file[o + 1] = h[1] /\ file[o + 2] = h[2]
    BY <2>0, <1>22 DEF Written
  <2>2. p + 1 = o + 2
    OBVIOUS
  <2> QED
    BY <2>1, <2>2
<1>24. PICK pa, pb, pc, pd, pe :
         /\ pa = p + 2 /\ pb = pa + la /\ pc = pb + lb /\ pd = pc + lc /\ pe = pd + ld
  OBVIOUS
<1> p \in Nat /\ pa \in Nat /\ pb \in Nat /\ pc \in Nat /\ pd \in Nat /\ pe \in Nat
  BY <1>24
<1>25. kexe_load_syms(pa).end = pb
  <2>1. PICK oa \in Nat : oa = o + Len(h) /\ pa = oa + 1
    <3>1. o + Len(h) \in Nat /\ pa = (o + Len(h)) + 1
      BY <1>5, <1>17, <1>24
    <3> QED
      BY <3>1
  <2>2. Written(file, oa, a)
    BY <1>22, <2>1
  <2>3. kexe_load_syms(pa).end = pa + Len(a)
    BY <1>2, <1>3, <2>1, <2>2, SymsLoaded, ZenonT(30)
  <2> QED
    BY <1>16, <1>24, <2>3
<1>26. kexe_load_syms(pb).end = pc /\ kexe_load_syms(pb).syms = AsLoaded(ri)
  <2>1. PICK ob \in Nat : ob = o + Len(w1) /\ pb = ob + 1
    <3>1. o + Len(w1) \in Nat /\ pb = (o + Len(w1)) + 1
      BY <1>5, <1>17, <1>24
    <3> QED
      BY <3>1
  <2>2. Written(file, ob, b)
    BY <1>21, <2>1
  <2>3. kexe_load_syms(pb).syms = AsLoaded(ri) /\ kexe_load_syms(pb).end = pb + Len(b)
    BY <1>2, <1>3, <2>1, <2>2, SymsLoaded, ZenonT(30)
  <2> QED
    BY <1>16, <1>24, <2>3
<1>27. Optional(pc).end = pd
  <2>1. PICK oc \in Nat : oc = o + Len(w2) /\ pc = oc + 1
    <3>1. o + Len(w2) \in Nat /\ pc = (o + Len(w2)) + 1
      BY <1>5, <1>17, <1>24
    <3> QED
      BY <3>1
  <2>2. Written(file, oc, c)
    BY <1>20, <2>1
  <2>3. Optional(pc).end = pc + Len(c)
    BY <1>3, <2>1, <2>2, OptionalLoaded
  <2> QED
    BY <1>16, <1>24, <2>3
<1>28. Optional(pd).end = pe
  <2>1. PICK od \in Nat : od = o + Len(w3) /\ pd = od + 1
    <3>1. o + Len(w3) \in Nat /\ pd = (o + Len(w3)) + 1
      BY <1>5, <1>17, <1>24
    <3> QED
      BY <3>1
  <2>2. Written(file, od, d)
    BY <1>19, <2>1
  <2>3. Optional(pd).end = pd + Len(d)
    BY <1>3, <2>1, <2>2, OptionalLoaded
  <2> QED
    BY <1>16, <1>24, <2>3
<1>29. kexe_load_methods(pe).end = p + Len(w)
  <2>1. PICK oe \in Nat : oe = o + Len(w4) /\ pe = oe + 1
    <3>1. o + Len(w4) \in Nat /\ pe = (o + Len(w4)) + 1
      BY <1>5, <1>17, <1>24
    <3> QED
      BY <3>1
  <2>2. Written(file, oe, e)
    BY <1>18, <2>1
  <2>3. kexe_load_methods(pe).end = pe + Len(e)
    BY <1>3, <2>1, <2>2, MethodsLoaded
  <2> QED
    BY <1>16, <1>17, <1>24, <2>3
<1>30. PICK sb, ms, i, k : /\ sb = kexe_load_syms(pa).syms /\ ms = kexe_load_methods(pe).methods
                           /\ i = Optional(pc).method /\ k = Optional(pd).method
  OBVIOUS
<1>31. kexe_load_class(p) =
         [class |-> [name |-> file[p], parent_name |-> file[p + 1], parent |-> 0, native |-> FALSE,
                     syms_static |-> sb, syms_instance |-> AsLoaded(ri),
                     static_init |-> i, constructor |-> k,
                     methods |-> ms, total |-> -1, offset |-> -1],
          end |-> p + Len(w)]
  <2>1. PICK a2, b2, c2, d2, e2 : /\ a2 = kexe_load_syms(p + 2) /\ b2 = kexe_load_syms(a2.end)
                                  /\ c2 = Optional(b2.end) /\ d2 = Optional(c2.end)
                                  /\ e2 = kexe_load_methods(d2.end)
    OBVIOUS
  <2>2. kexe_load_class(p) =
         [class |-> [name |-> file[p], parent_name |-> file[p + 1], parent |-> 0, native |-> FALSE,
                     syms_static |-> a2.syms, syms_instance |-> b2.syms,
                     static_init |-> c2.method, constructor |-> d2.method,
                     methods |-> e2.methods, total |-> -1, offset |-> -1],
          end |-> e2.end]
    BY <2>1, Zenon DEF kexe_load_class
  <2>3. p + 2 = pa
    BY <1>24
  <2>4. a2 = kexe_load_syms(pa)
    BY <2>1, <2>3, Zenon
  <2>5. b2 = kexe_load_syms(pb)
    BY <2>1, <2>4, <1>25, Zenon
  <2>6. c2 = Optional(pc)
    BY <2>1, <2>5, <1>26, Zenon
  <2>7. d2 = Optional(pd)
    BY <2>1, <2>6, <1>27, Zenon
  <2>8. e2 = kexe_load_methods(pe)
    BY <2>1, <2>7, <1>28, Zenon
  <2>9. e2.end = p + Len(w)
    BY <2>8, <1>29, Zenon
  <2>10. a2.syms = sb /\ b2.syms = AsLoaded(ri) /\ c2.method = i /\ d2.method = k /\ e2.methods = ms
    BY <1>26, <1>30, <2>4, <2>5, <2>6, <2>7, <2>8, Zenon
  <2> QED
    BY <2>2, <2>9, <2>10, Zenon
<1>32. LoadedFrom(kexe_load_class(p).class, ce)
  <2>1. PICK x, y, z, u : /\ x = file[p] /\ y = file[p + 1] /\ z = AsLoaded(ri)
                          /\ u = kexe_load_class(p).class
    OBVIOUS
  <2>2. u = [name |-> x, parent_name |-> y, parent |-> 0, native |-> FALSE,
             syms_static |-> sb, syms_instance |-> z, static_init |-> i, constructor |-> k,
             methods |-> ms, total |-> -1, offset |-> -1]
    BY <1>31, <2>1
  <2>3. u.name = x /\ u.parent_name = y /\ u.syms_instance = z /\ u.native = FALSE
    BY <2>2
  <2>4. u = [name |-> u.name, parent_name |-> u.parent_name, parent |-> u.parent,
             native |-> u.native, syms_static |-> u.syms_static, syms_instance |-> u.syms_instance,
             static_init |-> u.static_init, constructor |-> u.constructor, methods |-> u.methods,
             total |-> u.total, offset |-> u.offset]
    BY <2>2
  <2>5. x = ce.className /\ y = (IF ce.parent # NONE THEN ce.parentName ELSE "")
    BY <1>50, <1>23, <2>1
  <2>6. z = AsLoaded(Divided(ce.syms, "SC_INSTANCE"))
    BY <1>1, <2>1
  <2>7. LoadedFrom(u, ce)
    BY <2>3, <2>4, <2>5, <2>6 DEF LoadedFrom
  <2> QED
    BY <2>1, <2>7
<1> QED
  BY <1>15, <1>31, <1>32

LEMMA ListGrown ==
  ASSUME NEW n \in Nat, NEW f, NEW s, s = [i \in 1..n |-> f[i]],
         NEW t, t = [i \in 1..(n + 1) |-> f[i]]
  PROVE  Append(s, f[n + 1]) = t
<1>1. s = [i \in 1..n |-> s[i]] /\ t = [i \in 1..(n + 1) |-> t[i]]
  OBVIOUS
<1>2. PICK e : e = f[n + 1]
  OBVIOUS
<1>3. IsSeq(s) /\ Len(s) = n
  BY <1>1, IsSeqByLength
<1>4. PICK a : a = Append(s, e)
  OBVIOUS
<1>5. /\ IsSeq(a) /\ Len(a) = n + 1
      /\ \A i \in 1..n : a[i] = s[i]
      /\ a[n + 1] = e
  BY <1>3, <1>4, Added
<1>6. ASSUME NEW i \in 1..(n + 1) PROVE a[i] = t[i]
  <2>1. CASE i = n + 1
    BY <1>2, <1>5, <2>1
  <2>2. CASE i # n + 1
    <3>1. i \in 1..n
      BY <2>2
    <3> QED
      BY <1>5, <3>1
  <2> QED
    BY <2>1, <2>2
<1>7. PICK S : a \in Seq(S)
  BY <1>5 DEF IsSeq
<1>8. a \in [1..(n + 1) -> S]
  BY <1>5, <1>7, LenProperties
<1>9. a = [i \in 1..(n + 1) |-> a[i]]
  BY <1>8
<1>10. a = t
  BY <1>1, <1>6, <1>9
<1> QED
  BY <1>2, <1>4, <1>10

\* A file that holds the classes ces, a constant table and code.
FileOf(f, ces, n, ct, cd) ==
  /\ \A i \in 1..n : IsSeq(ces[i].syms) /\ IsSeq(ces[i].methods)
  /\ f = <<KEK_MAGIC, n>> \o FlattenSeq([i \in 1..n |-> classout_class(ces[i])]) \o <<ct, cd>>

\* Class k lies behind place q[k - 1] of it.
Places(q, f, ces, n, ct, cd) ==
  /\ q \in [0..n -> Nat] /\ q[0] = 2 /\ f[2] = n
  /\ \A k \in 1..n : /\ q[k] = q[k - 1] + Len(classout_class(ces[k]))
                     /\ Written(f, q[k - 1], classout_class(ces[k]))
  /\ f[q[n] + 1] = ct /\ f[q[n] + 2] = cd

LEMMA Layout ==
  ASSUME NEW n \in Nat, NEW ces, NEW ct, NEW cd, FileOf(file, ces, n, ct, cd)
  PROVE  \E q : Places(q, file, ces, n, ct, cd)
<1>0. /\ \A i \in 1..n : IsSeq(ces[i].syms) /\ IsSeq(ces[i].methods)
      /\ file = <<KEK_MAGIC, n>> \o FlattenSeq([i \in 1..n |-> classout_class(ces[i])]) \o <<ct, cd>>
  BY DEF FileOf
<1>1. PICK s : s = [i \in 1..n |-> classout_class(ces[i])]
  OBVIOUS
<1>2. IsSeq(s) /\ Len(s) = n /\ DOMAIN s = 1..n
  <2>1. s = [i \in 1..n |-> s[i]]
    BY <1>1
  <2> QED
    BY <2>1, IsSeqByLength
<1>3. \A k \in 1..n : IsSeq(s[k])
  BY <1>0, <1>1, ClassListed
<1>4. PICK t : t = FlattenSeq(s)
  OBVIOUS
<1>5. IsSeq(t) /\ \E e : Ends(e, s, t, n)
  BY <1>2, <1>3, <1>4, FlattenedAt
<1>6. PICK e : Ends(e, s, t, n)
  BY <1>5
<1>7. PICK l \in Nat : l = Len(t)
  BY <1>5, SeqFacts
<1>8. /\ e \in [0..n -> Nat] /\ e[0] = 0 /\ e[n] = l
      /\ \A k \in 1..n : e[k] = e[k - 1] + Len(s[k])
      /\ \A k \in 0..n : e[k] <= l
      /\ \A k \in 1..n : \A j \in 1..Len(s[k]) : t[e[k - 1] + j] = s[k][j]
  BY <1>6, <1>7 DEF Ends
<1>9. PICK u, v, w : u = <<KEK_MAGIC, n>> /\ v = <<ct, cd>> /\ w = u \o t
  OBVIOUS
<1>10. IsSeq(u) /\ IsSeq(v) /\ Len(u) = 2 /\ Len(v) = 2 /\ u[2] = n /\ v[1] = ct /\ v[2] = cd
  BY <1>9, Pair
<1>11. file = w \o v
  BY <1>0, <1>1, <1>4, <1>9
<1>12. IsSeq(w) /\ Len(w) = 2 + l
  <2>1. IsSeq(u \o t) /\ Len(u \o t) = Len(u) + Len(t)
    BY <1>5, <1>10, Joined
  <2> QED
    BY <1>7, <1>9, <1>10, <2>1
<1>13. Written(file, 0, w) /\ Written(file, 2 + l, v)
  <2>1. Written(file, 0, file)
    BY DEF Written
  <2>2. Written(file, 0, w \o v)
    BY <1>11, <2>1
  <2>3. Written(file, 0, w) /\ Written(file, 0 + Len(w), v)
    BY <1>10, <1>12, <2>2, WrittenJoined
  <2> QED
    BY <1>12, <2>3
<1>14. Written(file, 0, u) /\ Written(file, 2, t)
  <2>1. Written(file, 0, u \o t)
    BY <1>9, <1>13
  <2>2. Written(file, 0, u) /\ Written(file, 0 + Len(u), t)
    BY <1>5, <1>10, <2>1, WrittenJoined
  <2> QED
    BY <1>10, <2>2
<1>15. PICK q : q = [k \in 0..n |-> 2 + e[k]]
  OBVIOUS
<1>151. q \in [0..n -> Nat]
  <2>1. \A k \in 0..n : 2 + e[k] \in Nat
    BY <1>8
  <2> QED
    BY <1>15, <2>1
<1>16. q[0] = 2 /\ q[n] = 2 + l
  <2>1. 0 \in 0..n /\ n \in 0..n
    OBVIOUS
  <2> QED
    BY <1>8, <1>15, <2>1
<1>17. ASSUME NEW k \in 1..n
       PROVE  q[k] = q[k - 1] + Len(s[k]) /\ Written(file, q[k - 1], s[k])
  <2>1. k \in 0..n /\ k - 1 \in 0..n
    OBVIOUS
  <2>2. PICK x \in Nat, y \in Nat : x = e[k - 1] /\ y = e[k]
    BY <1>8, <2>1
  <2>3. PICK m \in Nat : m = Len(s[k])
    BY <1>3, SeqFacts
  <2>4. y = x + m /\ y <= l /\ q[k - 1] = 2 + x /\ q[k] = 2 + y
    BY <1>8, <1>15, <2>1, <2>2, <2>3
  <2>5. ASSUME NEW j \in 1..m PROVE file[(2 + x) + j] = s[k][j]
    <3>1. x + j \in 1..l /\ (2 + x) + j = 2 + (x + j)
      BY <2>4
    <3>2. file[2 + (x + j)] = t[x + j]
      BY <1>7, <1>14, <3>1 DEF Written
    <3>3. t[x + j] = s[k][j]
      BY <1>8, <2>2, <2>3
    <3> QED
      BY <3>1, <3>2, <3>3
  <2>6. Written(file, 2 + x, s[k])
    <3>1. \A j \in 1..Len(s[k]) : file[(2 + x) + j] = s[k][j]
      BY <2>3, <2>5
    <3> QED
      BY <3>1, Zenon DEF Written
  <2> QED
    <3>1. Written(file, q[k - 1], s[k])
      BY <2>4, <2>6, Zenon
    <3>2. q[k] = q[k - 1] + m
      BY <2>4
    <3> QED
      BY <2>3, <3>1, <3>2
<1>18. file[2] = n
  <2>1. 2 \in 1..Len(u)
    BY <1>10
  <2>2. file[0 + 2] = u[2]
    BY <1>14, <2>1 DEF Written
  <2> QED
    BY <1>10, <2>2
<1>19. file[q[n] + 1] = ct /\ file[q[n] + 2] = cd
  <2>1. 1 \in 1..Len(v) /\ 2 \in 1..Len(v)
    BY <1>10
  <2>2. file[(2 + l) + 1] = v[1] /\ file[(2 + l) + 2] = v[2]
    BY <1>13, <2>1 DEF Written
  <2> QED
    BY <1>10, <1>16, <2>2
<1>20. \A k \in 1..n : s[k] = classout_class(ces[k])
  BY <1>1
<1> QED
  <2>1. Places(q, file, ces, n, ct, cd)
    BY <1>151, <1>16, <1>17, <1>18, <1>19, <1>20 DEF Places
  <2> QED
    BY <2>1

\* The loader reads the classes back, and then the constant table and the code.
LEMMA FileLoaded ==
  ASSUME NEW n \in Nat, NEW ces, NEW ct, NEW cd, FileOf(file, ces, n, ct, cd),
         NEW r, r = LoadClasses
  PROVE  /\ IsSeq(r.classes) /\ Len(r.classes) = n
         /\ \A k \in 1..n : LoadedFrom(r.classes[k], ces[k])
         /\ file[r.end] = ct /\ file[r.end + 1] = cd
<1>0. PICK q : Places(q, file, ces, n, ct, cd)
  BY Layout
<1>1. /\ q \in [0..n -> Nat] /\ q[0] = 2 /\ file[2] = n
      /\ \A k \in 1..n : /\ q[k] = q[k - 1] + Len(classout_class(ces[k]))
                         /\ Written(file, q[k - 1], classout_class(ces[k]))
      /\ file[q[n] + 1] = ct /\ file[q[n] + 2] = cd
  BY <1>0 DEF Places
<1>2. PICK f : f = [k \in 1..n |-> kexe_load_class(q[k - 1] + 1).class]
  OBVIOUS
<1>3. ASSUME NEW k \in 1..n
      PROVE  /\ k - 1 \in 0..n /\ kexe_load_class(q[k - 1] + 1).end = q[k] + 1
             /\ LoadedFrom(f[k], ces[k])
  <2>1. k - 1 \in 0..n
    OBVIOUS
  <2>2. PICK o \in Nat, p \in Nat : o = q[k - 1] /\ p = o + 1
    BY <1>1, <2>1
  <2>3. PICK c, w : c = ces[k] /\ w = classout_class(c)
    OBVIOUS
  <2>4. IsSeq(c.syms) /\ IsSeq(c.methods)
    BY <2>3 DEF FileOf
  <2>5. Written(file, o, w) /\ q[k] = o + Len(w)
    BY <1>1, <2>2, <2>3
  <2>6. /\ IsSeq(w) /\ kexe_load_class(p).end = p + Len(w)
        /\ LoadedFrom(kexe_load_class(p).class, c)
    BY <2>2, <2>3, <2>4, <2>5, ClassLoaded
  <2>7. p + Len(w) = q[k] + 1
    <3>1. Len(w) \in Nat
      BY <2>6, SeqFacts
    <3> QED
      BY <2>2, <2>5, <3>1
  <2>8. f[k] = kexe_load_class(p).class
    BY <1>2, <2>2
  <2> QED
    BY <2>1, <2>2, <2>3, <2>6, <2>7, <2>8
<1>4. PICK g : g = [k \in 0..n |-> [classes |-> [i \in 1..k |-> f[i]], end |-> q[k] + 1]]
  OBVIOUS
<1>5. ASSUME NEW i \in 0..n
      PROVE  g[i] = IF i = 0 THEN [classes |-> <<>>, end |-> 3]
                    ELSE [classes |-> Append(g[i - 1].classes, kexe_load_class(g[i - 1].end).class),
                          end |-> kexe_load_class(g[i - 1].end).end]
  <2>1. CASE i = 0
    <3>1. [j \in 1..0 |-> f[j]] = <<>>
      <4>1. PICK s : s = [j \in 1..0 |-> f[j]]
        OBVIOUS
      <4>2. s = [j \in 1..0 |-> s[j]]
        BY <4>1
      <4>3. IsSeq(s) /\ Len(s) = 0
        BY <4>2, IsSeqByLength
      <4> QED
        BY <4>1, <4>3, EmptySeq DEF IsSeq
    <3>2. q[0] + 1 = 3
      BY <1>1
    <3> QED
      BY <1>4, <2>1, <3>1, <3>2
  <2>2. CASE i # 0
    <3>1. PICK k \in Nat : k = i - 1 /\ i = k + 1 /\ k \in 0..n /\ i \in 1..n
      BY <2>2
    <3>2. PICK s, t : s = [j \in 1..k |-> f[j]] /\ t = [j \in 1..(k + 1) |-> f[j]]
      OBVIOUS
    <3>3. Append(s, f[k + 1]) = t
      BY <3>2, ListGrown
    <3>4. g[k].classes = s /\ g[k].end = q[k] + 1 /\ g[i].classes = t
          /\ g[i] = [classes |-> t, end |-> q[i] + 1]
      BY <1>4, <3>1, <3>2
    <3>5. kexe_load_class(q[k] + 1).end = q[i] + 1 /\ kexe_load_class(q[k] + 1).class = f[i]
      BY <1>2, <1>3, <3>1
    <3>6. g[i] = [classes |-> Append(g[k].classes, kexe_load_class(g[k].end).class),
                  end |-> kexe_load_class(g[k].end).end]
      BY <3>1, <3>3, <3>4, <3>5
    <3> QED
      BY <2>2, <3>1, <3>6
  <2> QED
    BY <2>1, <2>2
<1>6. PICK h : h = CHOOSE ff : ff = [i \in 0..file[2] |->
                      IF i = 0 THEN [classes |-> <<>>, end |-> 3]
                      ELSE [classes |-> Append(ff[i - 1].classes, kexe_load_class(ff[i - 1].end).class),
                            end |-> kexe_load_class(ff[i - 1].end).end]]
  OBVIOUS
<1>7. r = h[n]
  BY <1>1, <1>6 DEF LoadClasses
<1>8. h = [i \in 0..n |->
                      IF i = 0 THEN [classes |-> <<>>, end |-> 3]
                      ELSE [classes |-> Append(h[i - 1].classes, kexe_load_class(h[i - 1].end).class),
                            end |-> kexe_load_class(h[i - 1].end).end]]
  <2>1. g = [i \in 0..n |->
                      IF i = 0 THEN [classes |-> <<>>, end |-> 3]
                      ELSE [classes |-> Append(g[i - 1].classes, kexe_load_class(g[i - 1].end).class),
                            end |-> kexe_load_class(g[i - 1].end).end]]
    <3>1. g = [i \in 0..n |-> g[i]]
      BY <1>4
    <3> QED
      BY <1>5, <3>1
  <2> QED
    BY <1>1, <1>6, <2>1
<1> DEFINE T == {k \in Nat : k <= n => h[k] = g[k]}
<1>9. 0 \in T
  <2>1. 0 \in 0..n
    OBVIOUS
  <2> QED
    BY <1>5, <1>8, <2>1
<1>10. ASSUME NEW k \in T PROVE k + 1 \in T
  <2>1. SUFFICES ASSUME k + 1 <= n PROVE h[k + 1] = g[k + 1]
    BY <1>10
  <2>2. k \in Nat /\ k <= n /\ k + 1 \in 0..n /\ (k + 1) - 1 = k /\ k + 1 # 0
    BY <1>10, <2>1
  <2>3. PICK l \in 0..n : l = k + 1 /\ l - 1 = k /\ l # 0
    BY <2>2
  <2>4. h[l - 1] = g[l - 1]
    BY <1>10, <2>2, <2>3
  <2>5. h[l] = [classes |-> Append(h[l - 1].classes, kexe_load_class(h[l - 1].end).class),
                end |-> kexe_load_class(h[l - 1].end).end]
    BY <1>8, <2>3
  <2>6. g[l] = [classes |-> Append(g[l - 1].classes, kexe_load_class(g[l - 1].end).class),
                end |-> kexe_load_class(g[l - 1].end).end]
    BY <1>5, <2>3
  <2> QED
    BY <2>3, <2>4, <2>5, <2>6
<1>11. T = Nat
  <2> HIDE DEF T
  <2>1. T \in SUBSET Nat
    BY DEF T
  <2> QED
    BY <1>9, <1>10, <2>1, Climb
<1>12. r = g[n]
  <2>1. n \in T
    <3> HIDE DEF T
    <3> QED
      BY <1>11
  <2>2. h[n] = g[n]
    BY <2>1
  <2> QED
    BY <1>7, <2>2
<1>13. r.classes = [i \in 1..n |-> f[i]] /\ r.end = q[n] + 1
  <2>1. n \in 0..n
    OBVIOUS
  <2>2. g[n] = [classes |-> [i \in 1..n |-> f[i]], end |-> q[n] + 1]
    BY <1>4, <2>1
  <2> QED
    BY <1>12, <2>2
<1>14. IsSeq(r.classes) /\ Len(r.classes) = n
  <2>1. PICK s : s = r.classes /\ s = [i \in 1..n |-> s[i]]
    BY <1>13
  <2> QED
    BY <2>1, IsSeqByLength
<1>15. file[r.end] = ct /\ file[r.end + 1] = cd
  <2>1. PICK m \in Nat : m = q[n]
    BY <1>1
  <2>2. r.end = m + 1 /\ r.end + 1 = m + 2
    BY <1>13, <2>1
  <2> QED
    BY <1>1, <2>1, <2>2
<1> QED
  BY <1>3, <1>13, <1>14, <1>15

---------------------------------------------------------------------------
(* The program as the compiler has read it.                                *)

ClassText(d) == Before([k |-> "class", id |-> d.name, parent |-> d.parent], d.body)
Parts(p) == [i \in DOMAIN p |-> ClassText(p[i])]

LEMMA ProgramFacts ==
  ASSUME NEW p, IsProgram(p)
  PROVE  /\ IsSeq(p)
         /\ \A i \in DOMAIN p : /\ IsSeq(p[i].body) /\ p[i].name \notin {NONE, CLASS_UNKNOWN}
                                /\ \A j \in DOMAIN p[i].body : p[i].body[j].k # "class"
<1>1. PICK Ids, Parents, Members :
        /\ p \in Seq([name : Ids, parent : Parents, body : Seq(Members)])
        /\ NONE \notin Ids /\ CLASS_UNKNOWN \notin Ids
        /\ \A d \in Members : d.k # "class"
  BY DEF IsProgram
<1>2. ASSUME NEW i \in DOMAIN p
      PROVE  p[i].body \in Seq(Members) /\ p[i].name \in Ids
  <2>1. p[i] \in [name : Ids, parent : Parents, body : Seq(Members)]
    BY <1>1, ElementOfSeq, LenProperties
  <2> QED
    BY <2>1
<1>3. ASSUME NEW i \in DOMAIN p, NEW j \in DOMAIN p[i].body PROVE p[i].body[j] \in Members
  <2>1. PICK b : b = p[i].body
    OBVIOUS
  <2>2. b \in Seq(Members) /\ j \in 1..Len(b)
    BY <1>2, <2>1, LenProperties
  <2>3. b[j] \in Members
    BY <2>2, ElementOfSeq
  <2> QED
    BY <2>1, <2>3
<1> QED
  BY <1>1, <1>2, <1>3 DEF IsSeq

LEMMA PartFacts ==
  ASSUME NEW p, IsProgram(p), NEW i \in DOMAIN p
  PROVE  /\ IsSeq(Parts(p)) /\ Len(Parts(p)) = Len(p) /\ DOMAIN Parts(p) = DOMAIN p
         /\ IsSeq(Parts(p)[i]) /\ Len(Parts(p)[i]) = Len(p[i].body) + 1
         /\ Parts(p)[i][1] = [k |-> "class", id |-> p[i].name, parent |-> p[i].parent]
         /\ \A j \in DOMAIN p[i].body : Parts(p)[i][j + 1] = p[i].body[j]
<1>1. PICK n \in Nat : n = Len(p) /\ DOMAIN p = 1..n
  BY ProgramFacts, SeqFacts
<1>2. PICK s : s = Parts(p)
  OBVIOUS
<1>3. s = [k \in 1..n |-> s[k]] /\ \A k \in 1..n : s[k] = ClassText(p[k])
  BY <1>1, <1>2 DEF Parts
<1>4. IsSeq(s) /\ Len(s) = n /\ DOMAIN s = 1..n
  BY <1>3, IsSeqByLength
<1>5. PICK b, c, w : b = p[i].body /\ c = [k |-> "class", id |-> p[i].name, parent |-> p[i].parent]
                     /\ w = Before(c, b)
  OBVIOUS
<1>6. s[i] = w
  BY <1>1, <1>3, <1>5 DEF ClassText
<1>7. IsSeq(b)
  BY <1>5, ProgramFacts
<1>8. IsSeq(w) /\ Len(w) = Len(b) + 1 /\ w[1] = c /\ \A j \in DOMAIN b : w[j + 1] = b[j]
  BY <1>5, <1>7, Prepended
<1> QED
  BY <1>1, <1>2, <1>4, <1>5, <1>6, <1>8

IsField(d) == d.k = "var" /\ ~d.static

\* The class has a variable of that name.
HasField(ce, id) == \E p \in DOMAIN ce.syms : ce.syms[p].ident = id /\ ce.syms[p].sc = "SC_INSTANCE"

\* No name is given twice; a parent that is named is in the table below, or was
\* not known.
ParentOK(tab, i) ==
  IF tab[i].parentName = NONE THEN tab[i].parent = NONE
  ELSE IF \E k \in (i + 1)..Len(tab) : tab[k].className = tab[i].parentName
       THEN tab[i].parent = tab[i].parentName
       ELSE tab[i].parent = CLASS_UNKNOWN

NamesOK(tab) ==
  /\ \A i, j \in DOMAIN tab : tab[i].className = tab[j].className => i = j
  /\ \A i \in DOMAIN tab : IsSeq(tab[i].methods) /\ ParentOK(tab, i)

\* Of the text t of p, r declarations have been read, and those of m classes
\* begun; the latest class is the first of the table.
Reading(p, td, t, q, r, m) ==
  /\ IsProgram(p) /\ Ends(q, Parts(p), t, Len(p)) /\ IsSeq(t)
  /\ r \in 0..Len(t) /\ m \in 0..Len(p)
  /\ IsSeq(td) /\ Len(td) = Len(t) - r /\ \A j \in 1..Len(td) : td[j] = t[r + j]
  /\ m = 0 => r = 0
  /\ m # 0 => q[m - 1] < r /\ r <= q[m]

Read(p, tab, q, r, m) ==
  /\ Len(tab) = m
  /\ \A i \in 1..m :
       /\ tab[m + 1 - i].className = p[i].name /\ tab[m + 1 - i].parentName = p[i].parent
       /\ \A j \in DOMAIN p[i].body :
            (i < m \/ q[i - 1] + 1 + j <= r) /\ IsField(p[i].body[j])
              => HasField(tab[m + 1 - i], p[i].body[j].id)

\* What is read next: a class, or a member of the class that was begun.
LEMMA NextDeclaration ==
  ASSUME NEW p, NEW td, NEW t, NEW q, NEW r, NEW m, Reading(p, td, t, q, r, m), td # <<>>
  PROVE  /\ r + 1 \in 0..Len(t)
         /\ \/ /\ m + 1 \in DOMAIN p /\ r = q[m] /\ q[m] < r + 1 /\ r + 1 <= q[m + 1]
               /\ td[1] = [k |-> "class", id |-> p[m + 1].name, parent |-> p[m + 1].parent]
            \/ /\ m \in DOMAIN p /\ q[m - 1] < r + 1 /\ r + 1 <= q[m]
               /\ r - q[m - 1] \in DOMAIN p[m].body
               /\ td[1] = p[m].body[r - q[m - 1]]
<1>1. PICK N \in Nat : N = Len(p) /\ DOMAIN p = 1..N
  BY ProgramFacts, SeqFacts DEF Reading
<1>2. PICK l \in Nat : l = Len(t)
  BY SeqFacts DEF Reading
<1>3. /\ r \in 0..l /\ m \in 0..N /\ IsSeq(td) /\ Len(td) = l - r
      /\ \A j \in 1..Len(td) : td[j] = t[r + j]
      /\ m = 0 => r = 0
      /\ m # 0 => q[m - 1] < r /\ r <= q[m]
  BY <1>1, <1>2 DEF Reading
<1>4. /\ q \in [0..N -> Nat] /\ q[0] = 0 /\ q[N] = l
      /\ \A k \in 1..N : q[k] = q[k - 1] + Len(Parts(p)[k])
      /\ \A k \in 0..N : q[k] <= l
      /\ \A k \in 1..N : \A j \in 1..Len(Parts(p)[k]) : t[q[k - 1] + j] = Parts(p)[k][j]
  BY <1>1, <1>2 DEF Reading, Ends
<1>5. 1 \in 1..Len(td)
  BY <1>3, SeqFacts
<1>6. td[1] = t[r + 1] /\ r + 1 \in 0..l
  BY <1>3, <1>5
<1>7. ASSUME NEW k \in 1..N
      PROVE  \E b \in Nat : /\ DOMAIN p[k].body = 1..b /\ Len(Parts(p)[k]) = b + 1
                            /\ q[k] = q[k - 1] + b + 1
                            /\ t[q[k - 1] + 1] = [k |-> "class", id |-> p[k].name, parent |-> p[k].parent]
                            /\ \A j \in 1..b : t[q[k - 1] + 1 + j] = p[k].body[j]
  <2>1. PICK b \in Nat : b = Len(p[k].body) /\ DOMAIN p[k].body = 1..b
    <3>1. PICK s : s = p[k].body
      OBVIOUS
    <3>2. IsSeq(s)
      BY <1>1, <3>1, ProgramFacts DEF Reading
    <3> QED
      BY <3>1, <3>2, SeqFacts
  <2>2. PICK s : s = Parts(p)[k]
    OBVIOUS
  <2>3. /\ Len(s) = b + 1
        /\ s[1] = [k |-> "class", id |-> p[k].name, parent |-> p[k].parent]
        /\ \A j \in 1..b : s[j + 1] = p[k].body[j]
    <3>1. IsProgram(p) /\ k \in DOMAIN p
      BY <1>1 DEF Reading
    <3>2. /\ Len(Parts(p)[k]) = Len(p[k].body) + 1
          /\ Parts(p)[k][1] = [k |-> "class", id |-> p[k].name, parent |-> p[k].parent]
          /\ \A j \in DOMAIN p[k].body : Parts(p)[k][j + 1] = p[k].body[j]
      BY <3>1, PartFacts
    <3> QED
      BY <2>1, <2>2, <3>2
  <2>4. PICK x \in Nat : x = q[k - 1]
    <3>1. k - 1 \in 0..N
      OBVIOUS
    <3> QED
      BY <1>4, <3>1
  <2>5. q[k] = x + b + 1 /\ \A j \in 1..(b + 1) : t[x + j] = s[j]
    <3>1. PICK e : e = b + 1
      OBVIOUS
    <3>2. q[k] = x + Len(s) /\ \A j \in 1..Len(s) : t[x + j] = s[j]
      BY <1>4, <2>2, <2>4
    <3>3. Len(s) = e
      BY <2>3, <3>1
    <3>4. q[k] = x + e /\ \A j \in 1..e : t[x + j] = s[j]
      BY <3>2, <3>3
    <3> QED
      BY <3>1, <3>4
  <2>6. 1 \in 1..(b + 1)
    OBVIOUS
  <2>7. t[x + 1] = s[1]
    BY <2>5, <2>6
  <2>8. ASSUME NEW j \in 1..b PROVE t[x + 1 + j] = p[k].body[j]
    <3>1. j + 1 \in 1..(b + 1) /\ x + (j + 1) = x + 1 + j
      OBVIOUS
    <3> QED
      BY <2>3, <2>5, <3>1
  <2> QED
    BY <2>1, <2>2, <2>3, <2>4, <2>5, <2>7, <2>8
<1>8. PICK qm \in Nat : qm = q[m]
  BY <1>3, <1>4
<1>9. CASE r = qm
  <2>1. m # N
    BY <1>4, <1>6, <1>8, <1>9
  <2>2. PICK k \in 1..N : k = m + 1 /\ k - 1 = m
    BY <1>3, <2>1
  <2>3. PICK b \in Nat : /\ q[k] = q[k - 1] + b + 1
                         /\ t[q[k - 1] + 1] = [k |-> "class", id |-> p[k].name, parent |-> p[k].parent]
    BY <1>7
  <2>4. q[k] = qm + b + 1 /\ t[r + 1] = [k |-> "class", id |-> p[k].name, parent |-> p[k].parent]
    BY <1>8, <1>9, <2>2, <2>3
  <2>5. qm < r + 1 /\ r + 1 <= q[k]
    BY <1>9, <2>4
  <2> QED
    BY <1>1, <1>2, <1>6, <1>8, <1>9, <2>2, <2>4, <2>5
<1>10. CASE r # qm
  <2>1. m # 0 /\ m \in 1..N /\ r <= qm
    BY <1>3, <1>4, <1>8, <1>10
  <2>2. PICK b \in Nat : /\ DOMAIN p[m].body = 1..b /\ q[m] = q[m - 1] + b + 1
                         /\ \A j \in 1..b : t[q[m - 1] + 1 + j] = p[m].body[j]
    BY <1>7, <2>1
  <2>3. PICK x \in Nat : x = q[m - 1]
    <3>1. m - 1 \in 0..N
      BY <2>1
    <3> QED
      BY <1>4, <3>1
  <2>4. x < r /\ r < qm /\ qm = x + b + 1
    BY <1>3, <1>8, <1>10, <2>1, <2>2, <2>3
  <2>5. r - x \in 1..b /\ x + 1 + (r - x) = r + 1
    BY <1>3, <2>4
  <2>6. t[r + 1] = p[m].body[r - x]
    BY <2>2, <2>3, <2>5
  <2>7. x < r + 1 /\ r + 1 <= qm
    BY <1>3, <2>4
  <2> QED
    BY <1>1, <1>2, <1>6, <1>8, <2>1, <2>2, <2>3, <2>5, <2>6, <2>7
<1> QED
  BY <1>9, <1>10

\* The class that is being read, with one member or method more.
Extended(c, o) ==
  /\ c.className = o.className /\ c.parent = o.parent /\ c.parentName = o.parentName
  /\ IsSeq(c.methods)
  /\ \A id : HasField(o, id) => HasField(c, id)

LEMMA SymbolAdded ==
  ASSUME NEW o, IsSeq(o.syms), NEW sym, NEW c, c.syms = Before(sym, o.syms)
  PROVE  /\ \A id : HasField(o, id) => HasField(c, id)
         /\ sym.sc = "SC_INSTANCE" => HasField(c, sym.ident)
<1>1. PICK s, t : s = o.syms /\ t = c.syms
  OBVIOUS
<1>2. PICK n \in Nat : n = Len(s) /\ DOMAIN s = 1..n
  BY <1>1, SeqFacts
<1>3. DOMAIN t = 1..(n + 1) /\ t[1] = sym /\ \A i \in 1..n : t[i + 1] = s[i]
  <2>1. t = Before(sym, s) /\ IsSeq(s)
    BY <1>1
  <2> QED
    BY <1>2, <2>1, Prepended
<1>4. ASSUME NEW id, HasField(o, id) PROVE HasField(c, id)
  <2>1. PICK p \in 1..n : s[p].ident = id /\ s[p].sc = "SC_INSTANCE"
    BY <1>1, <1>2, <1>4 DEF HasField
  <2>2. p + 1 \in 1..(n + 1) /\ t[p + 1] = s[p]
    BY <1>3
  <2> QED
    BY <1>1, <1>3, <2>1, <2>2 DEF HasField
<1>5. 1 \in DOMAIN t
  BY <1>3
<1> QED
  BY <1>1, <1>3, <1>4, <1>5 DEF HasField

LEMMA PromExtended ==
  ASSUME NEW o, IsClass(o), IsSeq(o.syms), IsSeq(o.methods), NEW id, NEW isStatic,
         NEW c, c = deklProm(o, id, isStatic)
  PROVE  Extended(c, o) /\ (~isStatic => HasField(c, id))
<1>1. PICK sym, sc, a : sym = PrvekTab(id, "IdProm", sc, a, 0) /\ c.syms = Before(sym, o.syms)
                        /\ (~isStatic => sc = "SC_INSTANCE")
  <2>1. CASE isStatic
    <3>1. PICK sym : sym = PrvekTab(id, "IdProm", "SC_CLASS", o.class_addr_next, 0)
      OBVIOUS
    <3>2. c = [o EXCEPT !.syms = <<sym>> \o o.syms, !.class_addr_next = o.class_addr_next + 1]
      BY <2>1, <3>1 DEF deklProm
    <3>3. c.syms = Before(sym, o.syms)
      BY <3>2 DEF IsClass, Before
    <3> QED
      BY <2>1, <3>1, <3>3
  <2>2. CASE ~isStatic
    <3>1. PICK sym : sym = PrvekTab(id, "IdProm", "SC_INSTANCE", o.obj_addr_next, 0)
      OBVIOUS
    <3>2. c = [o EXCEPT !.syms = <<sym>> \o o.syms, !.obj_addr_next = o.obj_addr_next + 1]
      BY <2>2, <3>1 DEF deklProm
    <3>3. c.syms = Before(sym, o.syms)
      BY <3>2 DEF IsClass, Before
    <3> QED
      BY <2>2, <3>1, <3>3
  <2> QED
    BY <2>1, <2>2
<1>2. sym.ident = id /\ sym.sc = sc
  BY <1>1 DEF PrvekTab
<1>3. /\ c.className = o.className /\ c.parent = o.parent /\ c.parentName = o.parentName
      /\ c.methods = o.methods
  <2>1. CASE isStatic
    BY <2>1 DEF deklProm, IsClass
  <2>2. CASE ~isStatic
    BY <2>2 DEF deklProm, IsClass
  <2> QED
    BY <2>1, <2>2
<1>4. /\ \A i : HasField(o, i) => HasField(c, i)
      /\ sym.sc = "SC_INSTANCE" => HasField(c, sym.ident)
  BY <1>1, SymbolAdded
<1> QED
  BY <1>1, <1>2, <1>3, <1>4 DEF Extended

LEMMA KonstExtended ==
  ASSUME NEW o, IsClass(o), IsSeq(o.syms), IsSeq(o.methods), NEW id, NEW const_ptr,
         NEW c, c = deklKonst(o, id, const_ptr)
  PROVE  Extended(c, o)
<1>1. PICK sym : sym = PrvekTab(id, "IdConst", "SC_CLASS", o.class_addr_next, const_ptr)
  OBVIOUS
<1>2. c = [o EXCEPT !.syms = <<sym>> \o o.syms, !.class_addr_next = o.class_addr_next + 1]
  BY <1>1 DEF deklKonst
<1>3. /\ c.syms = Before(sym, o.syms) /\ c.methods = o.methods
      /\ c.className = o.className /\ c.parent = o.parent /\ c.parentName = o.parentName
  BY <1>2 DEF IsClass, Before
<1>4. \A i : HasField(o, i) => HasField(c, i)
  BY <1>3, SymbolAdded
<1> QED
  BY <1>3, <1>4 DEF Extended

LEMMA MethodExtended ==
  ASSUME NEW o, IsClass(o), IsSeq(o.methods), NEW d, NEW mth, NEW c, c = deklMethod(o, d, mth)
  PROVE  Extended(c, o)
<1>1. PICK me, ms : me = MethodEnv(d, mth) /\ ms = Before(me, o.methods)
  OBVIOUS
<1>2. IsSeq(ms)
  BY <1>1, Prepended
<1>3. \/ c = [o EXCEPT !.methods = ms] \/ c = [o EXCEPT !.static_init = me]
      \/ c = [o EXCEPT !.constructor = me]
  BY <1>1 DEF deklMethod, Before
<1>4. /\ c.className = o.className /\ c.parent = o.parent /\ c.parentName = o.parentName
      /\ c.syms = o.syms /\ c.methods \in {o.methods, ms}
  BY <1>3 DEF IsClass
<1> QED
  BY <1>2, <1>4 DEF Extended, HasField

LEMMA NamesRestated ==
  ASSUME NEW tab, IsSeq(tab), tab # <<>>, NamesOK(tab), NEW c, Extended(c, tab[1]),
         NEW t, t = Before(c, Tail(tab))
  PROVE  NamesOK(t)
<1>1. PICK n \in Nat : n = Len(tab) /\ DOMAIN tab = 1..n /\ 1 \in 1..n
  BY SeqFacts
<1>2. /\ IsSeq(t) /\ Len(t) = n /\ DOMAIN t = 1..n /\ t[1] = c
      /\ \A i \in 1..n \ {1} : t[i] = tab[i]
  BY <1>1, Replaced
<1>3. \A i \in 1..n : /\ t[i].className = tab[i].className /\ t[i].parent = tab[i].parent
                      /\ t[i].parentName = tab[i].parentName /\ IsSeq(t[i].methods)
  <2> SUFFICES ASSUME NEW i \in 1..n
               PROVE  /\ t[i].className = tab[i].className /\ t[i].parent = tab[i].parent
                      /\ t[i].parentName = tab[i].parentName /\ IsSeq(t[i].methods)
    OBVIOUS
  <2>1. CASE i = 1
    BY <1>2, <2>1 DEF Extended
  <2>2. CASE i # 1
    BY <1>1, <1>2, <2>2 DEF NamesOK
  <2> QED
    BY <2>1, <2>2
<1>4. ASSUME NEW i \in 1..n PROVE ParentOK(t, i)
  <2>1. ParentOK(tab, i)
    BY <1>1 DEF NamesOK
  <2>2. \A k \in (i + 1)..n : t[k].className = tab[k].className
    <3>1. \A k \in (i + 1)..n : k \in 1..n
      OBVIOUS
    <3> QED
      BY <1>3, <3>1
  <2>3. (\E k \in (i + 1)..n : t[k].className = t[i].parentName)
        <=> (\E k \in (i + 1)..n : tab[k].className = tab[i].parentName)
    BY <1>3, <2>2
  <2> QED
    BY <1>1, <1>2, <1>3, <2>1, <2>3 DEF ParentOK
<1>5. \A i, j \in 1..n : t[i].className = t[j].className => i = j
  BY <1>1, <1>3 DEF NamesOK
<1> QED
  BY <1>2, <1>3, <1>4, <1>5 DEF NamesOK

\* NONE stands for no class.
NoClass == \A c : IsClass(c) => c # NONE

LEMMA NamesWithClass ==
  ASSUME NoClass, NEW tab, TabOK(tab), NamesOK(tab), NEW name, hledejClass(tab, name) = NONE,
         NEW par, NEW c, c = ClassEnv(tab, name, par), NEW t, t = Before(c, tab)
  PROVE  NamesOK(t)
<1>1. PICK n \in Nat : n = Len(tab) /\ DOMAIN tab = 1..n
  BY SeqFacts DEF TabOK
<1>2. /\ IsSeq(t) /\ Len(t) = n + 1 /\ DOMAIN t = 1..(n + 1) /\ t[1] = c
      /\ \A i \in 1..n : t[i + 1] = tab[i]
  BY <1>1, Prepended DEF TabOK
<1>3. \A i \in 1..(n + 1) : i = 1 \/ (i - 1 \in 1..n /\ (i - 1) + 1 = i /\ t[i] = tab[i - 1])
  <2> SUFFICES ASSUME NEW i \in 1..(n + 1), i # 1
               PROVE  i - 1 \in 1..n /\ (i - 1) + 1 = i /\ t[i] = tab[i - 1]
    OBVIOUS
  <2>1. i - 1 \in 1..n /\ (i - 1) + 1 = i
    OBVIOUS
  <2> QED
    BY <1>2, <2>1
<1>4. \A i \in 1..n : tab[i] # NONE /\ tab[i].className # NONE
  BY <1>1 DEF TabOK, NoClass, IsClass
<1>5. \A i \in 1..n : tab[i].className # name
  BY <1>1, <1>4, Found DEF TabOK
<1>6. /\ c.className = name /\ c.parentName = par /\ c.methods = <<>>
      /\ c.parent = IF par = NONE THEN NONE
                    ELSE IF hledejClass(tab, par) = NONE THEN CLASS_UNKNOWN ELSE par
  BY DEF ClassEnv
<1>7. IsSeq(c.methods)
  BY <1>6, EmptySeq DEF IsSeq
<1>8. ParentOK(t, 1)
  <2>1. CASE par = NONE
    BY <1>2, <1>6, <2>1 DEF ParentOK
  <2>2. CASE par # NONE /\ hledejClass(tab, par) = NONE
    <3>1. \A i \in 1..n : tab[i].className # par
      BY <1>1, <1>4, <2>2, Found DEF TabOK
    <3>2. \A k \in (1 + 1)..(n + 1) : t[k].className # par
      <4> SUFFICES ASSUME NEW k \in (1 + 1)..(n + 1) PROVE t[k].className # par
        OBVIOUS
      <4>1. k \in 1..(n + 1) /\ k # 1
        OBVIOUS
      <4> QED
        BY <1>3, <3>1, <4>1
    <3> QED
      BY <1>2, <1>6, <2>2, <3>2 DEF ParentOK
  <2>3. CASE par # NONE /\ hledejClass(tab, par) # NONE
    <3>1. PICK x \in 1..n : tab[x].className = par
      BY <1>1, <2>3, Found DEF TabOK
    <3>2. x + 1 \in (1 + 1)..(n + 1) /\ t[x + 1].className = par
      BY <1>2, <3>1
    <3> QED
      BY <1>2, <1>6, <2>3, <3>2 DEF ParentOK
  <2> QED
    BY <2>1, <2>2, <2>3
<1>9. ASSUME NEW i \in 1..n PROVE ParentOK(t, i + 1) /\ IsSeq(t[i + 1].methods)
  <2>1. ParentOK(tab, i) /\ IsSeq(tab[i].methods) /\ t[i + 1] = tab[i]
    BY <1>1, <1>2 DEF NamesOK
  <2>2. ASSUME NEW k \in (i + 1)..n PROVE k + 1 \in ((i + 1) + 1)..(n + 1) /\ t[k + 1] = tab[k]
    <3>1. k \in 1..n /\ k + 1 \in ((i + 1) + 1)..(n + 1)
      OBVIOUS
    <3> QED
      BY <1>2, <3>1
  <2>3. ASSUME NEW k \in ((i + 1) + 1)..(n + 1) PROVE k - 1 \in (i + 1)..n /\ t[k] = tab[k - 1]
    <3>1. k \in 1..(n + 1) /\ k # 1 /\ k - 1 \in (i + 1)..n
      OBVIOUS
    <3> QED
      BY <1>3, <3>1
  <2>4. (\E k \in ((i + 1) + 1)..(n + 1) : t[k].className = t[i + 1].parentName)
        <=> (\E k \in (i + 1)..n : tab[k].className = tab[i].parentName)
    <3>1. ASSUME NEW k \in (i + 1)..n, tab[k].className = tab[i].parentName
          PROVE  \E l \in ((i + 1) + 1)..(n + 1) : t[l].className = t[i + 1].parentName
      BY <2>1, <2>2, <3>1
    <3>2. ASSUME NEW k \in ((i + 1) + 1)..(n + 1), t[k].className = t[i + 1].parentName
          PROVE  \E l \in (i + 1)..n : tab[l].className = tab[i].parentName
      BY <2>1, <2>3, <3>2
    <3> QED
      BY <3>1, <3>2
  <2> QED
    BY <1>1, <1>2, <2>1, <2>4 DEF ParentOK
<1>10. ASSUME NEW i \in 1..(n + 1) PROVE ParentOK(t, i) /\ IsSeq(t[i].methods)
  BY <1>2, <1>3, <1>7, <1>8, <1>9
<1>11. \A i, j \in 1..(n + 1) : t[i].className = t[j].className => i = j
  <2> SUFFICES ASSUME NEW i \in 1..(n + 1), NEW j \in 1..(n + 1), t[i].className = t[j].className
               PROVE  i = j
    OBVIOUS
  <2>1. CASE i = 1 \/ j = 1
    BY <1>2, <1>3, <1>5, <1>6, <2>1, SMTT(30)
  <2>2. CASE i # 1 /\ j # 1
    <3>0. PICK k \in 1..n, l \in 1..n : k = i - 1 /\ l = j - 1 /\ t[i] = tab[k] /\ t[j] = tab[l]
      BY <1>3, <2>2
    <3>1. k = l
      BY <1>1, <3>0 DEF NamesOK
    <3> QED
      BY <3>0, <3>1
  <2> QED
    BY <2>1, <2>2
<1> QED
  BY <1>2, <1>10, <1>11 DEF NamesOK

\* A class is begun.
LEMMA ReadClass ==
  ASSUME NEW p, NEW td, NEW text, NEW q, NEW r, NEW m, Reading(p, td, text, q, r, m),
         NEW tab, IsSeq(tab), Read(p, tab, q, r, m),
         m + 1 \in DOMAIN p, r = q[m],
         NEW c, c.className = p[m + 1].name, c.parentName = p[m + 1].parent,
         NEW t, t = Before(c, tab)
  PROVE  Read(p, t, q, r + 1, m + 1)
<1>1. PICK N \in Nat : N = Len(p) /\ DOMAIN p = 1..N
  BY ProgramFacts, SeqFacts DEF Reading
<1>2. m \in 0..N /\ m + 1 \in 1..N /\ r \in Nat
  <2>1. Len(text) \in Nat
    BY SeqFacts DEF Reading
  <2> QED
    BY <1>1, <2>1 DEF Reading
<1>3. /\ Len(tab) = m
      /\ \A i \in 1..m :
           /\ tab[m + 1 - i].className = p[i].name /\ tab[m + 1 - i].parentName = p[i].parent
           /\ \A j \in DOMAIN p[i].body :
                (i < m \/ q[i - 1] + 1 + j <= r) /\ IsField(p[i].body[j])
                  => HasField(tab[m + 1 - i], p[i].body[j].id)
  BY DEF Read
<1>4. /\ Len(t) = m + 1 /\ t[1] = c /\ \A i \in 1..m : t[i + 1] = tab[i]
  <2>1. /\ IsSeq(t) /\ Len(t) = Len(tab) + 1 /\ t[1] = c
        /\ \A i \in DOMAIN tab : t[i + 1] = tab[i]
    BY Prepended
  <2>2. DOMAIN tab = 1..m
    BY <1>3, SeqFacts
  <2> QED
    BY <1>3, <2>1, <2>2
<1>5. ASSUME NEW k \in 1..m, NEW j \in DOMAIN p[k].body, k = m PROVE q[k - 1] + 1 + j <= r
  <2>1. PICK b \in Nat : b = Len(p[k].body) /\ DOMAIN p[k].body = 1..b
    <3>1. PICK s : s = p[k].body
      OBVIOUS
    <3>2. IsSeq(s)
      BY <1>1, <1>2, <3>1, ProgramFacts DEF Reading
    <3> QED
      BY <3>1, <3>2, SeqFacts
  <2>2. IsProgram(p) /\ k \in DOMAIN p /\ k \in 1..N /\ k - 1 \in 0..N
    BY <1>1, <1>2 DEF Reading
  <2>3. Len(Parts(p)[k]) = b + 1
    BY <2>1, <2>2, PartFacts
  <2>4. PICK x \in Nat : x = q[k - 1]
    BY <1>1, <2>2 DEF Reading, Ends
  <2>5. q[k] = x + (b + 1)
    BY <1>1, <2>2, <2>3, <2>4 DEF Reading, Ends
  <2>6. j \in 1..b /\ r = x + (b + 1)
    BY <1>5, <2>1, <2>5
  <2> QED
    BY <2>4, <2>6
<1>6. ASSUME NEW i \in 1..(m + 1)
      PROVE  /\ t[(m + 1) + 1 - i].className = p[i].name
             /\ t[(m + 1) + 1 - i].parentName = p[i].parent
             /\ \A j \in DOMAIN p[i].body :
                  (i < m + 1 \/ q[i - 1] + 1 + j <= r + 1) /\ IsField(p[i].body[j])
                    => HasField(t[(m + 1) + 1 - i], p[i].body[j].id)
  <2>1. CASE i = m + 1
    <3>1. t[(m + 1) + 1 - i] = c
      BY <1>2, <1>4, <2>1
    <3>2. ASSUME NEW j \in DOMAIN p[i].body PROVE ~(i < m + 1 \/ q[i - 1] + 1 + j <= r + 1)
      <4>1. i - 1 = m /\ q[i - 1] = r
        BY <1>2, <2>1
      <4>2. j \in Nat /\ j > 0
        <5>1. PICK s : s = p[i].body
          OBVIOUS
        <5>2. IsSeq(s)
          BY <1>1, <1>2, <2>1, <5>1, ProgramFacts DEF Reading
        <5> QED
          BY <5>1, <5>2, SeqFacts
      <4> QED
        BY <1>2, <2>1, <4>1, <4>2
    <3> QED
      BY <2>1, <3>1, <3>2
  <2>2. CASE i # m + 1
    <3>1. i \in 1..m /\ m + 1 - i \in 1..m /\ (m + 1 - i) + 1 = (m + 1) + 1 - i
      BY <1>2, <2>2
    <3>2. t[(m + 1) + 1 - i] = tab[m + 1 - i]
      BY <1>4, <3>1
    <3>3. \A j \in DOMAIN p[i].body : i < m \/ q[i - 1] + 1 + j <= r
      <4>1. i < m \/ i = m
        BY <1>2, <3>1
      <4> QED
        BY <1>5, <3>1, <4>1
    <3> QED
      BY <1>3, <3>1, <3>2, <3>3
  <2> QED
    BY <2>1, <2>2
<1> QED
  BY <1>4, <1>6 DEF Read

\* A member or a method of the class that was begun.
LEMMA ReadMember ==
  ASSUME NEW p, NEW td, NEW text, NEW q, NEW r, NEW m, Reading(p, td, text, q, r, m),
         NEW tab, IsSeq(tab), Read(p, tab, q, r, m),
         m \in DOMAIN p, NEW k \in DOMAIN p[m].body, k = r - q[m - 1],
         NEW c, Extended(c, tab[1]), IsField(p[m].body[k]) => HasField(c, p[m].body[k].id),
         NEW t, t = Before(c, Tail(tab))
  PROVE  Read(p, t, q, r + 1, m)
<1>1. PICK N \in Nat : N = Len(p) /\ DOMAIN p = 1..N
  BY ProgramFacts, SeqFacts DEF Reading
<1>2. m \in 1..N /\ r \in Nat
  <2>1. Len(text) \in Nat
    BY SeqFacts DEF Reading
  <2> QED
    BY <1>1, <2>1 DEF Reading
<1>3. /\ Len(tab) = m
      /\ \A i \in 1..m :
           /\ tab[m + 1 - i].className = p[i].name /\ tab[m + 1 - i].parentName = p[i].parent
           /\ \A j \in DOMAIN p[i].body :
                (i < m \/ q[i - 1] + 1 + j <= r) /\ IsField(p[i].body[j])
                  => HasField(tab[m + 1 - i], p[i].body[j].id)
  BY DEF Read
<1>4. /\ Len(t) = m /\ t[1] = c /\ \A i \in 1..m \ {1} : t[i] = tab[i]
  <2>1. DOMAIN tab = 1..m
    BY <1>3, SeqFacts
  <2>2. tab # <<>>
    <3>1. 1 \in DOMAIN tab
      BY <1>2, <2>1
    <3> QED
      BY <3>1, EmptySeq
  <2>3. Len(t) = Len(tab) /\ t[1] = c /\ \A i \in DOMAIN tab \ {1} : t[i] = tab[i]
    BY <2>2, Replaced
  <2> QED
    BY <1>3, <2>1, <2>3
<1>5. PICK x \in Nat : x = q[m - 1]
  <2>1. m - 1 \in 0..N
    BY <1>2
  <2> QED
    BY <1>1, <2>1 DEF Reading, Ends
<1>6. ASSUME NEW i \in 1..m
      PROVE  /\ t[m + 1 - i].className = p[i].name /\ t[m + 1 - i].parentName = p[i].parent
             /\ \A j \in DOMAIN p[i].body :
                  (i < m \/ q[i - 1] + 1 + j <= r + 1) /\ IsField(p[i].body[j])
                    => HasField(t[m + 1 - i], p[i].body[j].id)
  <2>1. CASE i = m
    <3>1. m + 1 - i = 1
      BY <1>2, <2>1
    <3>2. t[m + 1 - i] = c /\ tab[m + 1 - i] = tab[1]
      BY <1>4, <3>1
    <3>3. c.className = p[i].name /\ c.parentName = p[i].parent
      BY <1>3, <2>1, <3>2 DEF Extended
    <3>4. ASSUME NEW j \in DOMAIN p[m].body, x + 1 + j <= r + 1, IsField(p[m].body[j])
          PROVE  HasField(c, p[m].body[j].id)
      <4>1. j \in Nat
        <5>1. PICK s : s = p[m].body
          OBVIOUS
        <5>2. IsSeq(s)
          BY <1>1, <1>2, <5>1, ProgramFacts DEF Reading
        <5> QED
          BY <5>1, <5>2, SeqFacts
      <4>2. CASE x + 1 + j <= r
        <5>1. HasField(tab[1], p[m].body[j].id)
          BY <1>3, <1>5, <2>1, <3>2, <3>4, <4>2
        <5> QED
          BY <5>1 DEF Extended
      <4>3. CASE ~(x + 1 + j <= r)
        <5>1. j = k
          BY <1>2, <1>5, <3>4, <4>1, <4>3
        <5> QED
          BY <3>4, <5>1
      <4> QED
        BY <4>2, <4>3
    <3> QED
      BY <1>2, <1>5, <2>1, <3>2, <3>3, <3>4
  <2>2. CASE i # m
    <3>1. i < m /\ m + 1 - i \in 1..m \ {1}
      BY <1>2, <2>2
    <3>2. t[m + 1 - i] = tab[m + 1 - i]
      BY <1>4, <3>1
    <3> QED
      BY <1>3, <3>1, <3>2
  <2> QED
    BY <2>1, <2>2
<1> QED
  BY <1>4, <1>6 DEF Read

LEMMA ReadingOn ==
  ASSUME NEW p, NEW td, NEW t, NEW q, NEW r, NEW m, Reading(p, td, t, q, r, m), td # <<>>,
         NEW l \in DOMAIN p, q[l - 1] < r + 1, r + 1 <= q[l], r + 1 \in 0..Len(t)
  PROVE  Reading(p, Tail(td), t, q, r + 1, l)
<1>1. PICK n \in Nat : n = Len(t)
  BY SeqFacts DEF Reading
<1>2. r \in 0..n /\ IsSeq(td) /\ Len(td) = n - r /\ \A j \in 1..Len(td) : td[j] = t[r + j]
  BY <1>1 DEF Reading
<1>3. PICK k \in Nat : k = n - r /\ Len(td) = k /\ k > 0
  BY <1>2, SeqFacts
<1>4. PICK u : u = Tail(td)
  OBVIOUS
<1>5. IsSeq(u) /\ Len(u) = k - 1 /\ \A j \in 1..(k - 1) : u[j] = td[j + 1]
  <2>1. PICK S : td \in Seq(S)
    BY <1>2 DEF IsSeq
  <2>2. /\ u \in Seq(S) /\ Len(u) = k - 1
        /\ \A j \in 1..(k - 1) : u[j] = td[j + 1]
    BY <1>3, <1>4, <2>1, HeadTailProperties
  <2> QED
    BY <2>2 DEF IsSeq
<1>6. ASSUME NEW j \in 1..(k - 1) PROVE u[j] = t[(r + 1) + j]
  <2>1. j + 1 \in 1..k /\ r + (j + 1) = (r + 1) + j
    BY <1>2, <1>3
  <2>2. td[j + 1] = t[r + (j + 1)]
    BY <1>2, <1>3, <2>1
  <2> QED
    BY <1>5, <2>1, <2>2
<1>7. Len(u) = n - (r + 1)
  BY <1>2, <1>3, <1>5
<1>8. l \in 0..Len(p) /\ l # 0
  <2>1. Len(p) \in Nat /\ DOMAIN p = 1..Len(p)
    BY ProgramFacts, SeqFacts DEF Reading
  <2> QED
    BY <2>1
<1>9. \A j \in 1..Len(u) : u[j] = t[(r + 1) + j]
  BY <1>5, <1>6
<1>10. IsProgram(p) /\ Ends(q, Parts(p), t, Len(p)) /\ IsSeq(t)
  BY DEF Reading
<1> QED
  BY <1>1, <1>4, <1>5, <1>7, <1>8, <1>9, <1>10 DEF Reading

\* The table holds what has been read.
AsRead(p, td, tab) ==
  /\ NamesOK(tab)
  /\ \E t, q, r, m : Reading(p, td, t, q, r, m) /\ Read(p, tab, q, r, m)

ReadInv ==
  /\ IsProgram(prog)
  /\ phase # "rejected" => AsRead(prog, todo, TabClass)

\* One declaration, in the terms of the tables before and after it.
LEMMA ReadStep ==
  ASSUME NoClass, NEW p, NEW td, NEW tab, AsRead(p, td, tab), TabOK(tab), td # <<>>,
         NEW d, d = td[1], NEW u,
         \/ /\ d.k = "class" /\ hledejClass(tab, d.id) = NONE
            /\ u = Before(ClassEnv(tab, d.id, d.parent), tab)
         \/ d.k = "var" /\ u = Before(deklProm(tab[1], d.id, d.static), Tail(tab))
         \/ \E ptr : d.k = "const" /\ u = Before(deklKonst(tab[1], d.id, ptr), Tail(tab))
         \/ \E n : d.k = "method" /\ u = Before(deklMethod(tab[1], d, n), Tail(tab))
  PROVE  AsRead(p, Tail(td), u)
<1>1. PICK t, q, r, m : Reading(p, td, t, q, r, m) /\ Read(p, tab, q, r, m)
  BY DEF AsRead
<1>2. /\ r + 1 \in 0..Len(t)
      /\ \/ /\ m + 1 \in DOMAIN p /\ r = q[m] /\ q[m] < r + 1 /\ r + 1 <= q[m + 1]
            /\ d = [k |-> "class", id |-> p[m + 1].name, parent |-> p[m + 1].parent]
         \/ /\ m \in DOMAIN p /\ q[m - 1] < r + 1 /\ r + 1 <= q[m]
            /\ r - q[m - 1] \in DOMAIN p[m].body
            /\ d = p[m].body[r - q[m - 1]]
  BY <1>1, NextDeclaration
<1>3. IsProgram(p) /\ IsSeq(tab) /\ NamesOK(tab)
  BY <1>1 DEF Reading, TabOK, AsRead
<1>4. CASE /\ m + 1 \in DOMAIN p /\ r = q[m] /\ q[m] < r + 1 /\ r + 1 <= q[m + 1]
           /\ d = [k |-> "class", id |-> p[m + 1].name, parent |-> p[m + 1].parent]
  <2>1. d.k = "class" /\ d.id = p[m + 1].name /\ d.parent = p[m + 1].parent
    BY <1>4
  <2>2. hledejClass(tab, d.id) = NONE /\ u = Before(ClassEnv(tab, d.id, d.parent), tab)
    BY <2>1
  <2>3. NamesOK(u)
    BY <1>3, <2>2, NamesWithClass
  <2>4. PICK c : c = ClassEnv(tab, d.id, d.parent)
    OBVIOUS
  <2>5. c.className = p[m + 1].name /\ c.parentName = p[m + 1].parent
    BY <2>1, <2>4 DEF ClassEnv
  <2>6. u = Before(c, tab)
    BY <2>2, <2>4
  <2>7. Read(p, u, q, r + 1, m + 1)
    BY <1>1, <1>3, <1>4, <2>5, <2>6, ReadClass
  <2>8. Reading(p, Tail(td), t, q, r + 1, m + 1)
    <3>1. PICK l \in DOMAIN p : l = m + 1 /\ l - 1 = m
      <4>1. m \in Int
        <5>1. Len(p) \in Nat
          BY <1>3, ProgramFacts, SeqFacts
        <5> QED
          BY <1>1, <5>1 DEF Reading
      <4> QED
        BY <1>4, <4>1
    <3>2. q[l - 1] < r + 1 /\ r + 1 <= q[l]
      BY <1>4, <3>1
    <3>3. Reading(p, Tail(td), t, q, r + 1, l)
      BY <1>1, <1>2, <3>2, ReadingOn
    <3> QED
      BY <3>1, <3>3
  <2> QED
    BY <2>3, <2>7, <2>8 DEF AsRead
<1>5. CASE /\ m \in DOMAIN p /\ q[m - 1] < r + 1 /\ r + 1 <= q[m]
           /\ r - q[m - 1] \in DOMAIN p[m].body
           /\ d = p[m].body[r - q[m - 1]]
  <2>1. PICK k \in DOMAIN p[m].body : k = r - q[m - 1] /\ d = p[m].body[k] /\ d.k # "class"
    BY <1>3, <1>5, ProgramFacts
  <2>2. tab # <<>> /\ 1 \in DOMAIN tab
    <3>1. Len(p) \in Nat /\ DOMAIN p = 1..Len(p)
      BY <1>3, ProgramFacts, SeqFacts
    <3>2. Len(tab) = m /\ m \in 1..Len(p)
      BY <1>1, <1>5, <3>1 DEF Read
    <3>3. DOMAIN tab = 1..m /\ 1 \in 1..m
      BY <1>3, <3>1, <3>2, SeqFacts
    <3>4. 1 \in DOMAIN tab
      BY <3>3
    <3>5. tab # <<>>
      BY <3>4, EmptySeq
    <3> QED
      BY <3>4, <3>5
  <2>3. PICK o : o = tab[1] /\ IsClass(o) /\ IsSeq(o.syms) /\ IsSeq(o.methods)
    BY <1>3, <2>2 DEF TabOK, SymsOK, NamesOK
  <2>4. \E c : u = Before(c, Tail(tab)) /\ Extended(c, o) /\ (IsField(d) => HasField(c, d.id))
    <3>1. CASE d.k = "var"
      <4>1. PICK c : c = deklProm(o, d.id, d.static)
        OBVIOUS
      <4>2. u = Before(c, Tail(tab))
        BY <2>3, <3>1, <4>1
      <4>3. Extended(c, o) /\ (~d.static => HasField(c, d.id))
        BY <2>3, <4>1, PromExtended
      <4> QED
        BY <4>2, <4>3 DEF IsField
    <3>2. CASE d.k = "const"
      <4>1. PICK ptr : u = Before(deklKonst(o, d.id, ptr), Tail(tab))
        BY <2>3, <3>2
      <4>2. Extended(deklKonst(o, d.id, ptr), o)
        BY <2>3, KonstExtended
      <4> QED
        BY <3>2, <4>1, <4>2 DEF IsField
    <3>3. CASE d.k = "method"
      <4>1. PICK n : u = Before(deklMethod(o, d, n), Tail(tab))
        BY <2>3, <3>3
      <4>2. Extended(deklMethod(o, d, n), o)
        BY <2>3, MethodExtended
      <4> QED
        BY <3>3, <4>1, <4>2 DEF IsField
    <3> QED
      BY <2>1, <3>1, <3>2, <3>3
  <2>5. PICK c : u = Before(c, Tail(tab)) /\ Extended(c, o) /\ (IsField(d) => HasField(c, d.id))
    BY <2>4
  <2>6. NamesOK(u)
    BY <1>3, <2>2, <2>3, <2>5, NamesRestated
  <2>7. Read(p, u, q, r + 1, m)
    BY <1>1, <1>3, <1>5, <2>1, <2>3, <2>5, ReadMember
  <2>8. Reading(p, Tail(td), t, q, r + 1, m)
    BY <1>1, <1>2, <1>5, ReadingOn
  <2> QED
    BY <2>6, <2>7, <2>8 DEF AsRead
<1> QED
  BY <1>2, <1>4, <1>5

LEMMA ReadInitially ==
  ASSUME IsProgram(prog), Init
  PROVE  ReadInv
<1>1. PICK p, s : p = prog /\ s = Parts(p)
  OBVIOUS
<1>2. PICK N \in Nat : N = Len(p) /\ DOMAIN p = 1..N
  BY <1>1, ProgramFacts, SeqFacts
<1>3. s = [i \in DOMAIN p |-> <<[k |-> "class", id |-> p[i].name, parent |-> p[i].parent]>> \o p[i].body]
  BY <1>1 DEF Parts, ClassText, Before
<1>4. IsSeq(s) /\ DOMAIN s = 1..N /\ Len(s) = N
  <2>1. s = [i \in 1..N |-> s[i]]
    BY <1>2, <1>3
  <2> QED
    BY <2>1, IsSeqByLength
<1>5. \A k \in DOMAIN s : IsSeq(s[k])
  BY <1>1, <1>2, <1>4, PartFacts
<1>6. PICK t : t = FlattenSeq(s)
  OBVIOUS
<1>7. todo = t /\ TabClass = <<>>
  BY <1>1, <1>3, <1>6 DEF Init
<1>8. PICK q : IsSeq(t) /\ Ends(q, s, t, N)
  BY <1>4, <1>5, <1>6, FlattenedAt
<1>9. PICK n \in Nat : n = Len(t)
  BY <1>8, SeqFacts
<1>10. Reading(p, t, t, q, 0, 0)
  <2>1. \A j \in 1..n : t[0 + j] = t[j]
    OBVIOUS
  <2> QED
    BY <1>1, <1>2, <1>8, <1>9, <2>1 DEF Reading
<1>11. Read(p, <<>>, q, 0, 0)
  BY EmptySeq DEF Read
<1>12. NamesOK(<<>>)
  BY EmptySeq DEF NamesOK
<1>13. AsRead(p, t, <<>>)
  BY <1>10, <1>11, <1>12 DEF AsRead
<1> QED
  BY <1>1, <1>7, <1>13 DEF ReadInv

LEMMA ReadDeclare ==
  ASSUME NoClass, TablesInv, ReadInv, Declare
  PROVE  IsProgram(prog') /\ (phase' # "rejected" => AsRead(prog', todo', TabClass'))
<1>1. PICK d : d = Head(todo)
  OBVIOUS
<1>2. /\ todo # <<>> /\ todo' = Tail(todo) /\ prog' = prog /\ phase = "declare"
      /\ Trida(d) \/ DeklProm(d) \/ DeklKonst(d) \/ Metoda(d)
  BY <1>1 DEF Declare
<1>3. PICK p, td, tab : p = prog /\ td = todo /\ tab = TabClass
  OBVIOUS
<1>4. AsRead(p, td, tab) /\ TabOK(tab) /\ td # <<>>
  BY <1>2, <1>3 DEF ReadInv, TablesInv
<1>5. d = td[1]
  <2>1. IsSeq(td)
    BY <1>3 DEF TablesInv, TodoOK
  <2> QED
    BY <1>1, <1>3, <1>4, <2>1 DEF IsSeq
<1>6. CASE phase' = "rejected"
  BY <1>2, <1>6 DEF ReadInv
<1>7. CASE phase' # "rejected"
  <2>1. ~Rejected
    BY <1>7 DEF Rejected
  <2>2. PICK u : u = TabClass'
    OBVIOUS
  <2>3. \/ /\ d.k = "class" /\ hledejClass(tab, d.id) = NONE
           /\ u = Before(ClassEnv(tab, d.id, d.parent), tab)
        \/ d.k = "var" /\ u = Before(deklProm(tab[1], d.id, d.static), Tail(tab))
        \/ \E ptr : d.k = "const" /\ u = Before(deklKonst(tab[1], d.id, ptr), Tail(tab))
        \/ \E n : d.k = "method" /\ u = Before(deklMethod(tab[1], d, n), Tail(tab))
    <3>1. CASE Trida(d)
      BY <1>3, <2>1, <2>2, <3>1 DEF Trida, Before
    <3>2. CASE DeklProm(d)
      BY <1>3, <2>1, <2>2, <3>2 DEF DeklProm, Declared, Before
    <3>3. CASE DeklKonst(d)
      <4>1. PICK ptr : d.k = "const" /\ u = Before(deklKonst(tab[1], d.id, ptr), Tail(tab))
        BY <1>3, <2>1, <2>2, <3>3 DEF DeklKonst, Declared, Before
      <4> QED
        BY <4>1
    <3>4. CASE Metoda(d)
      <4>1. PICK n : d.k = "method" /\ u = Before(deklMethod(tab[1], d, n), Tail(tab))
        BY <1>3, <2>1, <2>2, <3>4 DEF Metoda, Before
      <4> QED
        BY <4>1
    <3> QED
      BY <1>2, <3>1, <3>2, <3>3, <3>4
  <2>4. AsRead(p, Tail(td), u)
    BY <1>4, <1>5, <2>3, ReadStep
  <2> QED
    BY <1>2, <1>3, <2>2, <2>4 DEF ReadInv
<1> QED
  BY <1>6, <1>7

\* What is left alone by the other actions.
LEMMA ReadNext ==
  ASSUME NoClass, TablesInv, ReadInv, [Next]_vars
  PROVE  ReadInv'
<1>1. IsProgram(prog') /\ (phase' # "rejected" => AsRead(prog', todo', TabClass'))
  <2>1. CASE Declare
    BY <2>1, ReadDeclare
  <2>2. CASE ~Declare
    <3>1. UNCHANGED <<prog, todo, TabClass>>
      BY <2>2 DEF Next, MethodTranslate, bcout_to_file, kexe_load, vm_init_builtin_classes,
         vm_init_parent_pointers, vm_calculate_udo_sizes, vm_init_const_table_elems, Run,
         compiler, vars
    <3>2. phase = "rejected" => phase' = "rejected"
      BY <2>2 DEF Next, MethodTranslate, bcout_to_file, kexe_load, vm_init_builtin_classes,
         vm_init_parent_pointers, vm_calculate_udo_sizes, vm_init_const_table_elems, Run, vars
    <3> QED
      BY <3>1, <3>2 DEF ReadInv
  <2> QED
    BY <2>1, <2>2
<1> QED
  BY <1>1 DEF ReadInv, AsRead, Reading, Read, NamesOK, ParentOK, HasField, IsField, IsProgram, Ends,
              Parts, ClassText, Before, IsSeq

\* When all of the text has been read: class i of the program is class
\* n + 1 - i of the table, with all of its variables.
LEMMA AllRead ==
  ASSUME NEW p, NEW tab, IsSeq(tab), AsRead(p, <<>>, tab), NEW n, n = Len(p)
  PROVE  /\ n \in Nat /\ DOMAIN p = 1..n /\ Len(tab) = n /\ DOMAIN tab = 1..n /\ NamesOK(tab)
         /\ \A i \in 1..n :
              /\ n + 1 - i \in 1..n
              /\ tab[n + 1 - i].className = p[i].name /\ tab[n + 1 - i].parentName = p[i].parent
              /\ \A j \in DOMAIN p[i].body :
                   IsField(p[i].body[j]) => HasField(tab[n + 1 - i], p[i].body[j].id)
<1>1. PICK t, q, r, m : Reading(p, <<>>, t, q, r, m) /\ Read(p, tab, q, r, m)
  BY DEF AsRead
<1>2. n \in Nat /\ DOMAIN p = 1..n
  BY <1>1, ProgramFacts, SeqFacts DEF Reading
<1>3. PICK l \in Nat : l = Len(t)
  BY <1>1, SeqFacts DEF Reading
<1>4. r = l
  <2>1. r \in 0..l /\ Len(<<>>) = l - r
    BY <1>1, <1>3 DEF Reading
  <2> QED
    BY <2>1, EmptySeq
<1>5. /\ q \in [0..n -> Nat] /\ q[0] = 0 /\ q[n] = l
      /\ \A k \in 1..n : q[k] = q[k - 1] + Len(Parts(p)[k])
      /\ \A k \in 0..n : q[k] <= l
  BY <1>1, <1>3 DEF Reading, Ends
<1>6. m \in 0..n /\ (m = 0 => r = 0) /\ (m # 0 => r <= q[m])
  BY <1>1 DEF Reading
<1>7. ASSUME NEW k \in 1..n PROVE /\ k - 1 \in 0..n /\ q[k - 1] < q[k]
                                  /\ \A j \in DOMAIN p[k].body : q[k - 1] + 1 + j <= q[k]
  <2>1. k - 1 \in 0..n /\ k \in 0..n
    BY <1>2
  <2>2. PICK b \in Nat : b = Len(p[k].body) /\ DOMAIN p[k].body = 1..b
    <3>1. PICK s : s = p[k].body
      OBVIOUS
    <3>2. IsSeq(s)
      BY <1>1, <1>2, <3>1, ProgramFacts DEF Reading
    <3> QED
      BY <3>1, <3>2, SeqFacts
  <2>3. Len(Parts(p)[k]) = b + 1
    BY <1>1, <1>2, <2>2, PartFacts, ZenonT(30) DEF Reading
  <2>4. PICK x \in Nat : x = q[k - 1]
    BY <1>5, <2>1
  <2>5. q[k] = x + (b + 1)
    BY <1>5, <2>3, <2>4
  <2> QED
    BY <2>1, <2>2, <2>4, <2>5
<1>8. m = n
  <2>1. SUFFICES ASSUME m # n PROVE FALSE
    OBVIOUS
  <2>2. PICK k \in 1..n : k = m + 1 /\ k - 1 = m
    BY <1>2, <1>6, <2>1
  <2>3. q[m] < q[k] /\ q[k] <= l /\ q[m] \in Nat /\ q[k] \in Nat
    BY <1>2, <1>5, <1>6, <1>7, <2>2
  <2>4. l <= q[m]
    BY <1>4, <1>5, <1>6, <2>3
  <2> QED
    BY <2>3, <2>4
<1>9. /\ Len(tab) = n
      /\ \A i \in 1..n :
           /\ tab[n + 1 - i].className = p[i].name /\ tab[n + 1 - i].parentName = p[i].parent
           /\ \A j \in DOMAIN p[i].body :
                (i < n \/ q[i - 1] + 1 + j <= l) /\ IsField(p[i].body[j])
                  => HasField(tab[n + 1 - i], p[i].body[j].id)
  BY <1>1, <1>4, <1>8 DEF Read
<1>10. \A i \in 1..n : \A j \in DOMAIN p[i].body : i < n \/ q[i - 1] + 1 + j <= l
  <2> SUFFICES ASSUME NEW i \in 1..n, NEW j \in DOMAIN p[i].body, ~(i < n)
               PROVE  q[i - 1] + 1 + j <= l
    OBVIOUS
  <2>1. i = n
    BY <1>2
  <2>2. q[i - 1] + 1 + j <= q[i]
    BY <1>7
  <2> QED
    BY <1>5, <2>1, <2>2
<1>11. \A i \in 1..n : n + 1 - i \in 1..n
  BY <1>2
<1>12. DOMAIN tab = 1..n /\ NamesOK(tab)
  BY <1>9, SeqFacts DEF AsRead
<1> QED
  BY <1>2, <1>9, <1>10, <1>11, <1>12
=============================================================================
