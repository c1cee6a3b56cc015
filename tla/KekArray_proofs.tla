-------------------------- MODULE KekArray_proofs --------------------------
(***************************************************************************)
(* Proofs about KekArray, for any arrays, lengths and sizes: the blocks    *)
(* are what the arrays believe, no store leaves its block, the collector   *)
(* sees every element the program can read, and arrays are vectors.        *)
(***************************************************************************)
EXTENDS KekArray, TLAPS, FiniteSetTheorems, SequenceTheorems

\* What the program does although it is known to go wrong.
AppendsInPlace == "append in place" \in Unsafe
StoresBehind == "native growth" \in Unsafe

Cell == Val \cup {STALE}
Array == [len : Nat, alloc : Nat, b : Blk]
Block == [hlen : Nat, cells : Seq(Cell)]

\* What native_grow_array does for its caller when it has grown the array.
Then ==
  [k : {"idxa"}, i : Nat] \cup [k : {"append"}, b : Arr] \cup [k : {"set"}, i : Nat, v : Val]

Call == [k : {"grow"}, a : Arr, need : Nat, size : Nat, then : Then]

(* The types, whatever the program does.  Blocks of arrays are apart, the  *)
(* size in an array is that of its block, and neither length exceeds it.   *)
Shape ==
  /\ arr \in [Arr -> Array]
  /\ addr \in Seq([b : Blk, i : Nat]) /\ Len(addr) <= MaxAddr
  /\ blk \in [Used(arr, addr) -> Block]
  /\ \A b \in Used(arr, addr) : blk[b].hlen <= Len(blk[b].cells)
  /\ \A a \in Arr : /\ arr[a].len <= arr[a].alloc
                    /\ arr[a].alloc = Len(blk[arr[a].b].cells)
  /\ \A a, c \in Arr : arr[a].b = arr[c].b => a = c

(* An array grows because what its caller needs does not fit; its length   *)
(* and that of the array to be appended stay what they were.               *)
Growing ==
  call # Idle =>
    /\ call \in Call
    /\ call.need > arr[call.a].alloc
    /\ call.then.k = "idxa" =>
         /\ call.then.i \in Index(call.a) /\ call.need = call.then.i + 1
         /\ Len(addr) < MaxAddr
    /\ call.then.k = "append" =>
         /\ call.then.b # call.a
         /\ call.need = arr[call.a].len + arr[call.then.b].len
    /\ call.then.k = "set" =>
         /\ call.then.i \in Index(call.a) /\ call.need = call.then.i + 1
         /\ call.then.v \in Obj => StoresBehind

TInv == Shape /\ Growing

(* What the program can read is no stale pointer, and what it cannot read  *)
(* yet is NIL.                                                             *)
Clean ==
  \A a \in Arr : \A k \in 1..arr[a].alloc :
    IF k <= arr[a].len THEN blk[arr[a].b].cells[k] \in Val ELSE blk[arr[a].b].cells[k] = NIL

AInv == TInv /\ LengthsAgree /\ AddressesUsable
VInv == AInv /\ Clean

---------------------------------------------------------------------------
(* Names for blocks.                                                       *)
LEMMA FreeName ==
  ASSUME Shape PROVE FreeBlk \in Blk /\ FreeBlk \notin Used(arr, addr)
<1> DEFINE A == {arr[a].b : a \in Arr}
           D == {addr[k].b : k \in DOMAIN addr}
           f == [a \in Arr |-> arr[a].b]
           g == [k \in 1..Len(addr) |-> addr[k].b]
<1>1. DOMAIN addr = 1..Len(addr) /\ Len(addr) \in Nat /\ Len(addr) <= MaxAddr
  BY LenProperties DEF Shape
<1>2. IsFiniteSet(A) /\ Cardinality(A) <= Cardinality(Arr)
  <2>1. f \in Surjection(Arr, A)
    BY DEF Surjection
  <2> QED
    BY <2>1, FS_Surjection, BlockAssumption
<1>3. IsFiniteSet(D) /\ Cardinality(D) <= Len(addr)
  <2>1. g \in Surjection(1..Len(addr), D)
    BY <1>1 DEF Surjection
  <2>2. IsFiniteSet(1..Len(addr)) /\ Cardinality(1..Len(addr)) = Len(addr)
    <3>1. 1 \in Int /\ Len(addr) \in Int /\ (IF 1 > Len(addr) THEN 0 ELSE Len(addr) - 1 + 1) = Len(addr)
      BY <1>1
    <3> QED
      BY <3>1, FS_Interval
  <2> HIDE DEF g, D
  <2>3. IsFiniteSet(D) /\ Cardinality(D) <= Cardinality(1..Len(addr))
    BY <2>1, <2>2, FS_Surjection
  <2> QED
    BY <2>2, <2>3
<1> HIDE DEF A, D
<1>4. IsFiniteSet(A \cup D) /\ Cardinality(A \cup D) <= Cardinality(Arr) + MaxAddr
  <2>1. /\ IsFiniteSet(A \cup D)
        /\ Cardinality(A \cup D) = Cardinality(A) + Cardinality(D) - Cardinality(A \cap D)
    BY <1>2, <1>3, FS_Union
  <2>2. IsFiniteSet(A \cap D)
    BY <1>2, FS_Intersection
  <2>3. /\ Cardinality(A) \in Nat /\ Cardinality(D) \in Nat /\ Cardinality(A \cap D) \in Nat
        /\ Cardinality(Arr) \in Nat
    BY <1>2, <1>3, <2>2, FS_CardinalityType, BlockAssumption
  <2> QED
    BY <1>1, <1>2, <1>3, <2>1, <2>3, ArrayAssumption
<1>5. \E b \in Blk : b \notin A \cup D
  <2> SUFFICES ASSUME Blk \subseteq A \cup D PROVE FALSE
    OBVIOUS
  <2>1. Cardinality(Blk) <= Cardinality(A \cup D)
    BY <1>4, FS_Subset
  <2>2. /\ Cardinality(Blk) \in Nat /\ Cardinality(A \cup D) \in Nat
        /\ Cardinality(Arr) \in Nat
    BY <1>4, FS_CardinalityType, BlockAssumption
  <2> QED
    BY <1>4, <2>1, <2>2, BlockAssumption, ArrayAssumption
<1>6. Used(arr, addr) = A \cup D
  BY DEF Used, A, D
<1> QED
  BY <1>5, <1>6 DEF FreeBlk

LEMMA OwnNames == \E f \in [Arr -> Blk] : \A a, c \in Arr : a # c => f[a] # f[c]
<1> DEFINE n == Cardinality(Arr)
           m == Cardinality(Blk)
<1>1. /\ n \in Nat /\ ExistsBijection(1..n, Arr)
      /\ m \in Nat /\ ExistsBijection(1..m, Blk)
  BY BlockAssumption, FS_CardinalityType
<1>2. n <= m
  BY <1>1, BlockAssumption, ArrayAssumption
<1>3. PICK g \in Bijection(1..n, Arr) : TRUE
  BY <1>1 DEF ExistsBijection
<1>4. PICK h \in Bijection(1..m, Blk) : TRUE
  BY <1>1 DEF ExistsBijection
<1> HIDE DEF n, m
<1> DEFINE i == [a \in Arr |-> CHOOSE k \in 1..n : g[k] = a]
           f == [a \in Arr |-> h[i[a]]]
<1>5. \A a \in Arr : i[a] \in 1..n /\ g[i[a]] = a
  BY <1>3 DEF Bijection, Surjection
<1> HIDE DEF i
<1>6. \A a \in Arr : i[a] \in 1..m
  BY <1>1, <1>2, <1>5
<1>7. /\ h \in [1..m -> Blk]
      /\ \A j, k \in 1..m : j # k => h[j] # h[k]
  BY <1>4 DEF Bijection, Injection, IsInjective
<1>8. f \in [Arr -> Blk]
  BY <1>6, <1>7
<1>9. \A a, c \in Arr : a # c => f[a] # f[c]
  BY <1>5, <1>6, <1>7
<1> QED
  BY <1>8, <1>9

---------------------------------------------------------------------------
(* The operators on cells.                                                 *)
LEMMA WrittenCells ==
  ASSUME NEW S, NEW c \in Seq(S), NEW i \in Nat, NEW s \in Seq(S)
  PROVE  /\ Written(c, i, s) \in Seq(S)
         /\ Len(Written(c, i, s)) = Len(c)
         /\ \A k \in 1..Len(c) : Written(c, i, s)[k]
                = IF k > i /\ k <= i + Len(s) THEN s[k - i] ELSE c[k]
<1>1. /\ Len(c) \in Nat /\ DOMAIN c = 1..Len(c) /\ Len(s) \in Nat
      /\ \A k \in 1..Len(c) : c[k] \in S
      /\ \A k \in 1..Len(s) : s[k] \in S
  BY LenProperties
<1> DEFINE e == [k \in 1..Len(c) |-> IF k > i /\ k <= i + Len(s) THEN s[k - i] ELSE c[k]]
<1>2. \A k \in 1..Len(c) : /\ k \in (i + 1)..(i + Len(s)) <=> k > i /\ k <= i + Len(s)
                          /\ k > i /\ k <= i + Len(s) => k - i \in 1..Len(s)
  BY <1>1
<1>3. Written(c, i, s) = e
  BY <1>1, <1>2 DEF Written
<1>4. \A k \in 1..Len(c) : e[k] \in S
  BY <1>1, <1>2
<1>5. e \in Seq(S) /\ Len(e) = Len(c)
  BY <1>1, <1>4
<1> QED
  BY <1>3, <1>5

LEMMA NilCells ==
  ASSUME NEW n \in Nat
  PROVE  /\ Nils(n) \in Seq(Cell) /\ Len(Nils(n)) = n
         /\ \A k \in 1..n : Nils(n)[k] = NIL
  BY DEF Nils, Cell, Val

LEMMA FirstCells ==
  ASSUME NEW S, NEW c \in Seq(S), NEW n \in Nat, n <= Len(c)
  PROVE  /\ SubSeq(c, 1, n) \in Seq(S) /\ Len(SubSeq(c, 1, n)) = n
         /\ \A k \in 1..n : SubSeq(c, 1, n)[k] = c[k]
<1>1. Len(c) \in Nat /\ \A k \in 1..Len(c) : c[k] \in S
  BY LenProperties
<1>2. \A k \in 1..n : c[k] \in S
  BY <1>1
<1>3. /\ SubSeq(c, 1, n) \in Seq(S)
      /\ Len(SubSeq(c, 1, n)) = IF 1 <= n THEN n - 1 + 1 ELSE 0
      /\ \A k \in 1..n - 1 + 1 : SubSeq(c, 1, n)[k] = c[1 + k - 1]
  BY <1>2, SubSeqProperties
<1> QED
  BY <1>3

\* A scavenge touches only cells behind the length in the header.
LEMMA ScavengedBlock ==
  ASSUME NEW b \in Block
  PROVE  /\ Scavenged(b) \in Block
         /\ Scavenged(b).hlen = b.hlen /\ Len(Scavenged(b).cells) = Len(b.cells)
         /\ \A k \in 1..Len(b.cells) :
              k <= b.hlen \/ b.cells[k] \notin Obj => Scavenged(b).cells[k] = b.cells[k]
<1> DEFINE c == [k \in DOMAIN b.cells |->
                   IF k > b.hlen /\ b.cells[k] \in Obj THEN STALE ELSE b.cells[k]]
<1>1. /\ b.hlen \in Nat /\ b.cells \in Seq(Cell)
      /\ Len(b.cells) \in Nat /\ DOMAIN b.cells = 1..Len(b.cells)
      /\ \A k \in 1..Len(b.cells) : b.cells[k] \in Cell
  BY LenProperties DEF Block
<1>2. /\ c \in Seq(Cell) /\ Len(c) = Len(b.cells)
      /\ \A k \in 1..Len(b.cells) : k <= b.hlen \/ b.cells[k] \notin Obj => c[k] = b.cells[k]
  BY <1>1 DEF Cell
<1>3. Scavenged(b) = [hlen |-> b.hlen, cells |-> c]
  <2>1. \A x : [b EXCEPT !.cells = x] = [hlen |-> b.hlen, cells |-> x]
    BY DEF Block
  <2>2. Scavenged(b) = [b EXCEPT !.cells = c]
    BY Zenon DEF Scavenged
  <2> HIDE DEF c
  <2> QED
    BY <2>1, <2>2
<1> HIDE DEF c
<1> QED
  BY <1>1, <1>2, <1>3 DEF Block

LEMMA BlockParts ==
  ASSUME NEW b \in Block, NEW n, NEW c
  PROVE  /\ [b EXCEPT !.hlen = n] = [hlen |-> n, cells |-> b.cells]
         /\ [b EXCEPT !.cells = c] = [hlen |-> b.hlen, cells |-> c]
         /\ b = [hlen |-> b.hlen, cells |-> b.cells]
  BY DEF Block

LEMMA ArrayParts ==
  ASSUME NEW r \in Array, NEW n \in Nat
  PROVE  /\ [r EXCEPT !.len = n] \in Array
         /\ [r EXCEPT !.len = n].len = n
         /\ [r EXCEPT !.len = n].alloc = r.alloc /\ [r EXCEPT !.len = n].b = r.b
         /\ n = r.len => [r EXCEPT !.len = n] = r
  BY DEF Array

LEMMA PutCell ==
  ASSUME NEW c \in Seq(Cell), NEW j \in Nat, NEW v \in Cell
  PROVE  /\ [c EXCEPT ![j] = v] \in Seq(Cell)
         /\ Len([c EXCEPT ![j] = v]) = Len(c)
         /\ \A k \in 1..Len(c) : [c EXCEPT ![j] = v][k] = IF k = j THEN v ELSE c[k]
<1> DEFINE e == [k \in 1..Len(c) |-> IF k = j THEN v ELSE c[k]]
<1>1. /\ Len(c) \in Nat /\ DOMAIN c = 1..Len(c) /\ c \in [1..Len(c) -> Cell]
      /\ \A k \in 1..Len(c) : c[k] \in Cell
  BY LenProperties
<1>2. [c EXCEPT ![j] = v] = e
  BY <1>1
<1>3. e \in Seq(Cell) /\ Len(e) = Len(c)
  BY <1>1
<1> QED
  BY <1>2, <1>3

---------------------------------------------------------------------------
(* The blocks are what the arrays believe.                                 *)
LEMMA InitInv == Init => VInv
<1> SUFFICES ASSUME Init PROVE VInv
  OBVIOUS
<1> DEFINE own == CHOOSE f \in [Arr -> Blk] : \A a, c \in Arr : a # c => f[a] # f[c]
<1>1. own \in [Arr -> Blk] /\ \A a, c \in Arr : a # c => own[a] # own[c]
  BY OwnNames
<1> HIDE DEF own
<1>2. PICK n \in [Arr -> UNION {Literals[a] : a \in Arr}] :
       /\ \A a \in Arr : n[a] \in Literals[a]
       /\ arr = [a \in Arr |-> [len |-> n[a], b |-> own[a],
                                alloc |-> IF n[a] = 0 THEN InitSize ELSE n[a]]]
       /\ blk = [b \in {own[a] : a \in Arr} |->
                   LET a == CHOOSE c \in Arr : own[c] = b
                   IN NewBlk(arr[a].len, Nils(arr[a].alloc))]
       /\ addr = <<>>
       /\ call = Idle
  BY DEF Init, own
<1>3. \A a \in Arr : n[a] \in Nat
  BY <1>2, ArrayAssumption
<1>4. \A a \in Arr : /\ arr[a] \in Array /\ arr[a].b = own[a]
                     /\ arr[a].len <= arr[a].alloc /\ arr[a].len \in Nat /\ arr[a].alloc \in Nat
  BY <1>1, <1>2, <1>3, ArrayAssumption DEF Array
<1>5. arr \in [Arr -> Array]
  BY <1>2, <1>4
<1>6. addr = <<>> /\ addr \in Seq([b : Blk, i : Nat]) /\ Len(addr) = 0 /\ DOMAIN addr = {}
  BY <1>2
<1>7. Used(arr, addr) = {own[a] : a \in Arr}
  BY <1>4, <1>6 DEF Used
<1>8. \A a \in Arr : blk[arr[a].b] = NewBlk(arr[a].len, Nils(arr[a].alloc))
  <2> SUFFICES ASSUME NEW a \in Arr PROVE blk[own[a]] = NewBlk(arr[a].len, Nils(arr[a].alloc))
    BY <1>4
  <2>1. (CHOOSE c \in Arr : own[c] = own[a]) = a
    BY <1>1
  <2> QED
    BY <1>2, <2>1
<1>9. \A a \in Arr : /\ blk[arr[a].b] \in Block
                     /\ blk[arr[a].b].hlen = arr[a].len
                     /\ Len(blk[arr[a].b].cells) = arr[a].alloc
                     /\ \A k \in 1..arr[a].alloc : blk[arr[a].b].cells[k] = NIL
  <2> SUFFICES ASSUME NEW a \in Arr
               PROVE  /\ blk[arr[a].b] \in Block
                      /\ blk[arr[a].b].hlen = arr[a].len
                      /\ Len(blk[arr[a].b].cells) = arr[a].alloc
                      /\ \A k \in 1..arr[a].alloc : blk[arr[a].b].cells[k] = NIL
    OBVIOUS
  <2> DEFINE N == Nils(arr[a].alloc)
  <2>1. N \in Seq(Cell) /\ Len(N) = arr[a].alloc /\ \A k \in 1..arr[a].alloc : N[k] = NIL
    BY <1>4, NilCells
  <2>2. blk[arr[a].b] = [hlen |-> arr[a].len, cells |-> N]
    BY <1>8 DEF NewBlk
  <2> HIDE DEF N
  <2> QED
    BY <1>4, <2>1, <2>2 DEF Block
<1>10. \A b \in Used(arr, addr) : blk[b] \in Block /\ blk[b].hlen <= Len(blk[b].cells)
  BY <1>4, <1>7, <1>9
<1>11. blk \in [Used(arr, addr) -> Block]
  BY <1>2, <1>7, <1>10
<1>12. \A a, c \in Arr : arr[a].b = arr[c].b => a = c
  BY <1>1, <1>4
<1>13. Shape
  BY <1>4, <1>5, <1>6, <1>9, <1>10, <1>11, <1>12, ArrayAssumption DEF Shape
<1>14. Growing
  BY <1>2 DEF Growing
<1>15. LengthsAgree /\ AddressesUsable
  BY <1>6, <1>9 DEF LengthsAgree, AddressesUsable
<1>16. Clean
  BY <1>4, <1>9 DEF Clean, Val
<1> QED
  BY <1>13, <1>14, <1>15, <1>16 DEF VInv, AInv, TInv

\* What Shape says of one array, one block and one address.
LEMMA ShapeFacts ==
  ASSUME Shape
  PROVE  /\ \A a \in Arr : /\ arr[a] \in Array /\ arr[a].len \in Nat /\ arr[a].alloc \in Nat
                           /\ arr[a].b \in Blk /\ arr[a].b \in Used(arr, addr)
                           /\ arr[a].len <= arr[a].alloc
                           /\ Len(blk[arr[a].b].cells) = arr[a].alloc
         /\ \A b \in Used(arr, addr) :
              /\ blk[b] \in Block /\ blk[b].hlen \in Nat /\ blk[b].cells \in Seq(Cell)
              /\ Len(blk[b].cells) \in Nat /\ blk[b].hlen <= Len(blk[b].cells)
              /\ \A k \in 1..Len(blk[b].cells) : blk[b].cells[k] \in Cell
         /\ DOMAIN addr = 1..Len(addr) /\ Len(addr) \in Nat
         /\ \A k \in 1..Len(addr) : /\ addr[k] \in [b : Blk, i : Nat]
                                    /\ addr[k].i \in Nat /\ addr[k].b \in Used(arr, addr)
         /\ DOMAIN blk = Used(arr, addr)
<1>1. \A a \in Arr : arr[a] \in Array /\ arr[a].b \in Used(arr, addr)
  BY DEF Shape, Used
<1>2. \A b \in Used(arr, addr) : blk[b] \in Block
  BY DEF Shape
<1>3. \A b \in Used(arr, addr) :
        /\ blk[b].hlen \in Nat /\ blk[b].cells \in Seq(Cell) /\ blk[b].hlen <= Len(blk[b].cells)
  BY <1>2 DEF Shape, Block
<1>4. \A b \in Used(arr, addr) :
        /\ Len(blk[b].cells) \in Nat
        /\ \A k \in 1..Len(blk[b].cells) : blk[b].cells[k] \in Cell
  BY <1>3, LenProperties
<1>5. /\ DOMAIN addr = 1..Len(addr) /\ Len(addr) \in Nat
      /\ \A k \in 1..Len(addr) : addr[k] \in [b : Blk, i : Nat]
  <2>1. addr \in Seq([b : Blk, i : Nat])
    BY DEF Shape
  <2> QED
    BY <2>1, LenProperties
<1>6. \A k \in 1..Len(addr) : addr[k].i \in Nat /\ addr[k].b \in Used(arr, addr)
  BY <1>5 DEF Used
<1>7. \A a \in Arr : /\ arr[a].len \in Nat /\ arr[a].alloc \in Nat /\ arr[a].b \in Blk
                     /\ arr[a].len <= arr[a].alloc
                     /\ Len(blk[arr[a].b].cells) = arr[a].alloc
  BY <1>1 DEF Array, Shape
<1> QED
  BY <1>1, <1>2, <1>3, <1>4, <1>5, <1>6, <1>7 DEF Shape

\* A call that finds room changes one length and one block.
LEMMA OneArray ==
  ASSUME Shape, NEW a \in Arr, NEW A \in Array, NEW B \in Block,
         arr' = [arr EXCEPT ![a] = A], blk' = [blk EXCEPT ![arr[a].b] = B],
         A.alloc = arr[a].alloc, A.b = arr[a].b, A.len <= arr[a].alloc, B.hlen <= arr[a].alloc, Len(B.cells) = arr[a].alloc,
         addr' \in Seq([b : Blk, i : Nat]), Len(addr') <= MaxAddr,
         Used(arr, addr') = Used(arr, addr)
  PROVE  /\ Shape'
         /\ Used(arr', addr') = Used(arr, addr)
         /\ \A c \in Arr : /\ arr'[c].b = arr[c].b /\ arr'[c].alloc = arr[c].alloc
                           /\ arr'[c].len = IF c = a THEN A.len ELSE arr[c].len
                           /\ blk'[arr[c].b] = IF c = a THEN B ELSE blk[arr[c].b]
         /\ \A b \in Used(arr, addr) : blk'[b] = IF b = arr[a].b THEN B ELSE blk[b]
<1>1. /\ \A c \in Arr : /\ arr[c] \in Array /\ arr[c].len \in Nat /\ arr[c].alloc \in Nat
                        /\ arr[c].b \in Blk /\ arr[c].b \in Used(arr, addr)
                        /\ arr[c].len <= arr[c].alloc
                        /\ Len(blk[arr[c].b].cells) = arr[c].alloc
      /\ \A b \in Used(arr, addr) : blk[b] \in Block /\ blk[b].hlen <= Len(blk[b].cells)
      /\ blk \in [Used(arr, addr) -> Block] /\ arr \in [Arr -> Array]
      /\ \A c, d \in Arr : arr[c].b = arr[d].b => c = d
  BY ShapeFacts DEF Shape
<1>2. /\ arr' \in [Arr -> Array]
      /\ \A c \in Arr : /\ arr'[c].b = arr[c].b /\ arr'[c].alloc = arr[c].alloc
                        /\ arr'[c].len = IF c = a THEN A.len ELSE arr[c].len
  BY <1>1
<1>3. Used(arr', addr') = Used(arr, addr)
  <2>1. {arr'[c].b : c \in Arr} = {arr[c].b : c \in Arr}
    BY <1>2
  <2>2. Used(arr', addr') = Used(arr, addr')
    BY <2>1 DEF Used
  <2> QED
    BY <2>2
<1>4. \A b \in Used(arr, addr) : blk'[b] = IF b = arr[a].b THEN B ELSE blk[b]
  BY <1>1
<1>5. blk' \in [Used(arr, addr) -> Block]
  BY <1>1
<1>6. \A c \in Arr : blk'[arr[c].b] = IF c = a THEN B ELSE blk[arr[c].b]
  BY <1>1, <1>4
<1>7. \A c \in Arr : /\ arr'[c].len <= arr'[c].alloc
                     /\ arr'[c].alloc = Len(blk'[arr'[c].b].cells)
  BY <1>1, <1>2, <1>6
<1>8. \A b \in Used(arr, addr) : blk'[b].hlen <= Len(blk'[b].cells)
  BY <1>1, <1>4
<1>9. \A c, d \in Arr : arr'[c].b = arr'[d].b => c = d
  BY <1>1, <1>2
<1>10. Shape'
  BY <1>2, <1>3, <1>5, <1>7, <1>8, <1>9 DEF Shape
<1> QED
  BY <1>2, <1>3, <1>4, <1>6, <1>10

\* ... and leaves array and block agreed when it sets both lengths, and what
\* can be read clean when what it stores is.
LEMMA OneArrayInv ==
  ASSUME Shape, LengthsAgree, AddressesUsable,
         NEW a \in Arr, NEW n \in Nat, NEW B \in Block,
         Used(arr', addr') = Used(arr, addr),
         \A c \in Arr : /\ arr'[c].b = arr[c].b /\ arr'[c].alloc = arr[c].alloc
                        /\ arr'[c].len = IF c = a THEN n ELSE arr[c].len
                        /\ blk'[arr[c].b] = IF c = a THEN B ELSE blk[arr[c].b],
         \A b \in Used(arr, addr) : blk'[b] = IF b = arr[a].b THEN B ELSE blk[b],
         B.hlen = n, n >= arr[a].len, n <= arr[a].alloc, Len(B.cells) = arr[a].alloc,
         \A k \in DOMAIN addr' : \/ k \in DOMAIN addr /\ addr'[k] = addr[k]
                                 \/ addr'[k].b = arr[a].b /\ addr'[k].i \in Nat /\ addr'[k].i < n
  PROVE  /\ LengthsAgree' /\ AddressesUsable'
         /\ Clean /\ (\A k \in 1..arr[a].alloc :
                        IF k <= n THEN B.cells[k] \in Val ELSE B.cells[k] = NIL)
            => Clean'
<1>1. LengthsAgree'
  BY DEF LengthsAgree
<1>2. ASSUME NEW k \in DOMAIN addr'
      PROVE  /\ addr'[k].i < Len(blk'[addr'[k].b].cells)
             /\ addr'[k].i < blk'[addr'[k].b].hlen
  <2>1. CASE k \in DOMAIN addr /\ addr'[k] = addr[k]
    <3>1. /\ addr[k].b \in Used(arr, addr) /\ addr[k].i \in Nat
          /\ addr[k].i < Len(blk[addr[k].b].cells) /\ addr[k].i < blk[addr[k].b].hlen
      BY <2>1, ShapeFacts DEF AddressesUsable
    <3>2. CASE addr[k].b = arr[a].b
      <4>1. addr[k].i < arr[a].alloc /\ addr[k].i < arr[a].len
        BY <3>1, <3>2, ShapeFacts DEF LengthsAgree
      <4> QED
        BY <2>1, <3>1, <3>2, <4>1, ShapeFacts
    <3>3. CASE addr[k].b # arr[a].b
      BY <2>1, <3>1, <3>3
    <3> QED
      BY <3>2, <3>3
  <2>2. CASE addr'[k].b = arr[a].b /\ addr'[k].i \in Nat /\ addr'[k].i < n
    BY <2>2, ShapeFacts
  <2> QED
    BY <1>2, <2>1, <2>2
<1>3. AddressesUsable'
  BY <1>2 DEF AddressesUsable
<1>4. ASSUME Clean, \A k \in 1..arr[a].alloc :
                      IF k <= n THEN B.cells[k] \in Val ELSE B.cells[k] = NIL
      PROVE  Clean'
  BY <1>4 DEF Clean
<1> QED
  BY <1>1, <1>3, <1>4

\* An address that is pushed.
LEMMA Pushed ==
  ASSUME Shape, NEW p \in [b : Blk, i : Nat], Len(addr) < MaxAddr,
         addr' = Append(addr, p)
  PROVE  /\ addr' \in Seq([b : Blk, i : Nat]) /\ Len(addr') <= MaxAddr
         /\ DOMAIN addr' = 1..(Len(addr) + 1) /\ addr'[Len(addr) + 1] = p
         /\ \A k \in DOMAIN addr' : k # Len(addr) + 1 => k \in DOMAIN addr /\ addr'[k] = addr[k]
         /\ {addr'[k].b : k \in DOMAIN addr'} = {addr[k].b : k \in DOMAIN addr} \cup {p.b}
<1>1. addr \in Seq([b : Blk, i : Nat]) /\ Len(addr) \in Nat /\ DOMAIN addr = 1..Len(addr)
  BY ShapeFacts DEF Shape
<1>2. /\ addr' \in Seq([b : Blk, i : Nat]) /\ Len(addr') = Len(addr) + 1
      /\ \A k \in 1..Len(addr) : addr'[k] = addr[k]
      /\ addr'[Len(addr) + 1] = p
  BY <1>1, AppendProperties
<1>3. DOMAIN addr' = 1..(Len(addr) + 1)
  BY <1>2, LenProperties
<1>4. Len(addr') <= MaxAddr
  BY <1>1, <1>2, ArrayAssumption
<1>5. \A k \in DOMAIN addr' : k # Len(addr) + 1 => k \in DOMAIN addr /\ addr'[k] = addr[k]
  BY <1>1, <1>2, <1>3
<1>6. DOMAIN addr \subseteq DOMAIN addr' /\ Len(addr) + 1 \in DOMAIN addr'
  BY <1>1, <1>3
<1>7. {addr'[k].b : k \in DOMAIN addr'} = {addr[k].b : k \in DOMAIN addr} \cup {p.b}
  BY <1>1, <1>2, <1>5, <1>6
<1> QED
  BY <1>2, <1>3, <1>4, <1>5, <1>7

---------------------------------------------------------------------------
(* Calls that find room.                                                   *)
LEMMA IDXARoom ==
  ASSUME Shape, NEW a \in Arr, NEW i \in Nat, IDXA_Room(a, i)
  PROVE  /\ Shape' /\ Growing' /\ (AInv => AInv') /\ (VInv => VInv')
         /\ \A c \in Arr : /\ arr'[c].b = arr[c].b
                           /\ arr'[c].len = IF c = a /\ i >= arr[a].len THEN i + 1 ELSE arr[c].len
                           /\ blk'[arr[c].b].cells = blk[arr[c].b].cells
<1>0. PICK b, n, h : /\ b = arr[a].b
                     /\ n = IF i >= arr[a].len THEN i + 1 ELSE arr[a].len
                     /\ h = IF i >= arr[a].len THEN i + 1 ELSE blk[b].hlen
  OBVIOUS
<1>p. PICK A, B, p : /\ A = [arr[a] EXCEPT !.len = n]
                     /\ B = [hlen |-> h, cells |-> blk[b].cells]
                     /\ p = [b |-> b, i |-> i]
  OBVIOUS
<1>1. /\ arr[a] \in Array /\ arr[a].len \in Nat /\ arr[a].alloc \in Nat /\ b \in Blk
      /\ b \in Used(arr, addr) /\ arr[a].len <= arr[a].alloc
      /\ blk[b] \in Block /\ blk[b].hlen \in Nat /\ blk[b].cells \in Seq(Cell)
      /\ Len(blk[b].cells) = arr[a].alloc /\ blk[b].hlen <= arr[a].alloc
      /\ arr \in [Arr -> Array] /\ blk \in [Used(arr, addr) -> Block]
  BY <1>0, ShapeFacts DEF Shape
<1>2. call = Idle /\ call' = Idle /\ Len(addr) < MaxAddr /\ i < arr[a].alloc
      /\ addr' = Append(addr, p)
  BY <1>0, <1>p DEF IDXA_Room, Address
<1>3. n \in Nat /\ h \in Nat /\ n <= arr[a].alloc /\ h <= arr[a].alloc /\ i < n /\ n >= arr[a].len
  BY <1>0, <1>1, <1>2
<1>4. /\ A \in Array /\ A.len = n /\ A.alloc = arr[a].alloc /\ A.b = b
      /\ B \in Block /\ B.hlen = h /\ B.cells = blk[b].cells
  BY <1>0, <1>1, <1>3, <1>p, ArrayParts DEF Block
<1>5. arr' = [arr EXCEPT ![a] = A] /\ blk' = [blk EXCEPT ![b] = B]
  <2>1. CASE i >= arr[a].len
    <3>1. arr' = [arr EXCEPT ![a] = [arr[a] EXCEPT !.len = i + 1]]
          /\ blk' = [blk EXCEPT ![b] = [blk[b] EXCEPT !.hlen = i + 1]]
      BY <1>0, <2>1 DEF IDXA_Room, arr_set_length
    <3>2. [blk[b] EXCEPT !.hlen = i + 1] = B
      BY <1>0, <1>1, <1>p, <2>1, BlockParts
    <3> QED
      BY <1>0, <1>p, <2>1, <3>1, <3>2
  <2>2. CASE ~(i >= arr[a].len)
    <3>1. arr' = arr /\ blk' = blk
      BY <2>2 DEF IDXA_Room
    <3>2. blk[b] = B /\ arr[a] = A
      BY <1>0, <1>1, <1>p, <2>2, BlockParts, ArrayParts
    <3> QED
      BY <1>1, <3>1, <3>2
  <2> QED
    BY <2>1, <2>2
<1>6. p \in [b : Blk, i : Nat]
  BY <1>1, <1>p
<1>7. /\ addr' \in Seq([b : Blk, i : Nat]) /\ Len(addr') <= MaxAddr
      /\ DOMAIN addr' = 1..(Len(addr) + 1) /\ addr'[Len(addr) + 1] = p
      /\ \A k \in DOMAIN addr' : k # Len(addr) + 1 => k \in DOMAIN addr /\ addr'[k] = addr[k]
      /\ {addr'[k].b : k \in DOMAIN addr'} = {addr[k].b : k \in DOMAIN addr} \cup {p.b}
  BY <1>2, <1>6, Pushed
<1>8. Used(arr, addr') = Used(arr, addr)
  <2>1. p.b = arr[a].b
    BY <1>0, <1>p
  <2>2. {addr'[k].b : k \in DOMAIN addr'} = {addr[k].b : k \in DOMAIN addr} \cup {arr[a].b}
    BY <1>7, <2>1
  <2> QED
    BY <2>2 DEF Used
<1>9. /\ Shape' /\ Used(arr', addr') = Used(arr, addr)
      /\ \A c \in Arr : /\ arr'[c].b = arr[c].b /\ arr'[c].alloc = arr[c].alloc
                        /\ arr'[c].len = IF c = a THEN n ELSE arr[c].len
                        /\ blk'[arr[c].b] = IF c = a THEN B ELSE blk[arr[c].b]
      /\ \A e \in Used(arr, addr) : blk'[e] = IF e = b THEN B ELSE blk[e]
  <2>1. /\ A.len <= arr[a].alloc /\ B.hlen <= arr[a].alloc /\ Len(B.cells) = arr[a].alloc
        /\ addr' \in Seq([b : Blk, i : Nat]) /\ Len(addr') <= MaxAddr
    BY <1>1, <1>3, <1>4, <1>7
  <2>2. /\ A \in Array /\ A.alloc = arr[a].alloc /\ A.b = arr[a].b /\ B \in Block
        /\ arr' = [arr EXCEPT ![a] = A] /\ blk' = [blk EXCEPT ![arr[a].b] = B]
    BY <1>0, <1>4, <1>5
  <2>3. /\ Shape' /\ Used(arr', addr') = Used(arr, addr)
        /\ \A c \in Arr : /\ arr'[c].b = arr[c].b /\ arr'[c].alloc = arr[c].alloc
                          /\ arr'[c].len = IF c = a THEN A.len ELSE arr[c].len
                          /\ blk'[arr[c].b] = IF c = a THEN B ELSE blk[arr[c].b]
        /\ \A e \in Used(arr, addr) : blk'[e] = IF e = arr[a].b THEN B ELSE blk[e]
    BY <1>8, <2>1, <2>2, OneArray, ZenonT(30)
  <2> QED
    BY <1>0, <1>4, <2>3
<1>10. Growing'
  BY <1>2 DEF Growing
<1>11. ASSUME LengthsAgree, AddressesUsable
       PROVE  LengthsAgree' /\ AddressesUsable' /\ (Clean => Clean')
  <2>1. h = n
    BY <1>0, <1>11 DEF LengthsAgree
  <2>2. \A k \in DOMAIN addr' : \/ k \in DOMAIN addr /\ addr'[k] = addr[k]
                                \/ addr'[k].b = b /\ addr'[k].i \in Nat /\ addr'[k].i < n
    BY <1>3, <1>7, <1>p
  <2>3. /\ LengthsAgree' /\ AddressesUsable'
        /\ Clean /\ (\A k \in 1..arr[a].alloc :
                       IF k <= n THEN B.cells[k] \in Val ELSE B.cells[k] = NIL)
           => Clean'
    <3>1. /\ B \in Block /\ B.hlen = n /\ n >= arr[a].len /\ n <= arr[a].alloc
          /\ Len(B.cells) = arr[a].alloc /\ n \in Nat
          /\ \A e \in Used(arr, addr) : blk'[e] = IF e = arr[a].b THEN B ELSE blk[e]
          /\ \A k \in DOMAIN addr' : \/ k \in DOMAIN addr /\ addr'[k] = addr[k]
                                     \/ addr'[k].b = arr[a].b /\ addr'[k].i \in Nat /\ addr'[k].i < n
      BY <1>0, <1>1, <1>3, <1>4, <1>9, <2>1, <2>2
    <3> QED
      BY <1>9, <1>11, <3>1, OneArrayInv
  <2>4. Clean => \A k \in 1..arr[a].alloc :
                   IF k <= n THEN B.cells[k] \in Val ELSE B.cells[k] = NIL
    BY <1>0, <1>1, <1>3, <1>4 DEF Clean, Val
  <2> QED
    BY <2>3, <2>4
<1>12. \A c \in Arr : /\ arr'[c].b = arr[c].b
                      /\ arr'[c].len = IF c = a /\ i >= arr[a].len THEN i + 1 ELSE arr[c].len
                      /\ blk'[arr[c].b].cells = blk[arr[c].b].cells
  BY <1>0, <1>4, <1>9
<1> QED
  BY <1>9, <1>10, <1>11, <1>12 DEF AInv, VInv, TInv

\* array_append changes the array's length alone: what it appends has to be
\* empty for the lengths to agree.
LEMMA AppendRoom ==
  ASSUME Shape, NEW a \in Arr, NEW e \in Arr, array_append_Room(a, e)
  PROVE  /\ Shape' /\ Growing' /\ addr' = addr
         /\ ~AppendsInPlace =>
              /\ (AInv => AInv') /\ (VInv => VInv')
              /\ arr[e].len = 0
              /\ \A c \in Arr :
                   /\ arr'[c].b = arr[c].b /\ arr'[c].len = arr[c].len
                   /\ \A k \in 1..arr[c].alloc :
                        blk'[arr[c].b].cells[k] = blk[arr[c].b].cells[k]
<1>c. PICK l, m, cs, s : /\ l = arr[a].len /\ m = arr[e].len
                         /\ cs = blk[arr[a].b].cells /\ s = Elements(e)
  OBVIOUS
<1>1. PICK n, N : n = l + m /\ N = Written(cs, l, s)
  OBVIOUS
<1>2. PICK A, B : A = [arr[a] EXCEPT !.len = n]
                  /\ B = [hlen |-> blk[arr[a].b].hlen, cells |-> N]
  OBVIOUS
<1>3. /\ arr[a] \in Array /\ arr[a].len \in Nat /\ arr[a].alloc \in Nat /\ arr[a].b \in Blk
      /\ arr[e].len \in Nat /\ arr[e].len <= Len(blk[arr[e].b].cells)
      /\ blk[arr[e].b].cells \in Seq(Cell)
      /\ blk[arr[a].b] \in Block /\ blk[arr[a].b].hlen \in Nat
      /\ blk[arr[a].b].cells \in Seq(Cell)
      /\ Len(blk[arr[a].b].cells) = arr[a].alloc /\ blk[arr[a].b].hlen <= arr[a].alloc
  BY ShapeFacts
<1>4. /\ call = Idle /\ call' = Idle /\ n <= arr[a].alloc /\ addr' = addr
      /\ arr[e].len > 0 => AppendsInPlace
      /\ arr' = [arr EXCEPT ![a].len = n]
      /\ blk' = [blk EXCEPT ![arr[a].b].cells = N]
  BY <1>1, <1>c DEF array_append_Room, AppendsInPlace
<1>5. /\ Elements(e) \in Seq(Cell) /\ Len(Elements(e)) = arr[e].len
  BY <1>3, FirstCells DEF Elements
<1>6. /\ N \in Seq(Cell) /\ Len(N) = arr[a].alloc
      /\ arr[e].len = 0 => \A k \in 1..arr[a].alloc : N[k] = blk[arr[a].b].cells[k]
  <2>1. cs \in Seq(Cell) /\ s \in Seq(Cell) /\ l \in Nat /\ Len(s) = m /\ m \in Nat
        /\ Len(cs) = arr[a].alloc
    BY <1>3, <1>5, <1>c
  <2>2. N = Written(cs, l, s)
    BY <1>1
  <2>3. /\ N \in Seq(Cell) /\ Len(N) = Len(cs)
        /\ \A k \in 1..Len(cs) : N[k] = IF k > l /\ k <= l + Len(s) THEN s[k - l] ELSE cs[k]
    <3>1. cs \in Seq(Cell) /\ s \in Seq(Cell) /\ l \in Nat
      BY <2>1
    <3> QED
      BY <2>2, <3>1, WrittenCells
  <2>4. ASSUME m = 0, NEW k \in 1..Len(cs) PROVE N[k] = cs[k]
    <3>1. N[k] = IF k > l /\ k <= l + Len(s) THEN s[k - l] ELSE cs[k]
      BY <2>3
    <3>2. ~(k > l /\ k <= l + Len(s))
      BY <2>1, <2>4
    <3> QED
      BY <3>1, <3>2
  <2> QED
    BY <1>c, <2>1, <2>3, <2>4
<1>7. /\ A \in Array /\ A.len = n /\ A.alloc = arr[a].alloc /\ A.b = arr[a].b /\ n \in Nat
      /\ B \in Block /\ B.hlen = blk[arr[a].b].hlen /\ B.cells = N
  <2>1. n \in Nat
    BY <1>1, <1>3, <1>c
  <2>2. A \in Array /\ A.len = n /\ A.alloc = arr[a].alloc /\ A.b = arr[a].b
    BY <1>2, <1>3, <2>1, ArrayParts
  <2> QED
    BY <1>2, <1>3, <1>6, <2>1, <2>2 DEF Block
<1>8. arr' = [arr EXCEPT ![a] = A] /\ blk' = [blk EXCEPT ![arr[a].b] = B]
  <2>1. [blk[arr[a].b] EXCEPT !.cells = N] = B
    BY <1>2, <1>3, BlockParts
  <2>2. /\ arr' = [arr EXCEPT ![a] = [arr[a] EXCEPT !.len = n]]
        /\ blk' = [blk EXCEPT ![arr[a].b] = [blk[arr[a].b] EXCEPT !.cells = N]]
    BY <1>4
  <2> QED
    BY <1>2, <2>1, <2>2
<1>9. /\ Shape' /\ Used(arr', addr') = Used(arr, addr)
      /\ \A c \in Arr : /\ arr'[c].b = arr[c].b /\ arr'[c].alloc = arr[c].alloc
                        /\ arr'[c].len = IF c = a THEN A.len ELSE arr[c].len
                        /\ blk'[arr[c].b] = IF c = a THEN B ELSE blk[arr[c].b]
      /\ \A b \in Used(arr, addr) : blk'[b] = IF b = arr[a].b THEN B ELSE blk[b]
  <2>1. /\ A \in Array /\ A.alloc = arr[a].alloc /\ A.b = arr[a].b /\ B \in Block
        /\ A.len <= arr[a].alloc /\ B.hlen <= arr[a].alloc /\ Len(B.cells) = arr[a].alloc
        /\ addr' \in Seq([b : Blk, i : Nat]) /\ Len(addr') <= MaxAddr
        /\ Used(arr, addr') = Used(arr, addr)
    BY <1>3, <1>4, <1>6, <1>7 DEF Shape
  <2> QED
    BY <1>8, <2>1, OneArray, ZenonT(30)
<1>10. Growing'
  BY <1>4 DEF Growing
<1>11. ASSUME LengthsAgree, AddressesUsable, arr[e].len = 0
       PROVE  LengthsAgree' /\ AddressesUsable' /\ (Clean => Clean')
  <2>1. n = arr[a].len /\ B.hlen = n
    BY <1>1, <1>3, <1>7, <1>11, <1>c DEF LengthsAgree
  <2>2. /\ n >= arr[a].len /\ n <= arr[a].alloc /\ Len(B.cells) = arr[a].alloc
        /\ \A c \in Arr : /\ arr'[c].b = arr[c].b /\ arr'[c].alloc = arr[c].alloc
                          /\ arr'[c].len = IF c = a THEN n ELSE arr[c].len
                          /\ blk'[arr[c].b] = IF c = a THEN B ELSE blk[arr[c].b]
        /\ \A k \in DOMAIN addr' : \/ k \in DOMAIN addr /\ addr'[k] = addr[k]
                                   \/ addr'[k].b = arr[a].b /\ addr'[k].i \in Nat /\ addr'[k].i < n
    <3>1. n >= arr[a].len /\ n <= arr[a].alloc /\ Len(B.cells) = arr[a].alloc
      <4>1. n >= arr[a].len
        BY <1>3, <2>1
      <4>2. n <= arr[a].alloc
        BY <1>4
      <4>3. Len(B.cells) = arr[a].alloc
        BY <1>6, <1>7
      <4> QED
        BY <4>1, <4>2, <4>3
    <3>2. \A k \in DOMAIN addr' : k \in DOMAIN addr /\ addr'[k] = addr[k]
      BY <1>4
    <3>3. A.len = n
      BY <1>7
    <3>4. \A d \in Arr : arr'[d].len = IF d = a THEN n ELSE arr[d].len
      BY <1>9, <3>3
    <3> QED
      BY <1>9, <3>1, <3>2, <3>4
  <2>3. /\ LengthsAgree' /\ AddressesUsable'
        /\ Clean /\ (\A k \in 1..arr[a].alloc :
                       IF k <= n THEN B.cells[k] \in Val ELSE B.cells[k] = NIL)
           => Clean'
    BY <1>7, <1>9, <1>11, <2>1, <2>2, OneArrayInv
  <2>4. Clean => \A k \in 1..arr[a].alloc :
                   IF k <= n THEN B.cells[k] \in Val ELSE B.cells[k] = NIL
    BY <1>6, <1>7, <1>11, <2>1 DEF Clean
  <2> QED
    BY <2>3, <2>4
<1>12. ASSUME arr[e].len = 0, NEW d \in Arr
       PROVE  /\ arr'[d].b = arr[d].b /\ arr'[d].len = arr[d].len
              /\ \A k \in 1..arr[d].alloc :
                   blk'[arr[d].b].cells[k] = blk[arr[d].b].cells[k]
  <2>1. A.len = arr[a].len
    BY <1>1, <1>3, <1>7, <1>12, <1>c
  <2>2. \A k \in 1..arr[a].alloc : B.cells[k] = blk[arr[a].b].cells[k]
    BY <1>6, <1>7, <1>12
  <2>3. /\ arr'[d].b = arr[d].b /\ arr'[d].len = IF d = a THEN A.len ELSE arr[d].len
        /\ blk'[arr[d].b] = IF d = a THEN B ELSE blk[arr[d].b]
    BY <1>9
  <2> QED
    BY <2>1, <2>2, <2>3
<1>13. ~AppendsInPlace => arr[e].len = 0
  <2>1. arr[e].len \in Nat
    BY <1>3
  <2>2. arr[e].len > 0 => AppendsInPlace
    BY DEF array_append_Room, AppendsInPlace
  <2> QED
    BY <2>1, <2>2
<1>14. ASSUME ~AppendsInPlace
       PROVE  (AInv => AInv') /\ (VInv => VInv')
  BY <1>9, <1>10, <1>11, <1>13, <1>14 DEF AInv, VInv, TInv
<1> QED
  BY <1>4, <1>9, <1>10, <1>12, <1>13, <1>14

LEMMA SetRoom ==
  ASSUME Shape, NEW a \in Arr, NEW i \in Nat, NEW v \in Val, native_arr_elem_set_Room(a, i, v)
  PROVE  /\ Shape' /\ Growing' /\ (AInv => AInv') /\ (VInv => VInv')
         /\ addr' = addr /\ i < arr[a].alloc
         /\ \A c \in Arr :
              /\ arr'[c].b = arr[c].b
              /\ arr'[c].len = IF c = a /\ i >= arr[a].len THEN i + 1 ELSE arr[c].len
              /\ \A k \in 1..arr[c].alloc :
                   blk'[arr[c].b].cells[k]
                     = IF c = a /\ k = i + 1 THEN v ELSE blk[arr[c].b].cells[k]
<1>c. PICK cs : cs = blk[arr[a].b].cells
  OBVIOUS
<1>1. PICK n, N, h : /\ n = IF i >= arr[a].len THEN i + 1 ELSE arr[a].len
                     /\ h = IF i >= arr[a].len THEN i + 1 ELSE blk[arr[a].b].hlen
                     /\ N = Written(cs, i, <<v>>)
  OBVIOUS
<1>2. PICK A, B : A = [arr[a] EXCEPT !.len = n] /\ B = [hlen |-> h, cells |-> N]
  OBVIOUS
<1>3. /\ arr[a] \in Array /\ arr[a].len \in Nat /\ arr[a].alloc \in Nat /\ arr[a].b \in Blk
      /\ arr[a].len <= arr[a].alloc
      /\ blk[arr[a].b] \in Block /\ blk[arr[a].b].hlen \in Nat
      /\ blk[arr[a].b].cells \in Seq(Cell)
      /\ Len(blk[arr[a].b].cells) = arr[a].alloc /\ blk[arr[a].b].hlen <= arr[a].alloc
  BY ShapeFacts
<1>4. /\ call = Idle /\ call' = Idle /\ i < arr[a].alloc /\ addr' = addr
      /\ arr' = [arr EXCEPT ![a].len = n]
      /\ blk' = [blk EXCEPT ![arr[a].b] = B]
  BY <1>1, <1>2, <1>c DEF native_arr_elem_set_Room, NewBlk
<1>5. /\ N \in Seq(Cell) /\ Len(N) = arr[a].alloc
      /\ \A k \in 1..arr[a].alloc : N[k] = IF k = i + 1 THEN v ELSE blk[arr[a].b].cells[k]
  <2> DEFINE s == <<v>>
  <2>1. s \in Seq(Cell) /\ Len(s) = 1 /\ s[1] = v /\ cs \in Seq(Cell) /\ Len(cs) \in Nat
    BY <1>3, <1>c DEF Cell
  <2> HIDE DEF s
  <2>2. N = Written(cs, i, s)
    BY <1>1 DEF s
  <2>3. /\ N \in Seq(Cell) /\ Len(N) = Len(cs)
        /\ \A k \in 1..Len(cs) : N[k] = IF k > i /\ k <= i + Len(s) THEN s[k - i] ELSE cs[k]
    BY <2>1, <2>2, WrittenCells
  <2>4. \A k \in 1..Len(cs) : N[k] = IF k = i + 1 THEN v ELSE cs[k]
    BY <2>1, <2>3
  <2> QED
    BY <1>3, <1>c, <2>3, <2>4
<1>6. n \in Nat /\ h \in Nat /\ n <= arr[a].alloc /\ h <= arr[a].alloc /\ i < n /\ n >= arr[a].len
  BY <1>1, <1>3, <1>4
<1>7. /\ A \in Array /\ A.len = n /\ A.alloc = arr[a].alloc /\ A.b = arr[a].b
      /\ B \in Block /\ B.hlen = h /\ B.cells = N
  BY <1>2, <1>3, <1>5, <1>6, ArrayParts DEF Block
<1>8. arr' = [arr EXCEPT ![a] = A]
  <2>1. arr' = [arr EXCEPT ![a] = [arr[a] EXCEPT !.len = n]]
    BY <1>4
  <2> QED
    BY <1>2, <2>1
<1>9. /\ Shape' /\ Used(arr', addr') = Used(arr, addr)
      /\ \A c \in Arr : /\ arr'[c].b = arr[c].b /\ arr'[c].alloc = arr[c].alloc
                        /\ arr'[c].len = IF c = a THEN A.len ELSE arr[c].len
                        /\ blk'[arr[c].b] = IF c = a THEN B ELSE blk[arr[c].b]
      /\ \A b \in Used(arr, addr) : blk'[b] = IF b = arr[a].b THEN B ELSE blk[b]
  <2>1. /\ A \in Array /\ A.alloc = arr[a].alloc /\ A.b = arr[a].b /\ B \in Block
        /\ A.len <= arr[a].alloc /\ B.hlen <= arr[a].alloc /\ Len(B.cells) = arr[a].alloc
        /\ addr' \in Seq([b : Blk, i : Nat]) /\ Len(addr') <= MaxAddr
        /\ Used(arr, addr') = Used(arr, addr)
        /\ blk' = [blk EXCEPT ![arr[a].b] = B]
    BY <1>4, <1>5, <1>6, <1>7 DEF Shape
  <2> QED
    BY <1>8, <2>1, OneArray, ZenonT(30)
<1>10. Growing'
  BY <1>4 DEF Growing
<1>11. ASSUME LengthsAgree, AddressesUsable
       PROVE  LengthsAgree' /\ AddressesUsable' /\ (Clean => Clean')
  <2>1. B.hlen = n
    BY <1>1, <1>7, <1>11 DEF LengthsAgree
  <2>2. /\ n \in Nat /\ n >= arr[a].len /\ n <= arr[a].alloc /\ Len(B.cells) = arr[a].alloc
        /\ \A c \in Arr : /\ arr'[c].b = arr[c].b /\ arr'[c].alloc = arr[c].alloc
                          /\ arr'[c].len = IF c = a THEN n ELSE arr[c].len
                          /\ blk'[arr[c].b] = IF c = a THEN B ELSE blk[arr[c].b]
        /\ \A k \in DOMAIN addr' : \/ k \in DOMAIN addr /\ addr'[k] = addr[k]
                                   \/ addr'[k].b = arr[a].b /\ addr'[k].i \in Nat /\ addr'[k].i < n
    BY <1>4, <1>5, <1>6, <1>7, <1>9
  <2>3. /\ LengthsAgree' /\ AddressesUsable'
        /\ Clean /\ (\A k \in 1..arr[a].alloc :
                       IF k <= n THEN B.cells[k] \in Val ELSE B.cells[k] = NIL)
           => Clean'
    BY <1>7, <1>9, <1>11, <2>1, <2>2, OneArrayInv
  <2>4. ASSUME Clean, NEW k \in 1..arr[a].alloc
        PROVE  IF k <= n THEN B.cells[k] \in Val ELSE B.cells[k] = NIL
    <3>1. IF k <= arr[a].len THEN blk[arr[a].b].cells[k] \in Val
          ELSE blk[arr[a].b].cells[k] = NIL
      BY <2>4 DEF Clean
    <3>2. k # i + 1 => B.cells[k] = blk[arr[a].b].cells[k]
      BY <1>5, <1>7
    <3>3. k = i + 1 => B.cells[k] = v /\ k <= n
      BY <1>3, <1>5, <1>6, <1>7
    <3>4. k <= arr[a].len => k <= n
      BY <1>3, <1>6
    <3> QED
      BY <3>1, <3>2, <3>3, <3>4 DEF Val
  <2> QED
    BY <2>3, <2>4
<1>12. \A c \in Arr :
         /\ arr'[c].b = arr[c].b
         /\ arr'[c].len = IF c = a /\ i >= arr[a].len THEN i + 1 ELSE arr[c].len
         /\ \A k \in 1..arr[c].alloc :
              blk'[arr[c].b].cells[k]
                = IF c = a /\ k = i + 1 THEN v ELSE blk[arr[c].b].cells[k]
  <2>1. \A k \in 1..arr[a].alloc :
          B.cells[k] = IF k = i + 1 THEN v ELSE blk[arr[a].b].cells[k]
    BY <1>5, <1>7
  <2>2. \A d \in Arr : arr'[d].len = IF d = a /\ i >= arr[a].len THEN i + 1 ELSE arr[d].len
    BY <1>1, <1>7, <1>9
  <2> QED
    BY <1>9, <2>1, <2>2
<1> QED
  BY <1>4, <1>9, <1>10, <1>11, <1>12 DEF AInv, VInv, TInv

---------------------------------------------------------------------------
(* Scavenges and calls that find no room.                                  *)
LEMMA Memory ==
  ASSUME Shape, NEW m, m = [b \in DOMAIN blk |-> Scavenged(blk[b])]
  PROVE  /\ m \in [Used(arr, addr) -> Block]
         /\ \A b \in Used(arr, addr) :
              /\ m[b] \in Block /\ m[b].hlen = blk[b].hlen
              /\ Len(m[b].cells) = Len(blk[b].cells)
              /\ \A k \in 1..Len(blk[b].cells) :
                   k <= blk[b].hlen \/ blk[b].cells[k] \notin Obj
                     => m[b].cells[k] = blk[b].cells[k]
<1>1. ASSUME NEW b \in Used(arr, addr)
      PROVE  /\ m[b] \in Block /\ m[b].hlen = blk[b].hlen
             /\ Len(m[b].cells) = Len(blk[b].cells)
             /\ \A k \in 1..Len(blk[b].cells) :
                  k <= blk[b].hlen \/ blk[b].cells[k] \notin Obj
                    => m[b].cells[k] = blk[b].cells[k]
  <2>1. PICK B : B = blk[b]
    OBVIOUS
  <2>2. B \in Block /\ b \in DOMAIN blk
    BY <2>1, ShapeFacts
  <2>3. m[b] = Scavenged(B)
    BY <2>1, <2>2
  <2>4. /\ Scavenged(B) \in Block
        /\ Scavenged(B).hlen = B.hlen /\ Len(Scavenged(B).cells) = Len(B.cells)
        /\ \A k \in 1..Len(B.cells) :
             k <= B.hlen \/ B.cells[k] \notin Obj => Scavenged(B).cells[k] = B.cells[k]
    BY <2>2, ScavengedBlock
  <2> QED
    BY <2>1, <2>3, <2>4
<1>2. m \in [Used(arr, addr) -> Block]
  <2>1. DOMAIN blk = Used(arr, addr)
    BY ShapeFacts
  <2> QED
    BY <1>1, <2>1
<1> QED
  BY <1>1, <1>2

LEMMA CollectStep ==
  ASSUME Shape, Collect
  PROVE  /\ Shape' /\ Growing' /\ (AInv => AInv') /\ (VInv => VInv')
         /\ arr' = arr /\ addr' = addr
         /\ LengthsAgree =>
              \A a \in Arr : \A k \in 1..arr[a].len :
                blk'[arr[a].b].cells[k] = blk[arr[a].b].cells[k]
<1>1. call' = Idle /\ arr' = arr /\ addr' = addr /\ Used(arr', addr') = Used(arr, addr)
  BY DEF Collect
<1>2. /\ blk' \in [Used(arr, addr) -> Block]
      /\ \A b \in Used(arr, addr) :
           /\ blk'[b] \in Block /\ blk'[b].hlen = blk[b].hlen
           /\ Len(blk'[b].cells) = Len(blk[b].cells)
           /\ \A k \in 1..Len(blk[b].cells) :
                k <= blk[b].hlen \/ blk[b].cells[k] \notin Obj
                  => blk'[b].cells[k] = blk[b].cells[k]
  <2>1. PICK m : m = [b \in DOMAIN blk |-> Scavenged(blk[b])]
    OBVIOUS
  <2>2. blk' = m
    BY <2>1 DEF Collect
  <2> QED
    BY <2>1, <2>2, Memory
<1>3. Shape'
  BY <1>1, <1>2, ShapeFacts DEF Shape
<1>4. Growing'
  BY <1>1 DEF Growing
<1>5. LengthsAgree => LengthsAgree'
  BY <1>1, <1>2, ShapeFacts DEF LengthsAgree
<1>6. AddressesUsable => AddressesUsable'
  BY <1>1, <1>2, ShapeFacts DEF AddressesUsable
<1>7. ASSUME LengthsAgree, NEW a \in Arr, NEW k \in 1..arr[a].len
      PROVE  blk'[arr[a].b].cells[k] = blk[arr[a].b].cells[k]
  BY <1>2, <1>7, ShapeFacts DEF LengthsAgree
<1>8. ASSUME LengthsAgree, Clean PROVE Clean'
  <2>1. ASSUME NEW a \in Arr, NEW k \in 1..arr[a].alloc
        PROVE  IF k <= arr[a].len THEN blk'[arr[a].b].cells[k] \in Val
               ELSE blk'[arr[a].b].cells[k] = NIL
    <3>1. /\ k \in 1..Len(blk[arr[a].b].cells) /\ arr[a].b \in Used(arr, addr)
          /\ arr[a].len = blk[arr[a].b].hlen
      BY <1>8, ShapeFacts DEF LengthsAgree
    <3>2. IF k <= arr[a].len THEN blk[arr[a].b].cells[k] \in Val
          ELSE blk[arr[a].b].cells[k] = NIL
      BY <1>8 DEF Clean
    <3>3. k <= arr[a].len \/ blk[arr[a].b].cells[k] \notin Obj
      BY <3>2, ArrayAssumption DEF Val
    <3>4. blk'[arr[a].b].cells[k] = blk[arr[a].b].cells[k]
      BY <1>2, <3>1, <3>3
    <3> QED
      BY <3>2, <3>4
  <2> QED
    BY <1>1, <2>1 DEF Clean
<1> QED
  BY <1>1, <1>3, <1>4, <1>5, <1>6, <1>7, <1>8 DEF AInv, VInv, TInv

\* Before an array grows nothing but the call has changed.
LEMMA CallStep ==
  ASSUME UNCHANGED <<arr, blk, addr>>
  PROVE  /\ Shape => Shape'
         /\ (LengthsAgree => LengthsAgree') /\ (AddressesUsable => AddressesUsable')
         /\ Clean => Clean'
<1>1. arr' = arr /\ blk' = blk /\ addr' = addr
  OBVIOUS
<1>2. Shape => Shape'
  BY <1>1 DEF Shape, Used
<1>3. LengthsAgree => LengthsAgree'
  BY <1>1 DEF LengthsAgree
<1>4. AddressesUsable => AddressesUsable'
  BY <1>1 DEF AddressesUsable
<1>5. Clean => Clean'
  BY <1>1 DEF Clean
<1> QED
  BY <1>2, <1>3, <1>4, <1>5

LEMMA CallsGrow ==
  ASSUME Shape,
         \/ \E a \in Arr : \E i \in Index(a) : IDXA_Grow(a, i)
         \/ \E a, b \in Arr : array_append_Grow(a, b)
         \/ \E a \in Arr : \E i \in Index(a), v \in Val : native_arr_elem_set_Grow(a, i, v)
  PROVE  UNCHANGED <<arr, blk, addr>> /\ Growing'
<1>1. ASSUME NEW a \in Arr, NEW i \in Index(a), IDXA_Grow(a, i)
      PROVE  UNCHANGED <<arr, blk, addr>> /\ Growing'
  <2>1. /\ UNCHANGED <<arr, blk, addr>> /\ Len(addr) < MaxAddr
        /\ i >= arr[a].alloc
        /\ call' = [k |-> "grow", a |-> a, need |-> i + 1, size |-> arr[a].alloc,
                    then |-> [k |-> "idxa", i |-> i]]
    BY <1>1 DEF IDXA_Grow, Grow
  <2>2. i \in Nat /\ arr[a].alloc \in Nat
    BY ShapeFacts, ArrayAssumption DEF Index
  <2>3. call' \in Call
    BY <2>1, <2>2 DEF Call, Then
  <2>4. call'.need > arr[a].alloc
    BY <2>1, <2>2
  <2>5. call'.a = a /\ call'.then.k = "idxa" /\ call'.then.i = i /\ call'.need = i + 1
    BY <2>1
  <2> QED
    BY <2>1, <2>3, <2>4, <2>5 DEF Growing, Index
<1>2. ASSUME NEW a \in Arr, NEW b \in Arr, array_append_Grow(a, b)
      PROVE  UNCHANGED <<arr, blk, addr>> /\ Growing'
  <2>1. /\ UNCHANGED <<arr, blk, addr>> /\ a # b
        /\ arr[a].len + arr[b].len > arr[a].alloc
        /\ call' = [k |-> "grow", a |-> a, need |-> arr[a].len + arr[b].len,
                    size |-> arr[a].alloc, then |-> [k |-> "append", b |-> b]]
    BY <1>2 DEF array_append_Grow, Grow
  <2>2. arr[a].len \in Nat /\ arr[b].len \in Nat /\ arr[a].alloc \in Nat
    BY ShapeFacts
  <2>3. call' \in Call
    BY <2>1, <2>2 DEF Call, Then
  <2>4. /\ call'.a = a /\ call'.then.k = "append" /\ call'.then.b = b
        /\ call'.need = arr[a].len + arr[b].len
    BY <2>1
  <2> QED
    BY <2>1, <2>3, <2>4 DEF Growing
<1>3. ASSUME NEW a \in Arr, NEW i \in Index(a), NEW v \in Val, native_arr_elem_set_Grow(a, i, v)
      PROVE  UNCHANGED <<arr, blk, addr>> /\ Growing'
  <2>1. /\ UNCHANGED <<arr, blk, addr>>
        /\ i >= arr[a].alloc
        /\ v \in Obj => StoresBehind
        /\ call' = [k |-> "grow", a |-> a, need |-> i + 1, size |-> arr[a].alloc,
                    then |-> [k |-> "set", i |-> i, v |-> v]]
    BY <1>3 DEF native_arr_elem_set_Grow, Grow, StoresBehind
  <2>2. i \in Nat /\ arr[a].alloc \in Nat
    BY ShapeFacts, ArrayAssumption DEF Index
  <2>3. call' \in Call
    BY <2>1, <2>2 DEF Call, Then
  <2>4. call'.need > arr[a].alloc
    BY <2>1, <2>2
  <2>5. /\ call'.a = a /\ call'.then.k = "set" /\ call'.then.i = i /\ call'.then.v = v
        /\ call'.need = i + 1
    BY <2>1
  <2> QED
    BY <2>1, <2>3, <2>4, <2>5 DEF Growing, Index, StoresBehind
<1> QED
  BY <1>1, <1>2, <1>3

LEMMA GrowSizeStep ==
  ASSUME TInv, GrowSize
  PROVE  UNCHANGED <<arr, blk, addr>> /\ Growing'
<1>1. PICK s : s = new_size(call.size)
  OBVIOUS
<1>2. UNCHANGED <<arr, blk, addr>> /\ call' = [call EXCEPT !.size = s]
  BY <1>1 DEF GrowSize
<1>3. call # Idle /\ call \in Call
  BY DEF GrowSize, Idle, TInv, Growing
<1>4. s \in Nat
  <2>1. call.size \in Nat
    BY <1>3 DEF Call
  <2> QED
    BY <1>1, <2>1 DEF new_size
<1>5. /\ call' \in Call
      /\ call'.a = call.a /\ call'.need = call.need /\ call'.then = call.then
  BY <1>2, <1>3, <1>4 DEF Call
<1> QED
  BY <1>2, <1>3, <1>5 DEF TInv, Growing, Index

---------------------------------------------------------------------------
(* A store through the address pushed last.                                *)
LEMMA Popped ==
  ASSUME Shape, addr # <<>>, addr' = SubSeq(addr, 1, Len(addr) - 1)
  PROVE  /\ Len(addr) \in DOMAIN addr
         /\ addr' \in Seq([b : Blk, i : Nat]) /\ Len(addr') <= MaxAddr
         /\ DOMAIN addr' = 1..(Len(addr) - 1)
         /\ \A k \in DOMAIN addr' : k \in DOMAIN addr /\ addr'[k] = addr[k]
         /\ Used(arr, addr') \subseteq Used(arr, addr)
<1>1. PICK n : n = Len(addr) - 1
  OBVIOUS
<1>2. /\ addr \in Seq([b : Blk, i : Nat]) /\ DOMAIN addr = 1..Len(addr) /\ Len(addr) \in Nat
      /\ Len(addr) <= MaxAddr
  BY ShapeFacts DEF Shape
<1>3. Len(addr) # 0
  BY <1>2, EmptySeq
<1>4. n \in Nat /\ n <= Len(addr) /\ Len(addr) = n + 1
  BY <1>1, <1>2, <1>3
<1>5. addr' = SubSeq(addr, 1, n)
  BY <1>1
<1>6. /\ addr' \in Seq([b : Blk, i : Nat]) /\ Len(addr') = n
      /\ \A k \in 1..n : addr'[k] = addr[k]
  <2>1. PICK S, d : S = [b : Blk, i : Nat] /\ d = addr
    OBVIOUS
  <2>2. d \in Seq(S) /\ n <= Len(d)
    BY <1>2, <1>4, <2>1
  <2>3. /\ SubSeq(d, 1, n) \in Seq(S) /\ Len(SubSeq(d, 1, n)) = n
        /\ \A k \in 1..n : SubSeq(d, 1, n)[k] = d[k]
    BY <1>4, <2>2, FirstCells
  <2> QED
    BY <1>5, <2>1, <2>3
<1>7. DOMAIN addr' = 1..n
  BY <1>6, LenProperties
<1>8. \A k \in DOMAIN addr' : k \in DOMAIN addr /\ addr'[k] = addr[k]
  BY <1>2, <1>4, <1>6, <1>7
<1>9. Used(arr, addr') \subseteq Used(arr, addr)
  BY <1>8 DEF Used
<1>10. Len(addr) \in DOMAIN addr /\ Len(addr') <= MaxAddr
  BY <1>2, <1>4, <1>6, ArrayAssumption
<1> QED
  BY <1>1, <1>6, <1>7, <1>8, <1>9, <1>10

LEMMA STStep ==
  ASSUME Shape, NEW v \in Val, ST(v)
  PROVE  /\ Shape' /\ Growing' /\ (AInv => AInv') /\ (VInv => VInv')
         /\ arr' = arr /\ Len(addr) \in DOMAIN addr
         /\ DOMAIN addr' = 1..(Len(addr) - 1)
         /\ \A k \in DOMAIN addr' : k \in DOMAIN addr /\ addr'[k] = addr[k]
         /\ \A a \in Arr : \A k \in 1..arr[a].alloc :
              blk'[arr[a].b].cells[k]
                = IF arr[a].b = addr[Len(addr)].b /\ k = addr[Len(addr)].i + 1
                  THEN v ELSE blk[arr[a].b].cells[k]
<1>1. /\ call' = Idle /\ arr' = arr /\ addr # <<>>
      /\ addr' = SubSeq(addr, 1, Len(addr) - 1)
  BY DEF ST
<1>2. /\ Len(addr) \in DOMAIN addr
      /\ addr' \in Seq([b : Blk, i : Nat]) /\ Len(addr') <= MaxAddr
      /\ DOMAIN addr' = 1..(Len(addr) - 1)
      /\ \A k \in DOMAIN addr' : k \in DOMAIN addr /\ addr'[k] = addr[k]
      /\ Used(arr, addr') \subseteq Used(arr, addr)
  BY <1>1, Popped
<1>3. PICK p, j, U : p = addr[Len(addr)] /\ j = p.i + 1 /\ U = Used(arr, addr')
  OBVIOUS
<1>4. p.i \in Nat /\ p.b \in Used(arr, addr) /\ j \in Nat /\ v \in Cell
  BY <1>2, <1>3, ShapeFacts DEF Cell
<1>5. blk' = [b \in U |-> IF b = p.b /\ Owned(b) THEN [blk[b] EXCEPT !.cells[j] = v] ELSE blk[b]]
  BY <1>3 DEF ST
<1>6. ASSUME NEW b \in U
      PROVE  /\ blk'[b] \in Block /\ blk'[b].hlen = blk[b].hlen
             /\ Len(blk'[b].cells) = Len(blk[b].cells)
             /\ \A k \in 1..Len(blk[b].cells) :
                  blk'[b].cells[k] = IF b = p.b /\ Owned(b) /\ k = j THEN v ELSE blk[b].cells[k]
  <2>1. b \in Used(arr, addr)
    BY <1>2, <1>3
  <2>2. CASE b = p.b /\ Owned(b)
    <3>1. PICK c, B : c = [blk[b].cells EXCEPT ![j] = v] /\ B = [hlen |-> blk[b].hlen, cells |-> c]
      OBVIOUS
    <3>2. blk[b] \in Block /\ blk[b].cells \in Seq(Cell) /\ blk[b].hlen \in Nat
      BY <2>1, ShapeFacts
    <3>3. [blk[b] EXCEPT !.cells[j] = v] = [blk[b] EXCEPT !.cells = c]
      BY <3>1
    <3>4. [blk[b] EXCEPT !.cells = c] = B
      BY <3>1, <3>2, BlockParts
    <3>5. blk'[b] = B
      BY <1>5, <2>2, <3>3, <3>4
    <3>6. /\ c \in Seq(Cell) /\ Len(c) = Len(blk[b].cells)
          /\ \A k \in 1..Len(blk[b].cells) : c[k] = IF k = j THEN v ELSE blk[b].cells[k]
      <4>1. PICK d : d = blk[b].cells
        OBVIOUS
      <4>2. d \in Seq(Cell) /\ c = [d EXCEPT ![j] = v]
        BY <3>1, <3>2, <4>1
      <4> QED
        BY <1>4, <4>1, <4>2, PutCell
    <3>7. B \in Block /\ B.hlen = blk[b].hlen /\ B.cells = c
      BY <3>1, <3>2, <3>6 DEF Block
    <3> QED
      BY <2>2, <3>5, <3>6, <3>7
  <2>3. CASE ~(b = p.b /\ Owned(b))
    BY <1>5, <2>1, <2>3, ShapeFacts
  <2> QED
    BY <2>2, <2>3
<1>7. Shape'
  <2>1. /\ \A a \in Arr : arr[a].b \in U
        /\ blk' \in [U -> Block]
        /\ \A b \in U : b \in Used(arr, addr) /\ blk'[b].hlen <= Len(blk'[b].cells)
    BY <1>2, <1>3, <1>5, <1>6, ShapeFacts DEF Used
  <2>2. \A a \in Arr : arr[a].alloc = Len(blk'[arr[a].b].cells)
    BY <1>6, <2>1, ShapeFacts
  <2> QED
    BY <1>1, <1>2, <1>3, <2>1, <2>2 DEF Shape
<1>8. \A a \in Arr : arr[a].b \in U /\ Owned(arr[a].b)
  BY <1>3 DEF Used, Owned
<1>9. \A k \in DOMAIN addr' : addr'[k].b \in U
  BY <1>3 DEF Used
<1>10. LengthsAgree => LengthsAgree'
  BY <1>1, <1>6, <1>8 DEF LengthsAgree
<1>11. AddressesUsable => AddressesUsable'
  BY <1>2, <1>6, <1>9 DEF AddressesUsable
<1>12. Growing'
  BY <1>1 DEF Growing
<1>13. ASSUME NEW a \in Arr, NEW k \in 1..arr[a].alloc
       PROVE  blk'[arr[a].b].cells[k]
                = IF arr[a].b = p.b /\ k = j THEN v ELSE blk[arr[a].b].cells[k]
  BY <1>6, <1>8, ShapeFacts
<1>14. ASSUME LengthsAgree, AddressesUsable, Clean PROVE Clean'
  <2>1. ASSUME NEW a \in Arr, NEW k \in 1..arr[a].alloc
        PROVE  IF k <= arr[a].len THEN blk'[arr[a].b].cells[k] \in Val
               ELSE blk'[arr[a].b].cells[k] = NIL
    <3>1. IF k <= arr[a].len THEN blk[arr[a].b].cells[k] \in Val
          ELSE blk[arr[a].b].cells[k] = NIL
      BY <1>14 DEF Clean
    <3>2. CASE arr[a].b = p.b /\ k = j
      <4>1. p.i < blk[p.b].hlen
        BY <1>2, <1>3, <1>14 DEF AddressesUsable
      <4>2. p.i < arr[a].len /\ arr[a].len \in Nat
        BY <1>14, <3>2, <4>1, ShapeFacts DEF LengthsAgree
      <4>3. k <= arr[a].len
        BY <1>3, <1>4, <3>2, <4>2
      <4> QED
        BY <1>13, <3>2, <4>3
    <3>3. CASE ~(arr[a].b = p.b /\ k = j)
      BY <1>13, <3>1, <3>3
    <3> QED
      BY <3>2, <3>3
  <2> QED
    BY <1>1, <2>1 DEF Clean
<1>15. (AInv => AInv') /\ (VInv => VInv')
  BY <1>7, <1>10, <1>11, <1>12, <1>14 DEF AInv, VInv, TInv
<1> QED
  BY <1>1, <1>2, <1>3, <1>7, <1>12, <1>13, <1>15

---------------------------------------------------------------------------
(* The allocation of the larger block.                                     *)
LEMMA GrownCells ==
  ASSUME NEW c \in Seq(Cell), NEW n \in Nat, NEW m \in Nat, m <= Len(c), m <= n
  PROVE  /\ Grown(SubSeq(c, 1, m), n) \in Seq(Cell)
         /\ Len(Grown(SubSeq(c, 1, m), n)) = n
         /\ \A k \in 1..n : Grown(SubSeq(c, 1, m), n)[k] = IF k <= m THEN c[k] ELSE NIL
<1>1. PICK s, N : s = SubSeq(c, 1, m) /\ N = Nils(n)
  OBVIOUS
<1>2. s \in Seq(Cell) /\ Len(s) = m /\ \A k \in 1..m : s[k] = c[k]
  BY <1>1, FirstCells
<1>3. N \in Seq(Cell) /\ Len(N) = n /\ \A k \in 1..n : N[k] = NIL
  BY <1>1, NilCells
<1>4. /\ Written(N, 0, s) \in Seq(Cell) /\ Len(Written(N, 0, s)) = n
      /\ \A k \in 1..n : Written(N, 0, s)[k] = IF k > 0 /\ k <= 0 + Len(s) THEN s[k - 0] ELSE N[k]
  <2>1. /\ Written(N, 0, s) \in Seq(Cell) /\ Len(Written(N, 0, s)) = Len(N)
        /\ \A k \in 1..Len(N) : Written(N, 0, s)[k] = IF k > 0 /\ k <= 0 + Len(s) THEN s[k - 0] ELSE N[k]
    <3>1. 0 \in Nat /\ N \in Seq(Cell) /\ s \in Seq(Cell)
      BY <1>2, <1>3
    <3> QED
      BY <3>1, WrittenCells
  <2>2. Len(N) = n
    BY <1>3
  <2> QED
    BY <2>1, <2>2
<1>5. \A k \in 1..n : Written(N, 0, s)[k] = IF k <= m THEN c[k] ELSE NIL
  BY <1>2, <1>3, <1>4
<1> QED
  BY <1>1, <1>4, <1>5 DEF Grown

\* What the larger block holds at k, for the caller t of native_grow_array.
NewCell(t, gc, k) ==
  IF k <= arr[call.a].len THEN blk[arr[call.a].b].cells[k]
  ELSE IF t.k = "append" /\ k <= call.need THEN blk[arr[t.b].b].cells[k - arr[call.a].len]
  ELSE IF t.k = "set" /\ k = t.i + 1 THEN Kept(t.v, gc)
  ELSE NIL

\* The memory after the allocation and the larger block, as GrowAlloc has them.
Mem(gc) == IF gc THEN [b \in DOMAIN blk |-> Scavenged(blk[b])] ELSE blk
Larger(gc) == Grown(SubSeq(Mem(gc)[arr[call.a].b].cells, 1, arr[call.a].len), call.size)

LEMMA MemoryThen ==
  ASSUME Shape, NEW gc \in BOOLEAN
  PROVE  \A b \in Used(arr, addr) :
           /\ Mem(gc)[b] \in Block /\ Mem(gc)[b].hlen = blk[b].hlen
           /\ Mem(gc)[b].cells \in Seq(Cell) /\ Len(Mem(gc)[b].cells) = Len(blk[b].cells)
           /\ \A k \in 1..Len(blk[b].cells) :
                k <= blk[b].hlen \/ blk[b].cells[k] \notin Obj
                  => Mem(gc)[b].cells[k] = blk[b].cells[k]
<1>0. PICK m : m = Mem(gc)
  OBVIOUS
<1>1. CASE gc
  <2>1. m = [b \in DOMAIN blk |-> Scavenged(blk[b])]
    BY <1>0, <1>1 DEF Mem
  <2>2. \A b \in Used(arr, addr) :
          /\ m[b] \in Block /\ m[b].hlen = blk[b].hlen /\ Len(m[b].cells) = Len(blk[b].cells)
          /\ \A k \in 1..Len(blk[b].cells) :
               k <= blk[b].hlen \/ blk[b].cells[k] \notin Obj => m[b].cells[k] = blk[b].cells[k]
    BY <2>1, Memory
  <2>3. \A b \in Used(arr, addr) : m[b].cells \in Seq(Cell)
    BY <2>2 DEF Block
  <2> QED
    BY <1>0, <2>2, <2>3
<1>2. CASE ~gc
  <2>1. Mem(gc) = blk
    BY <1>2 DEF Mem
  <2> QED
    BY <2>1, ShapeFacts
<1> QED
  BY <1>1, <1>2

\* What the callers store in the larger block.
LEMMA AppendedCells ==
  ASSUME NEW G \in Seq(Cell), NEW l \in Nat, NEW c \in Seq(Cell), NEW j \in Nat, j <= Len(c)
  PROVE  /\ Written(G, l, SubSeq(c, 1, j)) \in Seq(Cell)
         /\ Len(Written(G, l, SubSeq(c, 1, j))) = Len(G)
         /\ \A k \in 1..Len(G) : Written(G, l, SubSeq(c, 1, j))[k]
                = IF k > l /\ k <= l + j THEN c[k - l] ELSE G[k]
<1>1. PICK s : s = SubSeq(c, 1, j)
  OBVIOUS
<1>2. s \in Seq(Cell) /\ Len(s) = j /\ \A k \in 1..j : s[k] = c[k]
  BY <1>1, FirstCells
<1>3. /\ Written(G, l, s) \in Seq(Cell) /\ Len(Written(G, l, s)) = Len(G)
      /\ \A k \in 1..Len(G) : Written(G, l, s)[k]
             = IF k > l /\ k <= l + Len(s) THEN s[k - l] ELSE G[k]
  BY <1>2, WrittenCells
<1>4. \A k \in 1..Len(G) : k > l /\ k <= l + j => k - l \in 1..j
  BY LenProperties
<1> QED
  BY <1>1, <1>2, <1>3, <1>4

LEMMA OneCell ==
  ASSUME NEW G \in Seq(Cell), NEW i \in Nat, NEW v \in Cell
  PROVE  /\ Written(G, i, <<v>>) \in Seq(Cell) /\ Len(Written(G, i, <<v>>)) = Len(G)
         /\ \A k \in 1..Len(G) : Written(G, i, <<v>>)[k] = IF k = i + 1 THEN v ELSE G[k]
<1>1. PICK s : s = <<v>>
  OBVIOUS
<1>2. s \in Seq(Cell) /\ Len(s) = 1 /\ s[1] = v
  BY <1>1
<1>3. /\ Written(G, i, s) \in Seq(Cell) /\ Len(Written(G, i, s)) = Len(G)
      /\ \A k \in 1..Len(G) : Written(G, i, s)[k]
             = IF k > i /\ k <= i + Len(s) THEN s[k - i] ELSE G[k]
  BY <1>2, WrittenCells
<1>4. \A k \in 1..Len(G) : Written(G, i, s)[k] = IF k = i + 1 THEN v ELSE G[k]
  BY <1>2, <1>3, LenProperties
<1> QED
  BY <1>1, <1>3, <1>4

\* The call, field by field.
LEMMA CallFacts ==
  ASSUME TInv, call.k = "grow"
  PROVE  /\ call.a \in Arr /\ call.need \in Nat /\ call.size \in Nat
         /\ call.need > arr[call.a].alloc /\ arr[call.a].len < call.need
         /\ \/ /\ call.then.k = "idxa" /\ call.then.i \in Nat
               /\ call.then.i \in Index(call.a)
               /\ call.need = call.then.i + 1 /\ Len(addr) < MaxAddr
            \/ /\ call.then.k = "append" /\ call.then.b \in Arr
               /\ call.then.b # call.a
               /\ call.need = arr[call.a].len + arr[call.then.b].len
            \/ /\ call.then.k = "set" /\ call.then.i \in Nat /\ call.then.v \in Val
               /\ call.then.i \in Index(call.a)
               /\ call.need = call.then.i + 1
               /\ call.then.v \in Obj => StoresBehind
<1>1. call # Idle
  BY DEF Idle
<1>2. call \in Call
  BY <1>1 DEF TInv, Growing
<1>3. /\ call.a \in Arr /\ call.need \in Nat /\ call.size \in Nat /\ call.then \in Then
      /\ call.need > arr[call.a].alloc
  BY <1>1, <1>2 DEF TInv, Growing, Call
<1>4. arr[call.a].len < call.need
  <2>1. arr[call.a].len \in Nat /\ arr[call.a].alloc \in Nat /\ arr[call.a].len <= arr[call.a].alloc
    BY <1>3, ShapeFacts DEF TInv
  <2> QED
    BY <1>3, <2>1
<1>5. CASE call.then.k = "idxa"
  <2>1. call.then \in [k : {"idxa"}, i : Nat]
    BY <1>3, <1>5 DEF Then
  <2> QED
    BY <1>1, <1>3, <1>4, <1>5, <2>1 DEF TInv, Growing
<1>6. CASE call.then.k = "append"
  <2>1. call.then \in [k : {"append"}, b : Arr]
    BY <1>3, <1>6 DEF Then
  <2> QED
    BY <1>1, <1>3, <1>4, <1>6, <2>1 DEF TInv, Growing
<1>7. CASE call.then.k = "set"
  <2>1. call.then \in [k : {"set"}, i : Nat, v : Val]
    BY <1>3, <1>7 DEF Then
  <2> QED
    BY <1>1, <1>3, <1>4, <1>7, <2>1 DEF TInv, Growing
<1> QED
  BY <1>3, <1>5, <1>6, <1>7 DEF Then

LEMMA StoredCells ==
  ASSUME TInv, call.k = "grow", call.size >= call.need, NEW gc \in BOOLEAN
  PROVE  /\ Stored(gc, Mem(gc), Larger(gc)) \in Seq(Cell)
         /\ Len(Stored(gc, Mem(gc), Larger(gc))) = call.size
         /\ LengthsAgree => \A k \in 1..call.size :
              Stored(gc, Mem(gc), Larger(gc))[k] = NewCell(call.then, gc, k)
<1>0. PICK a, n, l, t : a = call.a /\ n = call.size /\ l = arr[a].len /\ t = call.then
  OBVIOUS
<1>m. PICK m, G, c : m = Mem(gc) /\ G = Larger(gc) /\ c = m[arr[a].b].cells
  OBVIOUS
<1>1. a \in Arr /\ n \in Nat /\ l \in Nat /\ l < call.need /\ call.need \in Nat /\ l <= n
  <2>1. a \in Arr /\ n \in Nat /\ l < call.need /\ call.need \in Nat
    BY <1>0, CallFacts
  <2>2. l \in Nat
    BY <1>0, <2>1, ShapeFacts DEF TInv
  <2> QED
    BY <1>0, <2>1, <2>2
<1>2. \A b \in Used(arr, addr) :
        /\ m[b].cells \in Seq(Cell) /\ Len(m[b].cells) = Len(blk[b].cells)
        /\ \A k \in 1..Len(blk[b].cells) :
             k <= blk[b].hlen \/ blk[b].cells[k] \notin Obj => m[b].cells[k] = blk[b].cells[k]
  BY <1>m, MemoryThen DEF TInv
<1>3. \A e \in Arr : /\ arr[e].len \in Nat /\ arr[e].alloc \in Nat /\ arr[e].len <= arr[e].alloc
                     /\ arr[e].b \in Used(arr, addr) /\ Len(blk[arr[e].b].cells) = arr[e].alloc
                     /\ m[arr[e].b].cells \in Seq(Cell) /\ Len(m[arr[e].b].cells) = arr[e].alloc
  BY <1>2, ShapeFacts DEF TInv
<1>4. ASSUME LengthsAgree, NEW e \in Arr, NEW k \in 1..arr[e].len
      PROVE  m[arr[e].b].cells[k] = blk[arr[e].b].cells[k]
  <2>1. k <= blk[arr[e].b].hlen
    <3>1. arr[e].len = blk[arr[e].b].hlen
      BY <1>4 DEF LengthsAgree
    <3>2. arr[e].len \in Nat
      BY <1>3
    <3> QED
      BY <3>1, <3>2
  <2>2. k \in 1..Len(blk[arr[e].b].cells)
    BY <1>3
  <2>3. arr[e].b \in Used(arr, addr)
    BY <1>3
  <2> QED
    BY <1>2, <2>1, <2>2, <2>3
<1>5. /\ G \in Seq(Cell) /\ Len(G) = n
      /\ \A k \in 1..n : G[k] = IF k <= l THEN c[k] ELSE NIL
  <2>1. c \in Seq(Cell) /\ l <= Len(c) /\ l \in Nat /\ n \in Nat /\ l <= n
    BY <1>0, <1>1, <1>3, <1>m
  <2>2. G = Grown(SubSeq(c, 1, l), n)
    BY <1>0, <1>m DEF Larger
  <2> QED
    BY <2>1, <2>2, GrownCells
<1>6. ASSUME LengthsAgree, NEW k \in 1..n
      PROVE  G[k] = IF k <= l THEN blk[arr[a].b].cells[k] ELSE NIL
  <2>1. k <= l => c[k] = blk[arr[a].b].cells[k]
    BY <1>0, <1>1, <1>4, <1>6, <1>m
  <2> QED
    BY <1>5, <2>1
<1>7. CASE t.k = "idxa"
  <2>1. Stored(gc, m, G) = G
    BY <1>0, <1>7 DEF Stored
  <2>2. ASSUME LengthsAgree, NEW k \in 1..n PROVE G[k] = NewCell(t, gc, k)
    BY <1>0, <1>6, <1>7, <2>2 DEF NewCell
  <2> QED
    BY <1>0, <1>5, <1>m, <2>1, <2>2
<1>8. CASE t.k = "append"
  <2>1. PICK e, j, d : e = t.b /\ j = arr[e].len /\ d = m[arr[e].b].cells
    OBVIOUS
  <2>2. e \in Arr /\ call.need = l + j
    BY <1>0, <1>8, <2>1, CallFacts
  <2>3. d \in Seq(Cell) /\ j \in Nat /\ j <= Len(d)
    BY <1>3, <2>1, <2>2
  <2>4. PICK S : S = Written(G, l, SubSeq(d, 1, j))
    OBVIOUS
  <2>5. Stored(gc, m, G) = S
    BY <1>0, <1>8, <2>1, <2>4 DEF Stored
  <2>6. /\ S \in Seq(Cell) /\ Len(S) = n
        /\ \A k \in 1..n : S[k] = IF k > l /\ k <= l + j THEN d[k - l] ELSE G[k]
    <3>1. G \in Seq(Cell) /\ l \in Nat /\ Len(G) = n
      BY <1>1, <1>5
    <3>2. /\ Written(G, l, SubSeq(d, 1, j)) \in Seq(Cell)
          /\ Len(Written(G, l, SubSeq(d, 1, j))) = Len(G)
          /\ \A k \in 1..Len(G) : Written(G, l, SubSeq(d, 1, j))[k]
                 = IF k > l /\ k <= l + j THEN d[k - l] ELSE G[k]
      <4>1. d \in Seq(Cell) /\ j \in Nat /\ j <= Len(d) /\ G \in Seq(Cell) /\ l \in Nat
        BY <2>3, <3>1
      <4> QED
        BY <4>1, AppendedCells
    <3> QED
      BY <2>4, <3>1, <3>2
  <2>7. ASSUME LengthsAgree, NEW k \in 1..n PROVE S[k] = NewCell(t, gc, k)
    <3>1. S[k] = IF k > l /\ k <= l + j THEN d[k - l] ELSE G[k]
      BY <2>6
    <3>2. ASSUME k > l, k <= l + j PROVE d[k - l] = blk[arr[e].b].cells[k - l]
      <4>1. k - l \in 1..j
        BY <1>1, <2>3, <3>2
      <4> QED
        BY <1>4, <2>1, <2>2, <2>7, <4>1
    <3>3. G[k] = IF k <= l THEN blk[arr[a].b].cells[k] ELSE NIL
      BY <1>6, <2>7
    <3>4. NewCell(t, gc, k) = IF k <= l THEN blk[arr[a].b].cells[k]
                              ELSE IF k <= l + j THEN blk[arr[e].b].cells[k - l] ELSE NIL
      BY <1>0, <1>8, <2>1, <2>2 DEF NewCell
    <3>5. k \in Nat /\ l \in Nat /\ j \in Nat
      BY <1>1, <2>3
    <3> QED
      BY <3>1, <3>2, <3>3, <3>4, <3>5
  <2> QED
    BY <1>0, <1>m, <2>5, <2>6, <2>7
<1>9. CASE t.k = "set"
  <2>1. PICK i, v, S : i = t.i /\ v = Kept(t.v, gc) /\ S = Written(G, i, <<v>>)
    OBVIOUS
  <2>2. i \in Nat /\ t.v \in Val /\ call.need = i + 1
    BY <1>0, <1>9, <2>1, CallFacts
  <2>3. v \in Cell
    BY <2>1, <2>2 DEF Kept, Cell
  <2>4. Stored(gc, m, G) = S
    BY <1>0, <1>9, <2>1 DEF Stored
  <2>5. /\ S \in Seq(Cell) /\ Len(S) = n
        /\ \A k \in 1..n : S[k] = IF k = i + 1 THEN v ELSE G[k]
    <3>1. G \in Seq(Cell) /\ Len(G) = n
      BY <1>5
    <3>2. S = Written(G, i, <<v>>)
      BY <2>1
    <3> QED
      BY <2>2, <2>3, <3>1, <3>2, OneCell, ZenonT(30)
  <2>6. i >= l
    BY <1>1, <2>2
  <2>7. ASSUME LengthsAgree, NEW k \in 1..n PROVE S[k] = NewCell(t, gc, k)
    <3>1. S[k] = IF k = i + 1 THEN v ELSE G[k]
      BY <2>5
    <3>2. G[k] = IF k <= l THEN blk[arr[a].b].cells[k] ELSE NIL
      BY <1>6, <2>7
    <3>3. NewCell(t, gc, k) = IF k <= l THEN blk[arr[a].b].cells[k]
                              ELSE IF k = i + 1 THEN v ELSE NIL
      BY <1>0, <1>9, <2>1 DEF NewCell
    <3>4. k \in Nat /\ i \in Nat /\ l \in Nat
      BY <1>1, <2>2
    <3> QED
      BY <2>6, <3>1, <3>2, <3>3, <3>4
  <2> QED
    BY <1>0, <1>m, <2>4, <2>5, <2>7
<1> QED
  BY <1>0, <1>7, <1>8, <1>9, CallFacts

\* What the allocation changes, part by part.
LEMMA Moving ==
  ASSUME TInv, NEW gc \in BOOLEAN, GrowAlloc(gc), NEW a, a = call.a, NEW b, b = FreeBlk
  PROVE  /\ call.k = "grow" /\ call.size >= call.need /\ call' = Idle
         /\ b \in Blk /\ b \notin Used(arr, addr)
         /\ arr' \in [Arr -> Array]
         /\ arr'[a].len = call.need /\ arr'[a].alloc = call.size /\ arr'[a].b = b
         /\ \A c \in Arr : c # a => arr'[c] = arr[c]
         /\ addr' \in Seq([b : Blk, i : Nat]) /\ Len(addr') <= MaxAddr
         /\ \A k \in DOMAIN addr' :
              \/ k \in DOMAIN addr /\ addr'[k] = addr[k]
              \/ addr'[k].b = b /\ addr'[k].i < call.need
         /\ b \in Used(arr', addr')
         /\ \A d \in Used(arr', addr') : d # b => d \in Used(arr, addr)
         /\ blk' = [d \in Used(arr', addr') |->
              IF d = b THEN [hlen |-> call.need, cells |-> Stored(gc, Mem(gc), Larger(gc))]
              ELSE IF d = arr[a].b THEN [hlen |-> arr[a].len, cells |-> Nils(arr[a].alloc)]
              ELSE Mem(gc)[d]]
<1>1. call.k = "grow" /\ call.size >= call.need /\ call' = Idle
  BY DEF GrowAlloc
<1>2. b \in Blk /\ b \notin Used(arr, addr)
  BY FreeName DEF TInv
<1>3. PICK A, p : /\ A = [len |-> call.need, alloc |-> call.size, b |-> b]
                  /\ p = [b |-> b, i |-> call.then.i]
  OBVIOUS
<1>4. a \in Arr /\ A \in Array /\ A.len = call.need /\ A.alloc = call.size /\ A.b = b
  BY <1>1, <1>2, <1>3, CallFacts DEF Array
<1>5. arr' = [arr EXCEPT ![a] = A]
  BY <1>3 DEF GrowAlloc
<1>6. /\ arr' \in [Arr -> Array] /\ arr'[a] = A
      /\ \A c \in Arr : c # a => arr'[c] = arr[c]
  <2>1. arr \in [Arr -> Array]
    BY DEF TInv, Shape
  <2> QED
    BY <1>4, <1>5, <2>1
<1>7. addr' = IF call.then.k = "idxa" THEN Append(addr, p) ELSE addr
  BY <1>3 DEF GrowAlloc
<1>8. /\ addr' \in Seq([b : Blk, i : Nat]) /\ Len(addr') <= MaxAddr
      /\ \A k \in DOMAIN addr' :
           \/ k \in DOMAIN addr /\ addr'[k] = addr[k]
           \/ addr'[k].b = b /\ addr'[k].i < call.need
  <2>1. CASE call.then.k = "idxa"
    <3>1. /\ call.then.i \in Nat /\ call.need = call.then.i + 1 /\ Len(addr) < MaxAddr
      BY <1>1, <2>1, CallFacts
    <3>2. p \in [b : Blk, i : Nat] /\ p.b = b /\ p.i < call.need
      BY <1>2, <1>3, <3>1
    <3>3. addr' = Append(addr, p)
      BY <1>7, <2>1
    <3>4. /\ addr' \in Seq([b : Blk, i : Nat]) /\ Len(addr') <= MaxAddr
          /\ addr'[Len(addr) + 1] = p
          /\ \A k \in DOMAIN addr' : k # Len(addr) + 1 => k \in DOMAIN addr /\ addr'[k] = addr[k]
      BY <3>1, <3>2, <3>3, Pushed DEF TInv
    <3> QED
      BY <3>2, <3>4
  <2>2. CASE call.then.k # "idxa"
    <3>1. addr' = addr
      BY <1>7, <2>2
    <3> QED
      BY <3>1 DEF TInv, Shape
  <2> QED
    BY <2>1, <2>2
<1>9. b \in Used(arr', addr')
  BY <1>4, <1>6 DEF Used
<1>10. ASSUME NEW d \in Used(arr', addr'), d # b PROVE d \in Used(arr, addr)
  <2>1. CASE \E c \in Arr : d = arr'[c].b
    <3>1. PICK c \in Arr : d = arr'[c].b
      BY <2>1
    <3>2. c # a
      BY <1>4, <1>6, <1>10, <3>1
    <3> QED
      BY <1>6, <3>1, <3>2 DEF Used
  <2>2. CASE \E k \in DOMAIN addr' : d = addr'[k].b
    <3>1. PICK k \in DOMAIN addr' : d = addr'[k].b
      BY <2>2
    <3>2. k \in DOMAIN addr /\ addr'[k] = addr[k]
      BY <1>8, <1>10, <3>1
    <3> QED
      BY <3>1, <3>2 DEF Used
  <2> QED
    BY <2>1, <2>2 DEF Used
<1>11. blk' = [d \in Used(arr', addr') |->
         IF d = b THEN [hlen |-> call.need, cells |-> Stored(gc, Mem(gc), Larger(gc))]
         ELSE IF d = arr[a].b THEN [hlen |-> arr[a].len, cells |-> Nils(arr[a].alloc)]
         ELSE Mem(gc)[d]]
  BY DEF GrowAlloc, Mem, Larger, NewBlk
<1> QED
  BY <1>1, <1>2, <1>4, <1>6, <1>8, <1>9, <1>10, <1>11

LEMMA GrowAllocStep ==
  ASSUME TInv, NEW gc \in BOOLEAN, GrowAlloc(gc), NEW a, a = call.a, NEW b, b = FreeBlk
  PROVE  /\ Shape' /\ Growing'
         /\ (LengthsAgree => LengthsAgree')
         /\ (LengthsAgree /\ AddressesUsable => AddressesUsable')
         /\ LengthsAgree =>
              /\ \A k \in 1..call.size : blk'[b].cells[k] = NewCell(call.then, gc, k)
              /\ \A c \in Arr : c # a =>
                   \A k \in 1..arr[c].alloc :
                     k <= arr[c].len \/ blk[arr[c].b].cells[k] \notin Obj
                       => blk'[arr[c].b].cells[k] = blk[arr[c].b].cells[k]
<1>1. PICK N, O, U, m : /\ N = Stored(gc, Mem(gc), Larger(gc)) /\ O = Nils(arr[a].alloc)
                        /\ U = Used(arr', addr') /\ m = Mem(gc)
  OBVIOUS
<1>2. /\ call.k = "grow" /\ call.size >= call.need /\ call' = Idle
      /\ b \in Blk /\ b \notin Used(arr, addr)
      /\ arr' \in [Arr -> Array]
      /\ arr'[a].len = call.need /\ arr'[a].alloc = call.size /\ arr'[a].b = b
      /\ \A c \in Arr : c # a => arr'[c] = arr[c]
      /\ addr' \in Seq([b : Blk, i : Nat]) /\ Len(addr') <= MaxAddr
      /\ \A k \in DOMAIN addr' : \/ k \in DOMAIN addr /\ addr'[k] = addr[k]
                                 \/ addr'[k].b = b /\ addr'[k].i < call.need
      /\ b \in U
      /\ \A d \in U : d # b => d \in Used(arr, addr)
      /\ blk' = [d \in U |-> IF d = b THEN [hlen |-> call.need, cells |-> N]
                             ELSE IF d = arr[a].b THEN [hlen |-> arr[a].len, cells |-> O]
                             ELSE m[d]]
  <2>1. /\ call.k = "grow" /\ call.size >= call.need /\ call' = Idle
        /\ b \in Blk /\ b \notin Used(arr, addr)
    BY Moving
  <2>2. /\ arr' \in [Arr -> Array]
        /\ arr'[a].len = call.need /\ arr'[a].alloc = call.size /\ arr'[a].b = b
        /\ \A c \in Arr : c # a => arr'[c] = arr[c]
    BY Moving
  <2>3. /\ addr' \in Seq([b : Blk, i : Nat]) /\ Len(addr') <= MaxAddr
        /\ \A k \in DOMAIN addr' : \/ k \in DOMAIN addr /\ addr'[k] = addr[k]
                                   \/ addr'[k].b = b /\ addr'[k].i < call.need
    BY Moving
  <2>4. /\ b \in Used(arr', addr')
        /\ \A d \in Used(arr', addr') : d # b => d \in Used(arr, addr)
    BY Moving
  <2>5. blk' = [d \in Used(arr', addr') |->
          IF d = b THEN [hlen |-> call.need, cells |-> Stored(gc, Mem(gc), Larger(gc))]
          ELSE IF d = arr[a].b THEN [hlen |-> arr[a].len, cells |-> Nils(arr[a].alloc)]
          ELSE Mem(gc)[d]]
    BY Moving
  <2>6. blk' = [d \in U |-> IF d = b THEN [hlen |-> call.need, cells |-> N]
                            ELSE IF d = arr[a].b THEN [hlen |-> arr[a].len, cells |-> O]
                            ELSE m[d]]
    BY <1>1, <2>5
  <2> QED
    BY <1>1, <2>1, <2>2, <2>3, <2>4, <2>6
<1>3. a \in Arr /\ call.need \in Nat /\ call.size \in Nat
  BY <1>2, CallFacts
<1>4. \A c \in Arr : /\ arr[c].len \in Nat /\ arr[c].alloc \in Nat /\ arr[c].len <= arr[c].alloc
                     /\ arr[c].b \in Used(arr, addr) /\ Len(blk[arr[c].b].cells) = arr[c].alloc
                     /\ arr[c].b # b
                     /\ c # a => arr[c].b # arr[a].b
  <2>1. \A c, d \in Arr : arr[c].b = arr[d].b => c = d
    BY DEF TInv, Shape
  <2> QED
    BY <1>2, <1>3, <2>1, ShapeFacts DEF TInv
<1>5. /\ N \in Seq(Cell) /\ Len(N) = call.size
      /\ LengthsAgree => \A k \in 1..call.size : N[k] = NewCell(call.then, gc, k)
  BY <1>1, <1>2, StoredCells
<1>6. O \in Seq(Cell) /\ Len(O) = arr[a].alloc
  <2>1. arr[a].alloc \in Nat
    BY <1>3, <1>4
  <2> QED
    BY <1>1, <2>1, NilCells
<1>7. /\ blk'[b] \in Block /\ blk'[b].hlen = call.need /\ blk'[b].cells = N
      /\ blk'[b].hlen <= Len(blk'[b].cells)
  <2>1. blk'[b] = [hlen |-> call.need, cells |-> N]
    BY <1>2
  <2>2. call.need <= Len(N)
    BY <1>2, <1>3, <1>5
  <2> QED
    BY <1>3, <1>5, <2>1, <2>2 DEF Block
<1>8. \A d \in Used(arr, addr) :
        /\ m[d] \in Block /\ m[d].hlen = blk[d].hlen /\ Len(m[d].cells) = Len(blk[d].cells)
        /\ \A k \in 1..Len(blk[d].cells) :
             k <= blk[d].hlen \/ blk[d].cells[k] \notin Obj => m[d].cells[k] = blk[d].cells[k]
  BY <1>1, MemoryThen DEF TInv
<1>9. ASSUME NEW d \in U, d # b
      PROVE  /\ d \in Used(arr, addr)
             /\ blk'[d] \in Block /\ Len(blk'[d].cells) = Len(blk[d].cells)
             /\ d = arr[a].b => blk'[d].hlen = arr[a].len /\ arr[a].len <= Len(blk[d].cells)
             /\ d # arr[a].b => /\ blk'[d].hlen = blk[d].hlen /\ blk'[d] = m[d]
                                /\ blk[d].hlen <= Len(blk[d].cells)
  <2>1. d \in Used(arr, addr)
    BY <1>2, <1>9
  <2>2. CASE d = arr[a].b
    <3>1. blk'[d] = [hlen |-> arr[a].len, cells |-> O]
      BY <1>2, <1>9, <2>2
    <3>2. arr[a].len \in Nat /\ Len(blk[d].cells) = arr[a].alloc /\ arr[a].len <= arr[a].alloc
      BY <1>3, <1>4, <2>2
    <3> QED
      BY <1>6, <2>1, <2>2, <3>1, <3>2 DEF Block
  <2>3. CASE d # arr[a].b
    <3>1. blk'[d] = m[d]
      BY <1>2, <1>9, <2>3
    <3>2. blk[d].hlen <= Len(blk[d].cells)
      BY <2>1, ShapeFacts DEF TInv
    <3> QED
      BY <1>8, <2>1, <2>3, <3>1, <3>2
  <2> QED
    BY <2>2, <2>3
<1>10. blk' \in [U -> Block] /\ \A d \in U : blk'[d].hlen <= Len(blk'[d].cells)
  <2>1. \A d \in U : blk'[d] \in Block
    BY <1>7, <1>9
  <2>2. DOMAIN blk' = U /\ blk' = [d \in U |-> blk'[d]]
    BY <1>2
  <2>3. ASSUME NEW d \in U PROVE blk'[d].hlen <= Len(blk'[d].cells)
    BY <1>7, <1>9
  <2> QED
    BY <2>1, <2>2, <2>3
<1>11. ASSUME NEW c \in Arr
       PROVE  /\ arr'[c].b \in U
              /\ arr'[c].len <= arr'[c].alloc
              /\ arr'[c].alloc = Len(blk'[arr'[c].b].cells)
  <2>1. arr'[c].b \in U
    BY <1>1 DEF Used
  <2>2. CASE c = a
    BY <1>2, <1>3, <1>5, <1>7, <2>1, <2>2
  <2>3. CASE c # a
    <3>1. arr'[c] = arr[c] /\ arr[c].b # b /\ arr[c].b # arr[a].b
      BY <1>2, <1>4, <2>3
    <3> QED
      BY <1>4, <1>9, <2>1, <3>1
  <2> QED
    BY <2>2, <2>3
<1>12. \A c, d \in Arr : arr'[c].b = arr'[d].b => c = d
  <2>1. \A c, d \in Arr : arr[c].b = arr[d].b => c = d
    BY DEF TInv, Shape
  <2> QED
    BY <1>2, <1>4, <2>1
<1>13. Shape'
  BY <1>1, <1>2, <1>10, <1>11, <1>12 DEF Shape
<1>14. Growing'
  BY <1>2 DEF Growing
<1>15. ASSUME NEW c \in Arr, c # a
       PROVE  arr'[c] = arr[c] /\ arr[c].b \in U /\ blk'[arr[c].b] = m[arr[c].b]
  <2>1. arr'[c] = arr[c] /\ arr[c].b # b /\ arr[c].b # arr[a].b
    BY <1>2, <1>4, <1>15
  <2>2. arr[c].b \in U
    BY <1>11, <2>1
  <2> QED
    BY <1>9, <2>1, <2>2
<1>16. ASSUME LengthsAgree PROVE LengthsAgree'
  <2>1. ASSUME NEW c \in Arr PROVE arr'[c].len = blk'[arr'[c].b].hlen
    <3>1. CASE c = a
      BY <1>2, <1>7, <3>1
    <3>2. CASE c # a
      <4>1. arr[c].len = blk[arr[c].b].hlen
        BY <1>16 DEF LengthsAgree
      <4> QED
        BY <1>4, <1>8, <1>15, <3>2, <4>1
    <3> QED
      BY <3>1, <3>2
  <2> QED
    BY <2>1 DEF LengthsAgree
<1>17. ASSUME LengthsAgree, AddressesUsable PROVE AddressesUsable'
  <2>1. ASSUME NEW k \in DOMAIN addr'
        PROVE  /\ addr'[k].i < Len(blk'[addr'[k].b].cells)
               /\ addr'[k].i < blk'[addr'[k].b].hlen
    <3>1. CASE addr'[k].b = b /\ addr'[k].i < call.need
      <4>1. addr'[k].i \in Nat
        <5>1. addr' \in Seq([b : Blk, i : Nat])
          BY <1>2
        <5>2. addr'[k] \in [b : Blk, i : Nat]
          BY <2>1, <5>1, LenProperties
        <5> QED
          BY <5>2
      <4> QED
        BY <1>2, <1>3, <1>5, <1>7, <3>1, <4>1
    <3>2. CASE k \in DOMAIN addr /\ addr'[k] = addr[k]
      <4>1. /\ addr[k].b \in Used(arr, addr)
            /\ addr[k].i < Len(blk[addr[k].b].cells) /\ addr[k].i < blk[addr[k].b].hlen
        BY <1>17, <3>2 DEF AddressesUsable, Used
      <4>2. addr[k].b # b /\ addr[k].b \in U
        BY <1>1, <1>2, <2>1, <3>2, <4>1 DEF Used
      <4>3. arr[a].len = blk[arr[a].b].hlen
        BY <1>3, <1>17 DEF LengthsAgree
      <4> QED
        BY <1>9, <3>2, <4>1, <4>2, <4>3
    <3> QED
      BY <1>2, <2>1, <3>1, <3>2
  <2> QED
    BY <2>1 DEF AddressesUsable
<1>18. ASSUME LengthsAgree, NEW c \in Arr, c # a, NEW k \in 1..arr[c].alloc,
              k <= arr[c].len \/ blk[arr[c].b].cells[k] \notin Obj
       PROVE  blk'[arr[c].b].cells[k] = blk[arr[c].b].cells[k]
  <2>1. arr[c].len = blk[arr[c].b].hlen
    BY <1>18 DEF LengthsAgree
  <2>2. k \in 1..Len(blk[arr[c].b].cells) /\ arr[c].b \in Used(arr, addr)
    BY <1>4
  <2> QED
    BY <1>8, <1>15, <1>18, <2>1, <2>2
<1> QED
  BY <1>5, <1>7, <1>13, <1>14, <1>16, <1>17, <1>18

LEMMA GrowAllocClean ==
  ASSUME VInv, ~StoresBehind, NEW gc \in BOOLEAN, GrowAlloc(gc)
  PROVE  Clean'
<1>1. PICK a, b : a = call.a /\ b = FreeBlk
  OBVIOUS
<1>2. /\ call.k = "grow" /\ call.size >= call.need
      /\ arr'[a].len = call.need /\ arr'[a].alloc = call.size /\ arr'[a].b = b
      /\ \A c \in Arr : c # a => arr'[c] = arr[c]
  BY <1>1, Moving DEF VInv, AInv
<1>3. LengthsAgree /\ Clean /\ TInv
  BY DEF VInv, AInv
<1>4. /\ \A k \in 1..call.size : blk'[b].cells[k] = NewCell(call.then, gc, k)
      /\ \A c \in Arr : c # a =>
           \A k \in 1..arr[c].alloc :
             k <= arr[c].len \/ blk[arr[c].b].cells[k] \notin Obj
               => blk'[arr[c].b].cells[k] = blk[arr[c].b].cells[k]
  BY <1>1, <1>3, GrowAllocStep
<1>5. \A c \in Arr : arr[c].len \in Nat /\ arr[c].alloc \in Nat /\ arr[c].len <= arr[c].alloc
  BY <1>3, ShapeFacts DEF TInv
<1>6. \A c \in Arr : \A k \in 1..arr[c].alloc :
        IF k <= arr[c].len THEN blk[arr[c].b].cells[k] \in Val ELSE blk[arr[c].b].cells[k] = NIL
  BY <1>3 DEF Clean
<1>7. ASSUME NEW k \in 1..call.size
      PROVE  IF k <= call.need THEN NewCell(call.then, gc, k) \in Val
             ELSE NewCell(call.then, gc, k) = NIL
  <2>0. PICK l, t, n : l = arr[a].len /\ t = call.then /\ n = call.need
    OBVIOUS
  <2>1. a \in Arr /\ l \in Nat /\ n \in Nat /\ l < n /\ k \in Nat /\ k >= 1
    BY <1>1, <1>2, <1>3, <1>5, <2>0, CallFacts
  <2>2. CASE k <= l
    <3>1. NewCell(t, gc, k) = blk[arr[a].b].cells[k]
      BY <1>1, <2>0, <2>2 DEF NewCell
    <3>2. k \in 1..arr[a].alloc /\ k <= n
      BY <1>5, <2>0, <2>1, <2>2
    <3> QED
      BY <1>6, <2>0, <2>1, <2>2, <3>1, <3>2
  <2>3. CASE ~(k <= l) /\ t.k = "append"
    <3>1. PICK e \in Arr : e = t.b /\ n = l + arr[e].len
      BY <1>1, <1>2, <1>3, <2>0, <2>3, CallFacts
    <3>2. NewCell(t, gc, k) = IF k <= n THEN blk[arr[e].b].cells[k - l] ELSE NIL
      BY <1>1, <2>0, <2>3, <3>1 DEF NewCell
    <3>3. k <= n => k - l \in 1..arr[e].alloc /\ k - l <= arr[e].len
      BY <1>5, <2>1, <2>3, <3>1
    <3> QED
      BY <1>6, <2>0, <3>2, <3>3
  <2>4. CASE ~(k <= l) /\ t.k # "append"
    <3>1. NewCell(t, gc, k) = IF t.k = "set" /\ k = t.i + 1 THEN Kept(t.v, gc) ELSE NIL
      BY <1>1, <2>0, <2>4 DEF NewCell
    <3>2. t.k = "set" /\ k = t.i + 1 => Kept(t.v, gc) = NIL
      <4>1. t.k = "set" => t.v \in Val /\ t.v \notin Obj
        BY <1>2, <1>3, <2>0, CallFacts
      <4> QED
        BY <4>1 DEF Kept, Val
    <3> QED
      BY <2>0, <3>1, <3>2 DEF Val
  <2> QED
    BY <2>2, <2>3, <2>4
<1>8. ASSUME NEW c \in Arr, NEW k \in 1..arr'[c].alloc
      PROVE  IF k <= arr'[c].len THEN blk'[arr'[c].b].cells[k] \in Val
             ELSE blk'[arr'[c].b].cells[k] = NIL
  <2>1. CASE c = a
    BY <1>2, <1>4, <1>7, <2>1
  <2>2. CASE c # a
    <3>1. arr'[c] = arr[c]
      BY <1>2, <2>2
    <3>2. IF k <= arr[c].len THEN blk[arr[c].b].cells[k] \in Val ELSE blk[arr[c].b].cells[k] = NIL
      BY <1>6, <3>1
    <3>3. k <= arr[c].len \/ blk[arr[c].b].cells[k] \notin Obj
      BY <3>2, ArrayAssumption DEF Val
    <3>4. blk'[arr[c].b].cells[k] = blk[arr[c].b].cells[k]
      BY <1>4, <2>2, <3>1, <3>3
    <3> QED
      BY <3>1, <3>2, <3>4
  <2> QED
    BY <2>1, <2>2
<1> QED
  BY <1>8 DEF Clean

---------------------------------------------------------------------------
(* Every step.                                                             *)
LEMMA NextTInv == TInv /\ [Next]_vars => TInv'
<1> SUFFICES ASSUME TInv, [Next]_vars PROVE TInv'
  OBVIOUS
<1>1. Shape
  BY DEF TInv
<1>2. CASE Collect
  BY <1>1, <1>2, CollectStep DEF TInv
<1>3. ASSUME NEW a \in Arr, NEW i \in Index(a), IDXA_Room(a, i) PROVE TInv'
  <2>1. i \in Nat
    BY ArrayAssumption DEF Index
  <2> QED
    BY <1>1, <1>3, <2>1, IDXARoom DEF TInv
<1>4. ASSUME NEW v \in Val, ST(v) PROVE TInv'
  BY <1>1, <1>4, STStep DEF TInv
<1>5. ASSUME NEW a \in Arr, NEW e \in Arr, array_append_Room(a, e) PROVE TInv'
  BY <1>1, <1>5, AppendRoom DEF TInv
<1>6. ASSUME NEW a \in Arr, NEW i \in Index(a), NEW v \in Val, native_arr_elem_set_Room(a, i, v)
      PROVE  TInv'
  <2>1. i \in Nat
    BY ArrayAssumption DEF Index
  <2> QED
    BY <1>1, <1>6, <2>1, SetRoom DEF TInv
<1>7. CASE \/ \E a \in Arr : \E i \in Index(a) : IDXA_Grow(a, i)
           \/ \E a, b \in Arr : array_append_Grow(a, b)
           \/ \E a \in Arr : \E i \in Index(a), v \in Val : native_arr_elem_set_Grow(a, i, v)
  <2>1. UNCHANGED <<arr, blk, addr>> /\ Growing'
    BY <1>1, <1>7, CallsGrow
  <2> QED
    BY <1>1, <2>1, CallStep DEF TInv
<1>8. CASE GrowSize
  <2>1. UNCHANGED <<arr, blk, addr>> /\ Growing'
    BY <1>8, GrowSizeStep
  <2> QED
    BY <1>1, <2>1, CallStep DEF TInv
<1>9. ASSUME NEW gc \in BOOLEAN, GrowAlloc(gc) PROVE TInv'
  BY <1>9, GrowAllocStep DEF TInv
<1>10. CASE UNCHANGED vars
  BY <1>10 DEF vars, TInv, Shape, Growing, Used
<1> QED
  BY <1>2, <1>3, <1>4, <1>5, <1>6, <1>7, <1>8, <1>9, <1>10 DEF Next

\* AInv needs that nothing is appended to an array that has room.
LEMMA NextAInv ==
  ASSUME ~AppendsInPlace, AInv, [Next]_vars PROVE AInv'
<1>0. TInv /\ Shape /\ LengthsAgree /\ AddressesUsable
  BY DEF AInv, TInv
<1>1. TInv'
  BY <1>0, NextTInv
<1>2. CASE Collect
  BY <1>0, <1>2, CollectStep
<1>3. ASSUME NEW a \in Arr, NEW i \in Index(a), IDXA_Room(a, i) PROVE AInv'
  <2>1. i \in Nat
    BY ArrayAssumption DEF Index
  <2> QED
    BY <1>0, <1>3, <2>1, IDXARoom
<1>4. ASSUME NEW v \in Val, ST(v) PROVE AInv'
  BY <1>0, <1>4, STStep
<1>5. ASSUME NEW a \in Arr, NEW e \in Arr, array_append_Room(a, e) PROVE AInv'
  BY <1>0, <1>5, AppendRoom
<1>6. ASSUME NEW a \in Arr, NEW i \in Index(a), NEW v \in Val, native_arr_elem_set_Room(a, i, v)
      PROVE  AInv'
  <2>1. i \in Nat
    BY ArrayAssumption DEF Index
  <2> QED
    BY <1>0, <1>6, <2>1, SetRoom
<1>7. CASE \/ \E a \in Arr : \E i \in Index(a) : IDXA_Grow(a, i)
           \/ \E a, b \in Arr : array_append_Grow(a, b)
           \/ \E a \in Arr : \E i \in Index(a), v \in Val : native_arr_elem_set_Grow(a, i, v)
  <2>1. UNCHANGED <<arr, blk, addr>>
    BY <1>0, <1>7, CallsGrow
  <2> QED
    BY <1>0, <1>1, <2>1, CallStep DEF AInv
<1>8. CASE GrowSize
  <2>1. UNCHANGED <<arr, blk, addr>>
    BY <1>0, <1>8, GrowSizeStep
  <2> QED
    BY <1>0, <1>1, <2>1, CallStep DEF AInv
<1>9. ASSUME NEW gc \in BOOLEAN, GrowAlloc(gc) PROVE AInv'
  BY <1>0, <1>1, <1>9, GrowAllocStep DEF AInv
<1>10. CASE UNCHANGED vars
  <2>1. UNCHANGED <<arr, blk, addr>>
    BY <1>10 DEF vars
  <2> QED
    BY <1>0, <1>1, <2>1, CallStep DEF AInv
<1> QED
  BY <1>2, <1>3, <1>4, <1>5, <1>6, <1>7, <1>8, <1>9, <1>10 DEF Next

\* VInv also that no pointer is stored behind the allocated size.
LEMMA NextVInv ==
  ASSUME ~AppendsInPlace, ~StoresBehind, VInv, [Next]_vars PROVE VInv'
<1>0. TInv /\ Shape /\ AInv /\ Clean
  BY DEF VInv, AInv, TInv
<1>1. AInv'
  BY <1>0, NextAInv
<1>2. CASE Collect
  BY <1>0, <1>2, CollectStep
<1>3. ASSUME NEW a \in Arr, NEW i \in Index(a), IDXA_Room(a, i) PROVE VInv'
  <2>1. i \in Nat
    BY ArrayAssumption DEF Index
  <2> QED
    BY <1>0, <1>3, <2>1, IDXARoom
<1>4. ASSUME NEW v \in Val, ST(v) PROVE VInv'
  BY <1>0, <1>4, STStep
<1>5. ASSUME NEW a \in Arr, NEW e \in Arr, array_append_Room(a, e) PROVE VInv'
  BY <1>0, <1>5, AppendRoom
<1>6. ASSUME NEW a \in Arr, NEW i \in Index(a), NEW v \in Val, native_arr_elem_set_Room(a, i, v)
      PROVE  VInv'
  <2>1. i \in Nat
    BY ArrayAssumption DEF Index
  <2> QED
    BY <1>0, <1>6, <2>1, SetRoom
<1>7. CASE \/ \E a \in Arr : \E i \in Index(a) : IDXA_Grow(a, i)
           \/ \E a, b \in Arr : array_append_Grow(a, b)
           \/ \E a \in Arr : \E i \in Index(a), v \in Val : native_arr_elem_set_Grow(a, i, v)
  <2>1. UNCHANGED <<arr, blk, addr>>
    BY <1>0, <1>7, CallsGrow
  <2> QED
    BY <1>0, <1>1, <2>1, CallStep DEF VInv
<1>8. CASE GrowSize
  <2>1. UNCHANGED <<arr, blk, addr>>
    BY <1>0, <1>8, GrowSizeStep
  <2> QED
    BY <1>0, <1>1, <2>1, CallStep DEF VInv
<1>9. ASSUME NEW gc \in BOOLEAN, GrowAlloc(gc) PROVE VInv'
  BY <1>0, <1>1, <1>9, GrowAllocClean DEF VInv
<1>10. CASE UNCHANGED vars
  <2>1. UNCHANGED <<arr, blk, addr>>
    BY <1>10 DEF vars
  <2> QED
    BY <1>0, <1>1, <2>1, CallStep DEF VInv
<1> QED
  BY <1>2, <1>3, <1>4, <1>5, <1>6, <1>7, <1>8, <1>9, <1>10 DEF Next

(* Whatever the program does, an array has a block of its own that is as   *)
(* large as the array believes, no length exceeds it, and every block holds*)
(* values or stale pointers only.                                          *)
THEOREM Typed == Spec => []TypeOK
<1>1. Init => TInv
  BY InitInv DEF VInv, AInv
<1>2. TInv => TypeOK
  <2> SUFFICES ASSUME TInv PROVE TypeOK
    OBVIOUS
  <2>1. DOMAIN blk = Used(arr, addr)
    BY ShapeFacts DEF TInv
  <2>2. ASSUME NEW b \in Used(arr, addr) PROVE BlkOK(blk[b])
    <3>1. /\ blk[b].hlen \in Nat /\ blk[b].cells \in Seq(Cell)
          /\ Len(blk[b].cells) \in Nat /\ blk[b].hlen <= Len(blk[b].cells)
          /\ \A k \in 1..Len(blk[b].cells) : blk[b].cells[k] \in Cell
      BY ShapeFacts DEF TInv
    <3>2. DOMAIN blk[b].cells = 1..Len(blk[b].cells)
      BY <3>1, LenProperties
    <3> QED
      BY <3>1, <3>2 DEF BlkOK, Cell
  <2> QED
    BY <2>1, <2>2 DEF TInv, Shape, TypeOK
<1> QED
  BY <1>1, <1>2, NextTInv, PTL DEF Spec

(* A program that does not append to an array with room keeps the length   *)
(* in the array and the one in its block's header the same: the assertion  *)
(* of native_array_length (k_array.c:182) never fails.                     *)
THEOREM Agreed == ASSUME "append in place" \notin Unsafe PROVE Spec => []LengthsAgree
<1>1. ~AppendsInPlace
  BY DEF AppendsInPlace
<1>2. Init => AInv
  BY InitInv DEF VInv
<1>3. AInv /\ [Next]_vars => AInv'
  BY <1>1, NextAInv
<1>4. AInv => LengthsAgree
  BY DEF AInv
<1> QED
  BY <1>2, <1>3, <1>4, PTL DEF Spec

(* ... and never stores outside a block through an address that IDXA has   *)
(* taken, however the array and others grow before the store.              *)
THEOREM Addressed == ASSUME "append in place" \notin Unsafe PROVE Spec => []AddressesUsable
<1>1. ~AppendsInPlace
  BY DEF AppendsInPlace
<1>2. Init => AInv
  BY InitInv DEF VInv
<1>3. AInv /\ [Next]_vars => AInv'
  BY <1>1, NextAInv
<1>4. AInv => AddressesUsable
  BY DEF AInv
<1> QED
  BY <1>2, <1>3, <1>4, PTL DEF Spec

---------------------------------------------------------------------------
(* The loop that finds the size.                                           *)

(* Half of a size is at least one from two on.  Arrays are never smaller   *)
(* if they do not begin so.                                                *)
Roomy == (\A a \in Arr : arr[a].alloc >= 2) /\ (call # Idle => call.size >= 2)

LEMMA SizeGrows == \A n \in Nat : n >= 2 => new_size(n) \in Nat /\ new_size(n) > n
  BY DEF new_size

LEMMA GrowSizeGrows ==
  ASSUME TInv, Roomy, GrowSize
  PROVE  arr' = arr /\ call'.need = call.need /\ call'.size > call.size /\ call'.size >= 2
<1>1. call # Idle /\ call \in Call
  BY DEF GrowSize, Idle, TInv, Growing
<1>2. call.size \in Nat /\ call.size >= 2
  BY <1>1 DEF Call, Roomy
<1>3. PICK c \in Nat : c = call.size /\ c >= 2
  BY <1>2
<1>4. PICK s \in Nat : s = new_size(c) /\ s > c
  BY <1>3, SizeGrows
<1>5. call' = [call EXCEPT !.size = s] /\ arr' = arr
  BY <1>3, <1>4 DEF GrowSize
<1>6. call'.need = call.need /\ call'.size = s
  BY <1>1, <1>5 DEF Call
<1>7. call'.size > call.size
  BY <1>3, <1>4, <1>6
<1>8. s >= 2
  BY <1>3, <1>4
<1>9. call'.size >= 2
  BY <1>6, <1>8
<1> QED
  BY <1>5, <1>6, <1>7, <1>9

LEMMA RoomyKept ==
  ASSUME TInv, Roomy, [Next]_vars
  PROVE  Roomy'
<1>1. \A a \in Arr : arr[a] \in Array /\ arr[a].alloc \in Nat
  BY DEF TInv, Shape, Array
<1>2. ASSUME call' = call \/ call' = Idle, NEW a \in Arr, NEW n, arr' = [arr EXCEPT ![a].len = n]
      PROVE  Roomy'
  BY <1>1, <1>2 DEF Roomy, TInv, Shape
<1>3. CASE arr' = arr /\ call' = call
  BY <1>3 DEF Roomy
<1>4. ASSUME NEW a \in Arr, NEW i \in Index(a), IDXA_Room(a, i) PROVE Roomy'
  BY <1>2, <1>3, <1>4 DEF IDXA_Room, arr_set_length
<1>5. ASSUME NEW a \in Arr, NEW e \in Arr, array_append_Room(a, e) PROVE Roomy'
  BY <1>2, <1>5 DEF array_append_Room
<1>6. ASSUME NEW a \in Arr, NEW i \in Index(a), NEW v \in Val, native_arr_elem_set_Room(a, i, v)
      PROVE  Roomy'
  BY <1>2, <1>6 DEF native_arr_elem_set_Room
<1>7. ASSUME NEW a \in Arr, NEW n, NEW then, arr' = arr, call' = Grow(a, n, then) PROVE Roomy'
  BY <1>7 DEF Roomy, Grow
<1>8. CASE GrowSize
  BY <1>8, GrowSizeGrows DEF Roomy
<1>9. ASSUME NEW gc \in BOOLEAN, GrowAlloc(gc) PROVE Roomy'
  <2>1. call # Idle /\ call.size >= 2 /\ call.a \in Arr
    BY <1>9 DEF GrowAlloc, Idle, TInv, Growing, Call, Roomy
  <2>2. PICK n, b : arr' = [arr EXCEPT ![call.a] = [len |-> n, alloc |-> call.size, b |-> b]]
    BY <1>9 DEF GrowAlloc
  <2>3. call' = Idle
    BY <1>9 DEF GrowAlloc
  <2> QED
    BY <2>1, <2>2, <2>3 DEF Roomy, TInv, Shape
<1>10. CASE Collect \/ UNCHANGED vars \/ \E v \in Val : ST(v)
  BY <1>3, <1>10 DEF Collect, vars, ST
<1>11. CASE \/ \E a \in Arr : \E i \in Index(a) : IDXA_Grow(a, i)
            \/ \E a, b \in Arr : array_append_Grow(a, b)
            \/ \E a \in Arr : \E i \in Index(a), v \in Val : native_arr_elem_set_Grow(a, i, v)
  BY <1>7, <1>11 DEF IDXA_Grow, array_append_Grow, native_arr_elem_set_Grow
<1> QED
  BY <1>4, <1>5, <1>6, <1>8, <1>9, <1>10, <1>11 DEF Next

(* Without arrays of exactly one element no round of the loop in           *)
(* arr_realloc_elems leaves the size as it is, whatever is stored, appended *)
(* or grown before: an array never comes down to one cell.                 *)
THEOREM GrowthEnds ==
  ASSUME InitSize >= 2, \A a \in Arr : 1 \notin Literals[a]
  PROVE  Spec => []NoRoundIsLost
<1>1. Init => TInv
  BY InitInv DEF VInv, AInv
<1>2. Init => Roomy
  <2> SUFFICES ASSUME Init PROVE Roomy
    OBVIOUS
  <2>1. call = Idle
    BY DEF Init
  <2>2. PICK n : /\ \A a \in Arr : n[a] \in Literals[a]
                 /\ \A a \in Arr : arr[a].alloc = IF n[a] = 0 THEN InitSize ELSE n[a]
    <3>1. PICK n \in [Arr -> UNION {Literals[a] : a \in Arr}] :
            /\ \A a \in Arr : n[a] \in Literals[a]
            /\ \A a \in Arr : arr[a].alloc = IF n[a] = 0 THEN InitSize ELSE n[a]
      BY DEF Init
    <3> QED
      BY <3>1
  <2>3. ASSUME NEW a \in Arr PROVE arr[a].alloc >= 2
    <3>1. n[a] \in Nat /\ n[a] # 1 /\ InitSize \in Nat
      BY <2>2, ArrayAssumption
    <3> QED
      BY <2>2, <3>1
  <2> QED
    BY <2>1, <2>3 DEF Roomy
<1>3. TInv /\ Roomy /\ [Next]_vars => (TInv /\ Roomy)'
  BY NextTInv, RoomyKept
<1>4. TInv /\ Roomy => NoRoundIsLost
  <2> SUFFICES ASSUME TInv, Roomy, call # Idle PROVE new_size(call.size) > call.size
    BY DEF NoRoundIsLost
  <2>1. call.size \in Nat /\ call.size >= 2
    BY DEF TInv, Growing, Call, Roomy
  <2> QED
    BY <2>1, SizeGrows
<1> QED
  BY <1>1, <1>2, <1>3, <1>4, PTL DEF Spec

---------------------------------------------------------------------------
(* Arrays are vectors: every step of KekArray is a step of Vector, or none,*)
(* for a program that does nothing known to go wrong.  A scavenge and the  *)
(* rounds in which a larger size is found change no element; an array that *)
(* moves keeps its elements and leaves the addresses taken before dead.    *)

\* The mapping, with the state as a parameter: arrays r, blocks m, addresses d.
OwnerIn(r, p) ==
  IF \E a \in Arr : r[a].b = p.b THEN [a |-> CHOOSE a \in Arr : r[a].b = p.b, i |-> p.i] ELSE NOBLK
VecOf(r, m) == [a \in Arr |-> SubSeq(m[r[a].b].cells, 1, r[a].len)]
AdrOf(r, d) == [k \in DOMAIN d |-> OwnerIn(r, d[k])]

---------------------------------------------------------------------------
(* Sequences of cells.                                                     *)
LEMMA ExtendedCells ==
  ASSUME NEW s \in Seq(Cell), NEW n \in Nat, NEW t \in Seq(Cell),
         Len(t) = IF n > Len(s) THEN n ELSE Len(s),
         \A k \in 1..Len(t) : t[k] = IF k <= Len(s) THEN s[k] ELSE NIL
  PROVE  V!Extended(s, n) = t
<1>1. DOMAIN t = 1..Len(t) /\ t = [k \in 1..Len(t) |-> t[k]]
  BY LenProperties
<1>2. V!Extended(s, n) = [k \in 1..Len(t) |-> IF k <= Len(s) THEN s[k] ELSE NIL]
  BY DEF V!Extended
<1> QED
  BY <1>1, <1>2

LEMMA SetCells ==
  ASSUME NEW s \in Seq(Cell), NEW i \in Nat, NEW v \in Cell, NEW t \in Seq(Cell),
         Len(t) = IF i + 1 > Len(s) THEN i + 1 ELSE Len(s),
         \A k \in 1..Len(t) : t[k] = IF k = i + 1 THEN v ELSE IF k <= Len(s) THEN s[k] ELSE NIL
  PROVE  [V!Extended(s, i + 1) EXCEPT ![i + 1] = v] = t
<1>1. DOMAIN t = 1..Len(t) /\ t = [k \in 1..Len(t) |-> t[k]]
  BY LenProperties
<1>2. V!Extended(s, i + 1) = [k \in 1..Len(t) |-> IF k <= Len(s) THEN s[k] ELSE NIL]
  BY DEF V!Extended
<1> QED
  BY <1>1, <1>2

LEMMA ConcatCells ==
  ASSUME NEW s \in Seq(Cell), NEW e \in Seq(Cell), NEW t \in Seq(Cell),
         Len(t) = Len(s) + Len(e),
         \A k \in 1..Len(t) : t[k] = IF k <= Len(s) THEN s[k] ELSE e[k - Len(s)]
  PROVE  s \o e = t
<1>1. /\ s \o e \in Seq(Cell) /\ Len(s \o e) = Len(s) + Len(e)
      /\ \A k \in 1..Len(s) + Len(e) :
           (s \o e)[k] = IF k <= Len(s) THEN s[k] ELSE e[k - Len(s)]
  BY ConcatProperties
<1> QED
  BY <1>1, SeqEqual

---------------------------------------------------------------------------
(* The mapping.                                                            *)
LEMMA Owner ==
  ASSUME NEW r, \A a, c \in Arr : r[a].b = r[c].b => a = c, NEW p
  PROVE  /\ \A a \in Arr : r[a].b = p.b => OwnerIn(r, p) = [a |-> a, i |-> p.i]
         /\ (\A a \in Arr : r[a].b # p.b) => OwnerIn(r, p) = NOBLK
<1>1. ASSUME NEW a \in Arr, r[a].b = p.b PROVE OwnerIn(r, p) = [a |-> a, i |-> p.i]
  <2>1. (CHOOSE c \in Arr : r[c].b = p.b) = a
    BY <1>1
  <2> QED
    BY <1>1, <2>1 DEF OwnerIn
<1> QED
  BY <1>1 DEF OwnerIn

LEMMA VecFacts ==
  ASSUME NEW r, NEW m, NEW a \in Arr, r[a].len \in Nat,
         m[r[a].b].cells \in Seq(Cell), r[a].len <= Len(m[r[a].b].cells)
  PROVE  /\ VecOf(r, m)[a] \in Seq(Cell) /\ Len(VecOf(r, m)[a]) = r[a].len
         /\ \A k \in 1..r[a].len : VecOf(r, m)[a][k] = m[r[a].b].cells[k]
<1>1. PICK c, n : c = m[r[a].b].cells /\ n = r[a].len
  OBVIOUS
<1>2. c \in Seq(Cell) /\ n \in Nat /\ n <= Len(c)
  BY <1>1
<1>3. /\ SubSeq(c, 1, n) \in Seq(Cell) /\ Len(SubSeq(c, 1, n)) = n
      /\ \A k \in 1..n : SubSeq(c, 1, n)[k] = c[k]
  BY <1>2, FirstCells
<1>4. VecOf(r, m)[a] = SubSeq(c, 1, n)
  BY <1>1 DEF VecOf
<1> QED
  BY <1>1, <1>3, <1>4

\* The mapping of one state and of the next.
LEMMA Mapping ==
  /\ [a \in Arr |-> Elements(a)] = VecOf(arr, blk)
  /\ [a \in Arr |-> Elements(a)]' = VecOf(arr', blk')
  /\ [k \in DOMAIN addr |-> AsAddress(addr[k])] = AdrOf(arr, addr)
  /\ [k \in DOMAIN addr |-> AsAddress(addr[k])]' = AdrOf(arr', addr')
  BY DEF Elements, VecOf, AdrOf, AsAddress, OwnerIn, Owned

LEMMA VecNow ==
  ASSUME Shape
  PROVE  \A a \in Arr :
           /\ VecOf(arr, blk)[a] \in Seq(Cell) /\ Len(VecOf(arr, blk)[a]) = arr[a].len
           /\ \A k \in 1..arr[a].len : VecOf(arr, blk)[a][k] = blk[arr[a].b].cells[k]
<1>1. \A a \in Arr : /\ arr[a].len \in Nat /\ blk[arr[a].b].cells \in Seq(Cell)
                     /\ arr[a].len <= Len(blk[arr[a].b].cells)
  BY ShapeFacts
<1> QED
  BY <1>1, VecFacts

LEMMA VecNext ==
  ASSUME Shape'
  PROVE  \A a \in Arr :
           /\ VecOf(arr', blk')[a] \in Seq(Cell) /\ Len(VecOf(arr', blk')[a]) = arr'[a].len
           /\ \A k \in 1..arr'[a].len : VecOf(arr', blk')[a][k] = blk'[arr'[a].b].cells[k]
<1>1. ASSUME NEW a \in Arr
      PROVE  /\ arr'[a].len \in Nat /\ blk'[arr'[a].b].cells \in Seq(Cell)
             /\ arr'[a].len <= Len(blk'[arr'[a].b].cells)
  <2>1. arr'[a] \in Array /\ arr'[a].b \in Used(arr', addr')
    BY DEF Shape, Used
  <2>2. blk'[arr'[a].b] \in Block
    BY <2>1 DEF Shape
  <2>3. arr'[a].len <= arr'[a].alloc /\ arr'[a].alloc = Len(blk'[arr'[a].b].cells)
    BY DEF Shape
  <2> QED
    BY <2>1, <2>2, <2>3 DEF Array, Block
<1> QED
  BY <1>1, VecFacts

\* The elements of an array are the same if its length and they are.
LEMMA SameVec ==
  ASSUME Shape, Shape', NEW a \in Arr, arr'[a].len = arr[a].len,
         \A k \in 1..arr[a].len : blk'[arr'[a].b].cells[k] = blk[arr[a].b].cells[k]
  PROVE  VecOf(arr', blk')[a] = VecOf(arr, blk)[a]
<1>1. PICK s, t : s = VecOf(arr, blk)[a] /\ t = VecOf(arr', blk')[a]
  OBVIOUS
<1>2. s \in Seq(Cell) /\ Len(s) = arr[a].len /\ \A k \in 1..arr[a].len : s[k] = blk[arr[a].b].cells[k]
  BY <1>1, VecNow
<1>3. t \in Seq(Cell) /\ Len(t) = arr[a].len /\ \A k \in 1..arr[a].len : t[k] = blk'[arr'[a].b].cells[k]
  BY <1>1, VecNext
<1>4. s = t
  <2>1. Len(s) = Len(t) /\ \A k \in 1..Len(s) : s[k] = t[k]
    BY <1>2, <1>3
  <2> QED
    BY <1>2, <1>3, <2>1, SeqEqual
<1> QED
  BY <1>1, <1>4

\* Addresses mean the same as long as the arrays keep their blocks.
LEMMA SameOwner ==
  ASSUME Shape, Shape', \A a \in Arr : arr'[a].b = arr[a].b, NEW p
  PROVE  OwnerIn(arr', p) = OwnerIn(arr, p)
<1>1. \A a, c \in Arr : arr[a].b = arr[c].b => a = c
  BY DEF Shape
<1>2. \A a, c \in Arr : arr'[a].b = arr'[c].b => a = c
  BY DEF Shape
<1>3. CASE \E a \in Arr : arr[a].b = p.b
  <2>1. PICK a \in Arr : arr[a].b = p.b
    BY <1>3
  <2>2. OwnerIn(arr, p) = [a |-> a, i |-> p.i]
    BY <1>1, <2>1, Owner
  <2>3. OwnerIn(arr', p) = [a |-> a, i |-> p.i]
    <3>1. arr'[a].b = p.b
      BY <2>1
    <3>2. PICK r : r = arr'
      OBVIOUS
    <3>3. /\ \A c, d \in Arr : r[c].b = r[d].b => c = d
          /\ r[a].b = p.b
      BY <1>2, <3>1, <3>2
    <3>4. OwnerIn(r, p) = [a |-> a, i |-> p.i]
      BY <2>1, <3>3, Owner
    <3> QED
      BY <3>2, <3>4
  <2> QED
    BY <2>2, <2>3
<1>4. CASE \A a \in Arr : arr[a].b # p.b
  BY <1>4 DEF OwnerIn
<1> QED
  BY <1>3, <1>4

\* The abstract state's domains.
LEMMA Domains ==
  /\ DOMAIN VecOf(arr, blk) = Arr /\ DOMAIN VecOf(arr', blk') = Arr
  /\ DOMAIN AdrOf(arr, addr) = DOMAIN addr /\ DOMAIN AdrOf(arr', addr') = DOMAIN addr'
  BY DEF VecOf, AdrOf

\* A step that changes no element and no address is none.
LEMMA Stutter ==
  ASSUME Shape, Shape', addr' = addr,
         \A a \in Arr : /\ arr'[a].b = arr[a].b /\ arr'[a].len = arr[a].len
                        /\ \A k \in 1..arr[a].len :
                             blk'[arr[a].b].cells[k] = blk[arr[a].b].cells[k]
  PROVE  UNCHANGED V!vvars
<1>1. VecOf(arr', blk') = VecOf(arr, blk)
  <2>1. ASSUME NEW a \in Arr PROVE VecOf(arr', blk')[a] = VecOf(arr, blk)[a]
    BY SameVec
  <2>2. PICK v, w : v = VecOf(arr, blk) /\ w = VecOf(arr', blk')
    OBVIOUS
  <2>3. v = [a \in Arr |-> v[a]] /\ w = [a \in Arr |-> w[a]]
    BY <2>2 DEF VecOf
  <2>4. \A a \in Arr : v[a] = w[a]
    BY <2>1, <2>2
  <2>5. v = w
    BY <2>3, <2>4
  <2> QED
    BY <2>2, <2>5
<1>2. AdrOf(arr', addr') = AdrOf(arr, addr)
  BY SameOwner DEF AdrOf
<1> QED
  BY <1>1, <1>2, Mapping DEF V!vvars

---------------------------------------------------------------------------
(* Addresses.                                                              *)
Element == [a : Arr, i : Nat] \cup {NOBLK}

LEMMA OwnerType ==
  ASSUME NEW r, NEW p \in [b : Blk, i : Nat] PROVE OwnerIn(r, p) \in Element
<1>1. CASE \E a \in Arr : r[a].b = p.b
  <2>1. (CHOOSE a \in Arr : r[a].b = p.b) \in Arr
    BY <1>1
  <2> QED
    BY <1>1, <2>1 DEF OwnerIn, Element
<1>2. CASE ~ \E a \in Arr : r[a].b = p.b
  BY <1>2 DEF OwnerIn, Element
<1> QED
  BY <1>1, <1>2

LEMMA AdrFacts ==
  ASSUME NEW r, NEW d \in Seq([b : Blk, i : Nat])
  PROVE  /\ AdrOf(r, d) \in Seq(Element) /\ Len(AdrOf(r, d)) = Len(d)
         /\ \A k \in 1..Len(d) : AdrOf(r, d)[k] = OwnerIn(r, d[k])
<1>1. Len(d) \in Nat /\ DOMAIN d = 1..Len(d) /\ \A k \in 1..Len(d) : d[k] \in [b : Blk, i : Nat]
  BY LenProperties
<1>2. PICK e : e = AdrOf(r, d)
  OBVIOUS
<1>3. DOMAIN e = 1..Len(d) /\ \A k \in 1..Len(d) : e[k] = OwnerIn(r, d[k])
  BY <1>1, <1>2 DEF AdrOf
<1>4. \A k \in 1..Len(d) : e[k] \in Element
  BY <1>1, <1>3, OwnerType
<1>5. e = [k \in 1..Len(d) |-> e[k]]
  BY <1>1, <1>2 DEF AdrOf
<1>6. e \in [1..Len(d) -> Element]
  BY <1>4, <1>5
<1>7. e \in Seq(Element) /\ Len(e) = Len(d)
  BY <1>1, <1>6
<1> QED
  BY <1>2, <1>3, <1>7

\* The list q of elements with one more at its end, or one less.
LEMMA OneMore ==
  ASSUME NEW r, NEW d \in Seq([b : Blk, i : Nat]), NEW q \in Seq(Element), NEW e \in Element,
         Len(d) = Len(q) + 1,
         \A k \in 1..Len(q) : OwnerIn(r, d[k]) = q[k],
         OwnerIn(r, d[Len(q) + 1]) = e
  PROVE  AdrOf(r, d) = Append(q, e)
<1>1. PICK x, y : x = AdrOf(r, d) /\ y = Append(q, e)
  OBVIOUS
<1>2. /\ x \in Seq(Element) /\ Len(x) = Len(d)
      /\ \A k \in 1..Len(d) : x[k] = OwnerIn(r, d[k])
  BY <1>1, AdrFacts
<1>3. /\ y \in Seq(Element) /\ Len(y) = Len(q) + 1
      /\ \A k \in 1..Len(q) : y[k] = q[k]
      /\ y[Len(q) + 1] = e
  BY <1>1, AppendProperties
<1>4. Len(q) \in Nat
  BY LenProperties
<1>5. ASSUME NEW k \in 1..Len(x) PROVE x[k] = y[k]
  <2>1. CASE k \in 1..Len(q)
    <3>1. k \in 1..Len(d)
      BY <1>4, <2>1
    <3> QED
      BY <1>2, <1>3, <2>1, <3>1
  <2>2. CASE k = Len(q) + 1
    <3>1. k \in 1..Len(d)
      BY <1>4, <2>2
    <3> QED
      BY <1>2, <1>3, <2>2, <3>1
  <2> QED
    BY <1>2, <1>4, <2>1, <2>2
<1>6. x = y
  BY <1>2, <1>3, <1>5, SeqEqual
<1> QED
  BY <1>1, <1>6

LEMMA OneLess ==
  ASSUME NEW r, NEW d \in Seq([b : Blk, i : Nat]), d # <<>>
  PROVE  /\ AdrOf(r, d) # <<>>
         /\ AdrOf(r, d)[Len(AdrOf(r, d))] = OwnerIn(r, d[Len(d)])
         /\ AdrOf(r, SubSeq(d, 1, Len(d) - 1))
              = SubSeq(AdrOf(r, d), 1, Len(AdrOf(r, d)) - 1)
<1>1. PICK n : n = Len(d) - 1
  OBVIOUS
<1>2. n \in Nat /\ Len(d) = n + 1
  BY <1>1, EmptySeq
<1>3. PICK x, c : x = AdrOf(r, d) /\ c = SubSeq(d, 1, n)
  OBVIOUS
<1>4. /\ x \in Seq(Element) /\ Len(x) = n + 1
      /\ \A k \in 1..n + 1 : x[k] = OwnerIn(r, d[k])
  BY <1>2, <1>3, AdrFacts
<1>5. c \in Seq([b : Blk, i : Nat]) /\ Len(c) = n /\ \A k \in 1..n : c[k] = d[k]
  <2>1. PICK S : S = [b : Blk, i : Nat]
    OBVIOUS
  <2>2. d \in Seq(S) /\ n <= Len(d)
    BY <1>2, <2>1
  <2>3. SubSeq(d, 1, n) \in Seq(S) /\ Len(SubSeq(d, 1, n)) = n /\ \A k \in 1..n : SubSeq(d, 1, n)[k] = d[k]
    BY <1>2, <2>2, FirstCells
  <2> QED
    BY <1>3, <2>1, <2>3
<1>6. PICK y, z : y = AdrOf(r, c) /\ z = SubSeq(x, 1, n)
  OBVIOUS
<1>7. y \in Seq(Element) /\ Len(y) = n /\ \A k \in 1..n : y[k] = OwnerIn(r, d[k])
  <2>1. y \in Seq(Element) /\ Len(y) = Len(c) /\ \A k \in 1..Len(c) : y[k] = OwnerIn(r, c[k])
    BY <1>5, <1>6, AdrFacts
  <2> QED
    BY <1>5, <2>1
<1>8. z \in Seq(Element) /\ Len(z) = n /\ \A k \in 1..n : z[k] = x[k]
  <2>1. n <= Len(x)
    BY <1>2, <1>4
  <2> QED
    BY <1>2, <1>4, <1>6, <2>1, FirstCells
<1>9. \A k \in 1..n : y[k] = z[k]
  BY <1>2, <1>4, <1>7, <1>8
<1>10. y = z
  BY <1>7, <1>8, <1>9, SeqEqual
<1>11. Len(x) - 1 = n /\ x # <<>>
  BY <1>2, <1>4, EmptySeq
<1>12. x[Len(x)] = OwnerIn(r, d[Len(d)])
  BY <1>2, <1>4
<1> QED
  BY <1>1, <1>3, <1>6, <1>10, <1>11, <1>12

---------------------------------------------------------------------------
(* Calls that find room.                                                   *)
LEMMA OneVec ==
  ASSUME Shape, Shape', NEW a \in Arr, NEW e, VecOf(arr', blk')[a] = e,
         \A c \in Arr : c # a =>
           /\ arr'[c].len = arr[c].len
           /\ \A k \in 1..arr[c].len : blk'[arr'[c].b].cells[k] = blk[arr[c].b].cells[k]
  PROVE  VecOf(arr', blk') = [VecOf(arr, blk) EXCEPT ![a] = e]
<1>1. PICK v, w : v = VecOf(arr, blk) /\ w = VecOf(arr', blk')
  OBVIOUS
<1>2. v = [c \in Arr |-> v[c]] /\ w = [c \in Arr |-> w[c]]
  BY <1>1 DEF VecOf
<1>3. ASSUME NEW c \in Arr, c # a PROVE w[c] = v[c]
  BY <1>1, <1>3, SameVec
<1>4. w[a] = e
  BY <1>1
<1>5. w = [v EXCEPT ![a] = e]
  BY <1>2, <1>3, <1>4
<1> QED
  BY <1>1, <1>5

\* What Clean says of an array whose length grows to n without its cells.
LEMMA ExtendedVec ==
  ASSUME VInv, Shape', NEW a \in Arr, NEW i \in Nat, i < arr[a].alloc,
         arr'[a].len = IF i >= arr[a].len THEN i + 1 ELSE arr[a].len,
         \A k \in 1..arr[a].alloc : blk'[arr'[a].b].cells[k] = blk[arr[a].b].cells[k]
  PROVE  VecOf(arr', blk')[a] = V!Extended(VecOf(arr, blk)[a], i + 1)
<1>1. PICK s, t, n : s = VecOf(arr, blk)[a] /\ t = VecOf(arr', blk')[a] /\ n = i + 1
  OBVIOUS
<1>2. Shape /\ Clean
  BY DEF VInv, AInv, TInv
<1>3. /\ s \in Seq(Cell) /\ Len(s) = arr[a].len
      /\ \A k \in 1..arr[a].len : s[k] = blk[arr[a].b].cells[k]
  BY <1>1, <1>2, VecNow
<1>4. /\ t \in Seq(Cell) /\ Len(t) = arr'[a].len
      /\ \A k \in 1..arr'[a].len : t[k] = blk'[arr'[a].b].cells[k]
  BY <1>1, VecNext
<1>5. arr[a].len \in Nat /\ arr[a].alloc \in Nat /\ arr[a].len <= arr[a].alloc
  BY <1>2, ShapeFacts
<1>6. n \in Nat /\ Len(t) = IF n > Len(s) THEN n ELSE Len(s)
  BY <1>1, <1>3, <1>4, <1>5
<1>7. ASSUME NEW k \in 1..Len(t) PROVE t[k] = IF k <= Len(s) THEN s[k] ELSE NIL
  <2>1. k \in 1..arr[a].alloc
    BY <1>1, <1>3, <1>5, <1>6
  <2>2. t[k] = blk[arr[a].b].cells[k]
    BY <1>4, <1>7, <2>1
  <2>3. k > arr[a].len => blk[arr[a].b].cells[k] = NIL
    BY <1>2, <1>5, <2>1 DEF Clean
  <2> QED
    BY <1>3, <1>5, <2>1, <2>2, <2>3
<1>8. V!Extended(s, n) = t
  BY <1>3, <1>4, <1>6, <1>7, ExtendedCells
<1> QED
  BY <1>1, <1>8

LEMMA RoomTakes ==
  ASSUME VInv, NEW a \in Arr, NEW i \in Index(a), IDXA_Room(a, i)
  PROVE  V!TakeAddress(a, i)
<1>1. Shape /\ i \in Nat
  BY ArrayAssumption DEF VInv, AInv, TInv, Index
<1>2. /\ Shape'
      /\ \A c \in Arr : /\ arr'[c].b = arr[c].b
                        /\ arr'[c].len = IF c = a /\ i >= arr[a].len THEN i + 1 ELSE arr[c].len
                        /\ blk'[arr[c].b].cells = blk[arr[c].b].cells
  BY <1>1, IDXARoom
<1>3. PICK p, e : p = [b |-> arr[a].b, i |-> i] /\ e = [a |-> a, i |-> i]
  OBVIOUS
<1>4. addr' = Append(addr, p) /\ Len(addr) < MaxAddr /\ i < arr[a].alloc
  BY <1>3 DEF IDXA_Room, Address
<1>5. PICK v, w, x, y : /\ v = VecOf(arr, blk) /\ w = VecOf(arr', blk')
                        /\ x = AdrOf(arr, addr) /\ y = AdrOf(arr', addr')
  OBVIOUS
<1>6. w = [v EXCEPT ![a] = V!Extended(v[a], i + 1)]
  <2>1. VecOf(arr', blk')[a] = V!Extended(VecOf(arr, blk)[a], i + 1)
    BY <1>1, <1>2, <1>4, ExtendedVec
  <2> QED
    BY <1>1, <1>2, <1>5, <2>1, OneVec
<1>7. y = Append(x, e)
  <2>1. p \in [b : Blk, i : Nat]
    BY <1>1, <1>3, ShapeFacts
  <2>2. PICK d, r : d = addr' /\ r = arr'
    OBVIOUS
  <2>3. addr \in Seq([b : Blk, i : Nat]) /\ Len(addr) \in Nat
    BY <1>1, ShapeFacts DEF Shape
  <2>4. /\ d \in Seq([b : Blk, i : Nat]) /\ Len(d) = Len(addr) + 1
        /\ \A k \in 1..Len(addr) : d[k] = addr[k]
        /\ d[Len(addr) + 1] = p
    BY <1>4, <2>1, <2>2, <2>3, AppendProperties
  <2>5. /\ x \in Seq(Element) /\ Len(x) = Len(addr)
        /\ \A k \in 1..Len(addr) : x[k] = OwnerIn(arr, addr[k])
    BY <1>5, <2>3, AdrFacts
  <2>6. \A q : OwnerIn(r, q) = OwnerIn(arr, q)
    BY <1>1, <1>2, <2>2, SameOwner
  <2>7. OwnerIn(arr, p) = e
    <3>1. \A b, c \in Arr : arr[b].b = arr[c].b => b = c
      BY <1>1 DEF Shape
    <3>2. arr[a].b = p.b /\ p.i = i
      BY <1>3
    <3> QED
      BY <1>3, <3>1, <3>2, Owner
  <2>8. e \in Element
    BY <1>1, <1>3 DEF Element
  <2>9. /\ Len(d) = Len(x) + 1
        /\ \A k \in 1..Len(x) : OwnerIn(r, d[k]) = x[k]
        /\ OwnerIn(r, d[Len(x) + 1]) = e
    BY <2>4, <2>5, <2>6, <2>7
  <2>10. AdrOf(r, d) = Append(x, e)
    BY <2>4, <2>5, <2>8, <2>9, OneMore
  <2> QED
    BY <1>5, <2>2, <2>10
<1> QED
  BY <1>3, <1>5, <1>6, <1>7, Mapping DEF V!TakeAddress, V!MayMove

LEMMA RoomSets ==
  ASSUME VInv, NEW a \in Arr, NEW i \in Index(a), NEW u \in Val,
         native_arr_elem_set_Room(a, i, u)
  PROVE  V!SetElem(a, i, u)
<1>1. Shape /\ Clean /\ i \in Nat /\ u \in Cell
  BY ArrayAssumption DEF VInv, AInv, TInv, Index, Cell
<1>2. /\ Shape' /\ addr' = addr /\ i < arr[a].alloc
      /\ \A c \in Arr :
           /\ arr'[c].b = arr[c].b
           /\ arr'[c].len = IF c = a /\ i >= arr[a].len THEN i + 1 ELSE arr[c].len
           /\ \A k \in 1..arr[c].alloc :
                blk'[arr[c].b].cells[k]
                  = IF c = a /\ k = i + 1 THEN u ELSE blk[arr[c].b].cells[k]
  BY <1>1, SetRoom
<1>3. \A c \in Arr : arr[c].len \in Nat /\ arr[c].alloc \in Nat /\ arr[c].len <= arr[c].alloc
  BY <1>1, ShapeFacts
<1>4. PICK s, t : s = VecOf(arr, blk)[a] /\ t = VecOf(arr', blk')[a]
  OBVIOUS
<1>5. /\ s \in Seq(Cell) /\ Len(s) = arr[a].len
      /\ \A k \in 1..arr[a].len : s[k] = blk[arr[a].b].cells[k]
  BY <1>1, <1>4, VecNow
<1>6. /\ t \in Seq(Cell) /\ Len(t) = arr'[a].len
      /\ \A k \in 1..arr'[a].len : t[k] = blk'[arr'[a].b].cells[k]
  BY <1>2, <1>4, VecNext
<1>7. Len(t) = IF i + 1 > Len(s) THEN i + 1 ELSE Len(s)
  <2>1. arr'[a].len = IF i >= arr[a].len THEN i + 1 ELSE arr[a].len
    BY <1>2
  <2> QED
    BY <1>1, <1>3, <1>5, <1>6, <2>1
<1>8. ASSUME NEW k \in 1..Len(t)
      PROVE  t[k] = IF k = i + 1 THEN u ELSE IF k <= Len(s) THEN s[k] ELSE NIL
  <2>1. k \in 1..arr[a].alloc
    BY <1>1, <1>2, <1>3, <1>5, <1>7
  <2>2. t[k] = IF k = i + 1 THEN u ELSE blk[arr[a].b].cells[k]
    BY <1>2, <1>6, <1>8, <2>1
  <2>3. k > arr[a].len => blk[arr[a].b].cells[k] = NIL
    BY <1>1, <1>3, <2>1 DEF Clean
  <2> QED
    BY <1>3, <1>5, <2>1, <2>2, <2>3
<1>9. [V!Extended(s, i + 1) EXCEPT ![i + 1] = u] = t
  BY <1>1, <1>5, <1>6, <1>7, <1>8, SetCells
<1>10. VecOf(arr', blk') = [VecOf(arr, blk) EXCEPT ![a] = t]
  <2>1. \A c \in Arr : c # a =>
          /\ arr'[c].len = arr[c].len
          /\ \A k \in 1..arr[c].len : blk'[arr'[c].b].cells[k] = blk[arr[c].b].cells[k]
    BY <1>2, <1>3
  <2> QED
    BY <1>1, <1>2, <1>4, <2>1, OneVec
<1>11. AdrOf(arr', addr') = AdrOf(arr, addr)
  BY <1>1, <1>2, SameOwner DEF AdrOf
<1> QED
  BY <1>4, <1>9, <1>10, <1>11, Mapping DEF V!SetElem, V!MayMove

---------------------------------------------------------------------------
(* A store.                                                                *)
LEMMA Stores ==
  ASSUME Shape, NEW u \in Val, ST(u) PROVE V!Store(u)
<1>1. /\ Shape' /\ arr' = arr /\ Len(addr) \in DOMAIN addr
      /\ \A a \in Arr : \A k \in 1..arr[a].alloc :
           blk'[arr[a].b].cells[k]
             = IF arr[a].b = addr[Len(addr)].b /\ k = addr[Len(addr)].i + 1
               THEN u ELSE blk[arr[a].b].cells[k]
  BY STStep
<1>2. PICK p, j : p = addr[Len(addr)] /\ j = p.i + 1
  OBVIOUS
<1>3. p \in [b : Blk, i : Nat] /\ p.i \in Nat /\ j \in Nat
  BY <1>1, <1>2, ShapeFacts
<1>4. \A a \in Arr : arr[a].len \in Nat /\ arr[a].alloc \in Nat /\ arr[a].len <= arr[a].alloc
  BY ShapeFacts
<1>5. PICK v, w, x, y : /\ v = VecOf(arr, blk) /\ w = VecOf(arr', blk')
                        /\ x = AdrOf(arr, addr) /\ y = AdrOf(arr', addr')
  OBVIOUS
<1>6. /\ x # <<>> /\ x[Len(x)] = OwnerIn(arr, p)
      /\ y = SubSeq(x, 1, Len(x) - 1)
  <2>1. PICK r, d : r = arr /\ d = addr
    OBVIOUS
  <2>2. d \in Seq([b : Blk, i : Nat]) /\ d # <<>>
    BY <2>1 DEF Shape, ST
  <2>3. /\ AdrOf(r, d) # <<>>
        /\ AdrOf(r, d)[Len(AdrOf(r, d))] = OwnerIn(r, d[Len(d)])
        /\ AdrOf(r, SubSeq(d, 1, Len(d) - 1))
             = SubSeq(AdrOf(r, d), 1, Len(AdrOf(r, d)) - 1)
    BY <2>2, OneLess
  <2>4. arr' = r /\ addr' = SubSeq(d, 1, Len(d) - 1)
    BY <1>1, <2>1 DEF ST
  <2> QED
    BY <1>2, <1>5, <2>1, <2>3, <2>4
<1>7. \A a, c \in Arr : arr[a].b = arr[c].b => a = c
  BY DEF Shape
<1>8. CASE \A a \in Arr : arr[a].b # p.b
  <2>1. OwnerIn(arr, p) = NOBLK
    BY <1>7, <1>8, Owner
  <2>2. w = v
    <3>1. v = [a \in Arr |-> v[a]] /\ w = [a \in Arr |-> w[a]]
      BY <1>5 DEF VecOf
    <3>2. ASSUME NEW a \in Arr PROVE w[a] = v[a]
      <4>1. /\ arr'[a].len = arr[a].len
            /\ \A k \in 1..arr[a].len : blk'[arr'[a].b].cells[k] = blk[arr[a].b].cells[k]
        BY <1>1, <1>2, <1>4, <1>8
      <4> QED
        BY <1>1, <1>5, <4>1, SameVec
    <3> QED
      BY <3>1, <3>2
  <2> QED
    BY <1>5, <1>6, <2>1, <2>2, Mapping DEF V!Store
<1>9. CASE \E a \in Arr : arr[a].b = p.b
  <2>1. PICK a \in Arr : arr[a].b = p.b
    BY <1>9
  <2>2. PICK e : e = [a |-> a, i |-> p.i]
    OBVIOUS
  <2>3. OwnerIn(arr, p) = e
    BY <1>7, <2>1, <2>2, Owner
  <2>4. e # NOBLK /\ e.a = a /\ e.i + 1 = j
    <3>1. e \in [a : Arr, i : Nat]
      BY <1>3, <2>2
    <3> QED
      BY <1>2, <2>2, <3>1, ArrayAssumption
  <2>5. PICK s, t : s = VecOf(arr, blk)[a] /\ t = VecOf(arr', blk')[a]
    OBVIOUS
  <2>6. /\ s \in Seq(Cell) /\ Len(s) = arr[a].len
        /\ \A k \in 1..arr[a].len : s[k] = blk[arr[a].b].cells[k]
    BY <2>5, VecNow
  <2>7. /\ t \in Seq(Cell) /\ Len(t) = arr[a].len
        /\ \A k \in 1..arr[a].len : t[k] = blk'[arr[a].b].cells[k]
    <3>1. /\ t \in Seq(Cell) /\ Len(t) = arr'[a].len
          /\ \A k \in 1..arr'[a].len : t[k] = blk'[arr'[a].b].cells[k]
      BY <1>1, <2>5, VecNext
    <3> QED
      BY <1>1, <3>1
  <2>8. t = [s EXCEPT ![j] = u]
    <3>1. PICK z : z = [s EXCEPT ![j] = u]
      OBVIOUS
    <3>2. u \in Cell
      BY DEF Cell
    <3>3. /\ z \in Seq(Cell) /\ Len(z) = Len(s)
          /\ \A k \in 1..Len(s) : z[k] = IF k = j THEN u ELSE s[k]
      BY <1>3, <2>6, <3>1, <3>2, PutCell
    <3>4. ASSUME NEW k \in 1..Len(t) PROVE t[k] = z[k]
      <4>1. k \in 1..arr[a].alloc /\ k \in 1..arr[a].len
        BY <1>4, <2>7
      <4>2. blk'[arr[a].b].cells[k] = IF k = j THEN u ELSE blk[arr[a].b].cells[k]
        BY <1>1, <1>2, <2>1, <4>1
      <4> QED
        BY <2>6, <2>7, <3>3, <4>1, <4>2
    <3>5. Len(t) = Len(z)
      BY <2>6, <2>7, <3>3
    <3>6. t = z
      BY <2>7, <3>3, <3>4, <3>5, SeqEqual
    <3> QED
      BY <3>1, <3>6
  <2>9. w = [v EXCEPT ![a] = t]
    <3>1. \A c \in Arr : c # a =>
            /\ arr'[c].len = arr[c].len
            /\ \A k \in 1..arr[c].len : blk'[arr'[c].b].cells[k] = blk[arr[c].b].cells[k]
      <4>1. \A c \in Arr : c # a => arr[c].b # p.b
        BY <1>7, <2>1
      <4> QED
        BY <1>1, <1>2, <1>4, <4>1
    <3> QED
      BY <1>1, <1>5, <2>5, <3>1, OneVec
  <2>10. w = [v EXCEPT ![e.a][e.i + 1] = u]
    <3>1. w = [v EXCEPT ![a] = [v[a] EXCEPT ![j] = u]]
      BY <1>5, <2>5, <2>8, <2>9
    <3> QED
      BY <2>4, <3>1
  <2> QED
    BY <1>5, <1>6, <2>3, <2>4, <2>10, Mapping DEF V!Store
<1> QED
  BY <1>8, <1>9

---------------------------------------------------------------------------
(* An array that moves.                                                    *)
MovedAdr(a) ==
  [k \in DOMAIN addr |-> IF OwnerIn(arr, addr[k]) # NOBLK /\ OwnerIn(arr, addr[k]).a = a
                         THEN NOBLK ELSE OwnerIn(arr, addr[k])]

LEMMA MovedMapped ==
  ASSUME NEW a \in Arr PROVE MovedAdr(a) \in V!MayMove(a)
<1>1. PICK x : x = AdrOf(arr, addr)
  OBVIOUS
<1>2. DOMAIN x = DOMAIN addr /\ \A k \in DOMAIN addr : x[k] = OwnerIn(arr, addr[k])
  BY <1>1 DEF AdrOf
<1>3. MovedAdr(a) = [k \in DOMAIN x |-> IF x[k] # NOBLK /\ x[k].a = a THEN NOBLK ELSE x[k]]
  BY <1>2 DEF MovedAdr
<1>4. V!Moved(a) = [k \in DOMAIN x |-> IF x[k] # NOBLK /\ x[k].a = a THEN NOBLK ELSE x[k]]
  BY <1>1, Mapping DEF V!Moved
<1> QED
  BY <1>3, <1>4 DEF V!MayMove

\* What an address taken before means once array a has moved to block b.
LEMMA MovedOwner ==
  ASSUME TInv, Shape', NEW a \in Arr, NEW b, arr'[a].b = b, b \notin Used(arr, addr),
         \A c \in Arr : c # a => arr'[c] = arr[c],
         NEW k \in DOMAIN addr
  PROVE  OwnerIn(arr', addr[k]) = MovedAdr(a)[k]
<1>1. PICK p, r, o : p = addr[k] /\ r = arr' /\ o = OwnerIn(arr, p)
  OBVIOUS
<1>2. p.b # b /\ p \in [b : Blk, i : Nat]
  BY <1>1, ShapeFacts DEF Used, TInv
<1>3. MovedAdr(a)[k] = IF o # NOBLK /\ o.a = a THEN NOBLK ELSE o
  BY <1>1 DEF MovedAdr
<1>4. \A c, d \in Arr : arr[c].b = arr[d].b => c = d
  BY DEF TInv, Shape
<1>5. \A c, d \in Arr : r[c].b = r[d].b => c = d
  BY <1>1 DEF Shape
<1>6. r[a].b # p.b /\ \A c \in Arr : c # a => r[c].b = arr[c].b
  BY <1>1, <1>2
<1>7. CASE \A c \in Arr : arr[c].b # p.b
  <2>1. o = NOBLK
    BY <1>1, <1>4, <1>7, Owner
  <2>2. \A c \in Arr : r[c].b # p.b
    BY <1>6, <1>7
  <2>3. OwnerIn(r, p) = NOBLK
    BY <1>5, <2>2, Owner
  <2> QED
    BY <1>1, <1>3, <2>1, <2>3
<1>8. ASSUME NEW c \in Arr, arr[c].b = p.b PROVE OwnerIn(r, p) = MovedAdr(a)[k]
  <2>1. PICK e : e = [a |-> c, i |-> p.i]
    OBVIOUS
  <2>2. o = e
    BY <1>1, <1>4, <1>8, <2>1, Owner
  <2>3. e # NOBLK /\ e.a = c
    <3>1. e \in [a : Arr, i : Nat]
      BY <1>2, <2>1
    <3> QED
      BY <2>1, <3>1, ArrayAssumption
  <2>4. CASE c = a
    <3>1. \A d \in Arr : r[d].b # p.b
      BY <1>4, <1>6, <1>8, <2>4
    <3>2. OwnerIn(r, p) = NOBLK
      BY <1>5, <3>1, Owner
    <3> QED
      BY <1>3, <2>2, <2>3, <2>4, <3>2
  <2>5. CASE c # a
    <3>1. r[c].b = p.b
      BY <1>6, <1>8, <2>5
    <3>2. OwnerIn(r, p) = e
      BY <1>5, <2>1, <3>1, Owner
    <3> QED
      BY <1>3, <2>2, <2>3, <2>5, <3>2
  <2> QED
    BY <2>4, <2>5
<1> QED
  BY <1>1, <1>7, <1>8

LEMMA MovedSeq ==
  ASSUME Shape, NEW a \in Arr
  PROVE  MovedAdr(a) \in Seq(Element) /\ Len(MovedAdr(a)) = Len(addr)
<1>1. /\ DOMAIN addr = 1..Len(addr) /\ Len(addr) \in Nat
      /\ \A k \in 1..Len(addr) : addr[k] \in [b : Blk, i : Nat]
  BY ShapeFacts
<1>2. PICK m : m = MovedAdr(a)
  OBVIOUS
<1>3. \A k \in 1..Len(addr) : OwnerIn(arr, addr[k]) \in Element
  BY <1>1, OwnerType
<1>4. m \in [1..Len(addr) -> Element]
  BY <1>1, <1>2, <1>3 DEF MovedAdr, Element
<1>5. m \in Seq(Element) /\ Len(m) = Len(addr)
  BY <1>1, <1>4
<1> QED
  BY <1>2, <1>5

LEMMA Grows ==
  ASSUME VInv, ~StoresBehind, NEW gc \in BOOLEAN, GrowAlloc(gc)
  PROVE  V!VNext
<1>0. PICK a, b : a = call.a /\ b = FreeBlk
  OBVIOUS
<1>1. TInv /\ Shape /\ LengthsAgree /\ Clean
  BY DEF VInv, AInv, TInv
<1>2. /\ call.k = "grow" /\ call.size >= call.need
      /\ b \in Blk /\ b \notin Used(arr, addr)
      /\ arr'[a].len = call.need /\ arr'[a].b = b
      /\ \A c \in Arr : c # a => arr'[c] = arr[c]
  BY <1>0, <1>1, Moving
<1>3. /\ Shape'
      /\ \A k \in 1..call.size : blk'[b].cells[k] = NewCell(call.then, gc, k)
      /\ \A c \in Arr : c # a =>
           \A k \in 1..arr[c].alloc :
             k <= arr[c].len \/ blk[arr[c].b].cells[k] \notin Obj
               => blk'[arr[c].b].cells[k] = blk[arr[c].b].cells[k]
  BY <1>0, <1>1, GrowAllocStep
<1>4. PICK l, n, th : l = arr[a].len /\ n = call.need /\ th = call.then
  OBVIOUS
<1>5. /\ a \in Arr /\ n \in Nat /\ call.size \in Nat /\ l \in Nat /\ l < n
      /\ \A c \in Arr : arr[c].len \in Nat /\ arr[c].alloc \in Nat /\ arr[c].len <= arr[c].alloc
  <2>1. a \in Arr /\ n \in Nat /\ call.size \in Nat /\ l < n
    BY <1>0, <1>1, <1>2, <1>4, CallFacts
  <2>2. \A c \in Arr : arr[c].len \in Nat /\ arr[c].alloc \in Nat /\ arr[c].len <= arr[c].alloc
    BY <1>1, ShapeFacts
  <2> QED
    BY <1>4, <2>1, <2>2
<1>6. PICK v, w, s, t : /\ v = VecOf(arr, blk) /\ w = VecOf(arr', blk')
                        /\ s = v[a] /\ t = w[a]
  OBVIOUS
<1>7. s \in Seq(Cell) /\ Len(s) = l /\ \A k \in 1..l : s[k] = blk[arr[a].b].cells[k]
  BY <1>1, <1>4, <1>5, <1>6, VecNow
<1>8. t \in Seq(Cell) /\ Len(t) = n /\ \A k \in 1..n : t[k] = NewCell(th, gc, k)
  <2>1. /\ t \in Seq(Cell) /\ Len(t) = arr'[a].len
        /\ \A k \in 1..arr'[a].len : t[k] = blk'[arr'[a].b].cells[k]
    BY <1>3, <1>5, <1>6, VecNext
  <2>2. \A k \in 1..n : k \in 1..call.size
    BY <1>2, <1>4, <1>5
  <2> QED
    BY <1>2, <1>3, <1>4, <2>1, <2>2
<1>9. \A k \in 1..n : NewCell(th, gc, k) =
        IF k <= l THEN s[k]
        ELSE IF th.k = "append" THEN blk[arr[th.b].b].cells[k - l]
        ELSE IF th.k = "set" /\ k = th.i + 1 THEN Kept(th.v, gc)
        ELSE NIL
  <2> SUFFICES ASSUME NEW k \in 1..n
               PROVE  NewCell(th, gc, k) =
                        IF k <= l THEN s[k]
                        ELSE IF th.k = "append" THEN blk[arr[th.b].b].cells[k - l]
                        ELSE IF th.k = "set" /\ k = th.i + 1 THEN Kept(th.v, gc)
                        ELSE NIL
    OBVIOUS
  <2>1. k <= call.need
    BY <1>4, <1>5
  <2>2. NewCell(th, gc, k) =
          IF k <= l THEN blk[arr[a].b].cells[k]
          ELSE IF th.k = "append" THEN blk[arr[th.b].b].cells[k - l]
          ELSE IF th.k = "set" /\ k = th.i + 1 THEN Kept(th.v, gc)
          ELSE NIL
    BY <1>0, <1>4, <2>1 DEF NewCell
  <2>3. k <= l => s[k] = blk[arr[a].b].cells[k]
    BY <1>5, <1>7
  <2> QED
    BY <2>2, <2>3
<1>10. w = [v EXCEPT ![a] = t]
  <2>1. \A c \in Arr : c # a =>
          /\ arr'[c].len = arr[c].len
          /\ \A k \in 1..arr[c].len : blk'[arr'[c].b].cells[k] = blk[arr[c].b].cells[k]
    BY <1>2, <1>3, <1>5
  <2> QED
    BY <1>1, <1>3, <1>5, <1>6, <2>1, OneVec
<1>11. PICK q, r, d : q = MovedAdr(a) /\ r = arr' /\ d = addr'
  OBVIOUS
<1>12. /\ q \in Seq(Element) /\ Len(q) = Len(addr) /\ q \in V!MayMove(a)
       /\ \A k \in 1..Len(addr) : OwnerIn(r, addr[k]) = q[k]
  <2>1. DOMAIN addr = 1..Len(addr)
    BY <1>1, ShapeFacts
  <2>2. \A k \in DOMAIN addr : OwnerIn(r, addr[k]) = q[k]
    BY <1>1, <1>2, <1>3, <1>5, <1>11, MovedOwner
  <2> QED
    BY <1>1, <1>5, <1>11, <2>1, <2>2, MovedSeq, MovedMapped
<1>13. addr \in Seq([b : Blk, i : Nat]) /\ Len(addr) \in Nat
  BY <1>1, ShapeFacts DEF Shape
<1>14. addr' = addr => AdrOf(arr', addr') = q
  <2>1. SUFFICES ASSUME addr' = addr PROVE AdrOf(r, addr) = q
    BY <1>11
  <2>2. /\ AdrOf(r, addr) \in Seq(Element) /\ Len(AdrOf(r, addr)) = Len(addr)
        /\ \A k \in 1..Len(addr) : AdrOf(r, addr)[k] = OwnerIn(r, addr[k])
    BY <1>13, AdrFacts
  <2>3. PICK y : y = AdrOf(r, addr)
    OBVIOUS
  <2>4. y \in Seq(Element) /\ Len(y) = Len(q) /\ \A k \in 1..Len(y) : y[k] = q[k]
    BY <1>12, <2>2, <2>3
  <2>5. y = q
    BY <1>12, <2>4, SeqEqual
  <2> QED
    BY <2>3, <2>5
<1>15. CASE th.k = "idxa"
  <2>1. PICK i, p, e : i = th.i /\ p = [b |-> b, i |-> i] /\ e = [a |-> a, i |-> i]
    OBVIOUS
  <2>2. i \in Nat /\ i \in Index(a) /\ n = i + 1
    BY <1>0, <1>1, <1>2, <1>4, <1>15, <2>1, CallFacts
  <2>3. d = Append(addr, p)
    <3>1. call.then.k = "idxa"
      BY <1>4, <1>15
    <3>2. addr' = Append(addr, [b |-> FreeBlk, i |-> call.then.i])
      BY <3>1 DEF GrowAlloc
    <3> QED
      BY <1>0, <1>4, <1>11, <2>1, <3>2
  <2>4. V!Extended(s, i + 1) = t
    <3>1. Len(t) = IF i + 1 > Len(s) THEN i + 1 ELSE Len(s)
      BY <1>5, <1>7, <1>8, <2>2
    <3>2. \A k \in 1..Len(t) : t[k] = IF k <= Len(s) THEN s[k] ELSE NIL
      BY <1>7, <1>8, <1>9, <1>15
    <3>3. i + 1 \in Nat
      BY <2>2
    <3> QED
      BY <1>7, <1>8, <3>1, <3>2, <3>3, ExtendedCells
  <2>5. AdrOf(arr', addr') = Append(q, e)
    <3>1. p \in [b : Blk, i : Nat]
      BY <1>2, <2>1, <2>2
    <3>2. /\ d \in Seq([b : Blk, i : Nat]) /\ Len(d) = Len(addr) + 1
          /\ \A k \in 1..Len(addr) : d[k] = addr[k]
          /\ d[Len(addr) + 1] = p
      BY <1>13, <2>3, <3>1, AppendProperties
    <3>3. OwnerIn(r, p) = e
      <4>1. \A c, f \in Arr : r[c].b = r[f].b => c = f
        BY <1>3, <1>11 DEF Shape
      <4>2. r[a].b = p.b /\ p.i = i
        BY <1>2, <1>11, <2>1
      <4> QED
        BY <1>5, <2>1, <4>1, <4>2, Owner
    <3>4. e \in Element
      BY <1>5, <2>1, <2>2 DEF Element
    <3>5. /\ Len(d) = Len(q) + 1
          /\ \A k \in 1..Len(q) : OwnerIn(r, d[k]) = q[k]
          /\ OwnerIn(r, d[Len(q) + 1]) = e
      BY <1>12, <3>2, <3>3
    <3>6. AdrOf(r, d) = Append(q, e)
      BY <1>12, <3>2, <3>4, <3>5, OneMore
    <3> QED
      BY <1>11, <3>6
  <2>6. V!TakeAddress(a, i)
    <3>1. w = [v EXCEPT ![a] = V!Extended(v[a], i + 1)]
      BY <1>6, <1>10, <2>4
    <3> QED
      BY <1>6, <1>12, <2>1, <2>5, <3>1, Mapping DEF V!TakeAddress
  <2> QED
    BY <1>5, <2>2, <2>6 DEF V!VNext, Index
<1>16. CASE th.k = "append"
  <2>1. PICK e \in Arr : e = th.b /\ n = l + arr[e].len
    BY <1>0, <1>1, <1>2, <1>4, <1>16, CallFacts
  <2>2. addr' = addr
    <3>1. call.then.k # "idxa"
      BY <1>4, <1>16
    <3> QED
      BY <3>1 DEF GrowAlloc
  <2>3. PICK f : f = v[e]
    OBVIOUS
  <2>4. f \in Seq(Cell) /\ Len(f) = arr[e].len /\ \A k \in 1..arr[e].len : f[k] = blk[arr[e].b].cells[k]
    BY <1>1, <1>6, <2>3, VecNow
  <2>5. s \o f = t
    <3>1. Len(t) = Len(s) + Len(f)
      BY <1>7, <1>8, <2>1, <2>4
    <3>2. ASSUME NEW k \in 1..Len(t) PROVE t[k] = IF k <= Len(s) THEN s[k] ELSE f[k - Len(s)]
      <4>1. t[k] = IF k <= l THEN s[k] ELSE blk[arr[e].b].cells[k - l]
        BY <1>8, <1>9, <1>16, <2>1
      <4>2. k > l => k - l \in 1..arr[e].len
        BY <1>5, <1>8, <2>1
      <4>3. k \in Nat
        BY <1>5, <1>8
      <4> QED
        BY <1>5, <1>7, <2>4, <4>1, <4>2, <4>3
    <3> QED
      BY <1>7, <1>8, <2>4, <3>1, <3>2, ConcatCells
  <2>6. V!AppendAll(a, e)
    <3>1. w = [v EXCEPT ![a] = v[a] \o v[e]]
      BY <1>6, <1>10, <2>3, <2>5
    <3> QED
      BY <1>6, <1>12, <1>14, <2>2, <3>1, Mapping DEF V!AppendAll
  <2> QED
    BY <1>5, <2>6 DEF V!VNext
<1>17. CASE th.k = "set"
  <2>1. PICK i, u : i = th.i /\ u = th.v
    OBVIOUS
  <2>2. i \in Nat /\ i \in Index(a) /\ n = i + 1 /\ u \in Val /\ u \notin Obj
    BY <1>0, <1>1, <1>2, <1>4, <1>17, <2>1, CallFacts
  <2>3. Kept(u, gc) = u /\ u \in Cell
    BY <2>2 DEF Kept, Cell
  <2>4. addr' = addr
    <3>1. call.then.k # "idxa"
      BY <1>4, <1>17
    <3> QED
      BY <3>1 DEF GrowAlloc
  <2>5. [V!Extended(s, i + 1) EXCEPT ![i + 1] = u] = t
    <3>1. Len(t) = IF i + 1 > Len(s) THEN i + 1 ELSE Len(s)
      BY <1>5, <1>7, <1>8, <2>2
    <3>2. ASSUME NEW k \in 1..Len(t)
          PROVE  t[k] = IF k = i + 1 THEN u ELSE IF k <= Len(s) THEN s[k] ELSE NIL
      <4>1. t[k] = IF k <= l THEN s[k] ELSE IF k = i + 1 THEN u ELSE NIL
        BY <1>8, <1>9, <1>17, <2>1, <2>3
      <4>2. k = i + 1 => ~(k <= l)
        BY <1>5, <2>2
      <4> QED
        BY <1>7, <4>1, <4>2
    <3> QED
      BY <1>7, <1>8, <2>2, <2>3, <3>1, <3>2, SetCells
  <2>6. V!SetElem(a, i, u)
    <3>1. w = [v EXCEPT ![a] = [V!Extended(v[a], i + 1) EXCEPT ![i + 1] = u]]
      BY <1>6, <1>10, <2>5
    <3> QED
      BY <1>6, <1>12, <1>14, <2>4, <3>1, Mapping DEF V!SetElem
  <2> QED
    BY <1>5, <2>2, <2>6 DEF V!VNext, Index
<1> QED
  BY <1>0, <1>1, <1>2, <1>4, <1>15, <1>16, <1>17, CallFacts

---------------------------------------------------------------------------
(* Every behaviour.                                                        *)
LEMMA InitVector == Init => V!VInit
<1> SUFFICES ASSUME Init PROVE V!VInit
  OBVIOUS
<1>1. Shape /\ Clean
  BY InitInv DEF VInv, AInv, TInv
<1>2. addr = <<>> /\ \A a \in Arr : arr[a].len \in Nat /\ arr[a].len <= MaxLen[a]
  <2>1. addr = <<>> /\ \A a \in Arr : arr[a].len \in Literals[a]
    BY DEF Init
  <2> QED
    BY <2>1, ArrayAssumption
<1>3. PICK v, x : v = VecOf(arr, blk) /\ x = AdrOf(arr, addr)
  OBVIOUS
<1>4. DOMAIN v = Arr
  BY <1>3 DEF VecOf
<1>5. x = <<>>
  <2>1. DOMAIN x = {} /\ x = [k \in {} |-> x[k]]
    BY <1>2, <1>3 DEF AdrOf
  <2>2. <<>> = [k \in {} |-> x[k]]
    OBVIOUS
  <2> QED
    BY <2>1, <2>2
<1>6. ASSUME NEW a \in Arr PROVE v[a] \in V!Vectors(a)
  <2>1. PICK s, n : s = v[a] /\ n = arr[a].len
    OBVIOUS
  <2>2. /\ s \in Seq(Cell) /\ Len(s) = n /\ n \in Nat /\ n <= MaxLen[a] /\ MaxLen[a] \in Nat
        /\ \A k \in 1..n : s[k] = blk[arr[a].b].cells[k]
    BY <1>1, <1>2, <1>3, <2>1, VecNow, ArrayAssumption
  <2>3. ASSUME NEW k \in 1..n PROVE s[k] \in Val
    <3>1. k \in 1..arr[a].alloc /\ k <= arr[a].len
      BY <1>1, <2>1, <2>2, ShapeFacts
    <3>2. blk[arr[a].b].cells[k] \in Val
      BY <1>1, <3>1 DEF Clean
    <3> QED
      BY <2>2, <3>2
  <2>4. s \in [1..n -> Val]
    BY <2>2, <2>3, LenProperties
  <2>5. n \in 0..MaxLen[a]
    BY <2>2
  <2> QED
    BY <2>1, <2>4, <2>5 DEF V!Vectors
<1> QED
  BY <1>3, <1>4, <1>5, <1>6, Mapping DEF V!VInit

LEMMA NextVector ==
  ASSUME ~AppendsInPlace, ~StoresBehind, VInv, [Next]_vars PROVE [V!VNext]_V!vvars
<1>0. TInv /\ Shape /\ AInv /\ LengthsAgree
  BY DEF VInv, AInv, TInv
<1>1. \A a \in Arr : arr[a].len \in Nat /\ arr[a].alloc \in Nat /\ arr[a].len <= arr[a].alloc
  BY <1>0, ShapeFacts
<1>2. CASE Collect
  BY <1>0, <1>2, CollectStep, Stutter
<1>3. ASSUME NEW a \in Arr, NEW i \in Index(a), IDXA_Room(a, i) PROVE V!VNext
  BY <1>3, RoomTakes DEF V!VNext, Index
<1>4. ASSUME NEW u \in Val, ST(u) PROVE V!VNext
  BY <1>0, <1>4, Stores DEF V!VNext
<1>5. ASSUME NEW a \in Arr, NEW e \in Arr, array_append_Room(a, e) PROVE UNCHANGED V!vvars
  <2>1. /\ Shape' /\ addr' = addr
        /\ \A c \in Arr :
             /\ arr'[c].b = arr[c].b /\ arr'[c].len = arr[c].len
             /\ \A k \in 1..arr[c].alloc :
                  blk'[arr[c].b].cells[k] = blk[arr[c].b].cells[k]
    BY <1>0, <1>5, AppendRoom
  <2>2. \A c \in Arr : \A k \in 1..arr[c].len : k \in 1..arr[c].alloc
    BY <1>1
  <2> QED
    BY <1>0, <2>1, <2>2, Stutter
<1>6. ASSUME NEW a \in Arr, NEW i \in Index(a), NEW u \in Val, native_arr_elem_set_Room(a, i, u)
      PROVE  V!VNext
  BY <1>6, RoomSets DEF V!VNext, Index
<1>7. ASSUME UNCHANGED <<arr, blk, addr>> PROVE UNCHANGED V!vvars
  <2>1. Shape'
    BY <1>0, <1>7, CallStep
  <2> QED
    BY <1>0, <1>7, <2>1, Stutter
<1>8. CASE \/ \E a \in Arr : \E i \in Index(a) : IDXA_Grow(a, i)
           \/ \E a, b \in Arr : array_append_Grow(a, b)
           \/ \E a \in Arr : \E i \in Index(a), v \in Val : native_arr_elem_set_Grow(a, i, v)
  <2>1. UNCHANGED <<arr, blk, addr>>
    BY <1>0, <1>8, CallsGrow
  <2> QED
    BY <1>7, <2>1
<1>9. CASE GrowSize
  <2>1. UNCHANGED <<arr, blk, addr>>
    BY <1>0, <1>9, GrowSizeStep
  <2> QED
    BY <1>7, <2>1
<1>10. ASSUME NEW gc \in BOOLEAN, GrowAlloc(gc) PROVE V!VNext
  BY <1>10, Grows
<1>11. CASE UNCHANGED vars
  <2>1. UNCHANGED <<arr, blk, addr>>
    BY <1>11 DEF vars
  <2> QED
    BY <1>7, <2>1
<1> QED
  BY <1>2, <1>3, <1>4, <1>5, <1>6, <1>8, <1>9, <1>10, <1>11 DEF Next

(* Arrays implement Vector, for every number of arrays, every length and   *)
(* growth, and a scavenge at every allocation: reading an element gives    *)
(* what was stored there last, or NIL, as long as the program appends to   *)
(* no array that has room and stores no pointer behind an array's block    *)
(* from a native method.                                                   *)
THEOREM Refinement == ASSUME Unsafe = {} PROVE Spec => ImplementsVector
<1>1. ~AppendsInPlace /\ ~StoresBehind
  BY DEF AppendsInPlace, StoresBehind
<1>2. Init => VInv
  BY InitInv
<1>3. VInv /\ [Next]_vars => VInv'
  BY <1>1, NextVInv
<1>4. Init => V!VInit
  BY InitVector
<1>5. VInv /\ [Next]_vars => [V!VNext]_V!vvars
  BY <1>1, NextVector
<1> QED
  BY <1>2, <1>3, <1>4, <1>5, PTL DEF Spec, ImplementsVector, V!VSpec
=============================================================================
