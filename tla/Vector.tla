------------------------------- MODULE Vector -------------------------------
(***************************************************************************)
(* What a growing array promises: a sequence that is extended with NIL when*)
(* an element behind its end is named, whose elements change only when one *)
(* is stored, and addresses of elements, taken before the value to store is*)
(* computed and used in the reverse order.  An address may die when its    *)
(* array has to move; a store through a dead address is lost.              *)
(***************************************************************************)
EXTENDS Integers, Sequences

CONSTANTS Arr, Val, NIL, DEAD, MaxLen, MaxAddr

VARIABLES
  vec,      \* the elements of each array
  addrs     \* addresses that wait for their store: [a, i] or DEAD

vvars == <<vec, addrs>>

Vectors(a) == UNION {[1..n -> Val] : n \in 0..MaxLen[a]}

Extended(v, n) == [k \in 1..(IF n > Len(v) THEN n ELSE Len(v)) |->
                     IF k <= Len(v) THEN v[k] ELSE NIL]

\* All the addresses of elements of a die.
Moved(a) == [k \in DOMAIN addrs |->
  IF addrs[k] # DEAD /\ addrs[k].a = a THEN DEAD ELSE addrs[k]]

MayMove(a) == {addrs, Moved(a)}

TakeAddress(a, i) ==
  /\ vec' = [vec EXCEPT ![a] = Extended(@, i + 1)]
  /\ \E p \in MayMove(a) : addrs' = Append(p, [a |-> a, i |-> i])

Store(v) ==
  /\ addrs # <<>>
  /\ LET p == addrs[Len(addrs)]
     IN vec' = IF p = DEAD THEN vec ELSE [vec EXCEPT ![p.a][p.i + 1] = v]
  /\ addrs' = SubSeq(addrs, 1, Len(addrs) - 1)

AppendAll(a, b) ==
  /\ vec' = [vec EXCEPT ![a] = @ \o vec[b]]
  /\ addrs' \in MayMove(a)

SetElem(a, i, v) ==
  /\ vec' = [vec EXCEPT ![a] = [Extended(@, i + 1) EXCEPT ![i + 1] = v]]
  /\ addrs' \in MayMove(a)

VInit ==
  /\ DOMAIN vec = Arr
  /\ \A a \in Arr : vec[a] \in Vectors(a)
  /\ addrs = <<>>

VNext ==
  \/ \E a \in Arr : \E i \in 0..(MaxLen[a] - 1) : TakeAddress(a, i)
  \/ \E v \in Val : Store(v)
  \/ \E a, b \in Arr : AppendAll(a, b)
  \/ \E a \in Arr : \E i \in 0..(MaxLen[a] - 1), v \in Val : SetElem(a, i, v)

VSpec == VInit /\ [][VNext]_vvars
=============================================================================
