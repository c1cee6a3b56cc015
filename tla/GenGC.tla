-------------------------------- MODULE GenGC --------------------------------
(***************************************************************************)
(* The generations of the garbage collector (vm/memory.c, gc_type GC_GEN): *)
(* objects that survive are promoted from the new space to an old space    *)
(* that is never collected, and pointers from old to new objects are kept  *)
(* in the remember set, which the scavenge takes as further roots.         *)
(*                                                                         *)
(* Where an object lies is left to CheneyGC.  Here an object is an identity*)
(* and a slot holds the identity it points to.  A scavenge moves every     *)
(* young object it reaches: a slot that pointed to one and has not been    *)
(* updated when the scavenge ends holds STALE from then on.                *)
(***************************************************************************)
EXTENDS Naturals, Sequences

CONSTANTS
  NRoot,    \* number of root slots gc_rootset visits, in this order
  Fld,      \* pointer fields of an object
  Id,       \* identities of objects
  NIL,      \* a pointer into the constant table
  INT,      \* a tagged integer: not a pointer
  STALE,    \* a pointer to where an object has been
  MaxRs,    \* bound on the length of the remember set
  Unsafe    \* what is allowed although it is known to go wrong:
            \*   "native store": a store without a write barrier
            \*   "integer": an integer stored to a remembered slot
            \*   "copied neighbour": a promotion beside a copied object

YOUNG1 == "OBJ_1ST_GEN_YOUNG"
YOUNG2 == "OBJ_2ND_GEN_YOUNG"
OLD == "OBJ_OLD_WHITE"
NONE == "none"

Root == 1..NRoot
Val == Id \cup {NIL, INT, STALE}
Slot == Id \X Fld

ASSUME GenAssumption ==
  /\ NRoot \in Nat /\ MaxRs \in Nat
  /\ NIL \notin Id /\ INT \notin Id \cup {NIL} /\ STALE \notin Id \cup {NIL, INT}

VARIABLES
  gen,       \* h.state of each object, NONE for an identity not in use
  flds,      \* its fields
  root,      \* the root slots
  rs,        \* gc_os_remember_set_g: slots <<object, field>>
  phase,     \* "run", "gc": inside gc_cheney_scavenge, "error": an assertion failed
  next,      \* the root or remembered slot gc_rootset visits next
  copied,    \* objects this scavenge has copied to the to-space
  promoted   \* objects this scavenge has moved to the old space

vars == <<gen, flds, root, rs, phase, next, copied, promoted>>

Young == {i \in Id : gen[i] \in {YOUNG1, YOUNG2}}
Old == {i \in Id : gen[i] = OLD}
Live == Young \cup Old
Uncopied == Young \ copied

At(s) == flds[s[1]][s[2]]
Remembered == {rs[k] : k \in DOMAIN rs}
Nowhere == [f \in Fld |-> NIL]

\* The objects of set D that S reaches without leaving D.
Reach(S, D) ==
  {i \in D : \A C \in SUBSET D :
     (S \cap D \subseteq C /\ \A j \in C, f \in Fld : flds[j][f] \in D => flds[j][f] \in C)
       => i \in C}

---------------------------------------------------------------------------
(* The program.                                                            *)

New(x, i) ==
  /\ phase = "run"
  /\ gen[i] = NONE
  /\ gen' = [gen EXCEPT ![i] = YOUNG1]
  /\ root' = [root EXCEPT ![x] = i]
  /\ UNCHANGED <<flds, rs, phase, next, copied, promoted>>

Assign(x, v) ==
  /\ phase = "run"
  /\ root' = [root EXCEPT ![x] = v]
  /\ UNCHANGED <<gen, flds, rs, phase, next, copied, promoted>>

Load(x, y, f) ==
  /\ phase = "run"
  /\ root[y] \in Id
  /\ root' = [root EXCEPT ![x] = flds[root[y]][f]]
  /\ UNCHANGED <<gen, flds, rs, phase, next, copied, promoted>>

Write(i, f, v) ==
  /\ v = INT /\ <<i, f>> \in Remembered => "integer" \in Unsafe
  /\ flds' = [flds EXCEPT ![i][f] = v]
  /\ UNCHANGED <<gen, root, phase, next, copied, promoted>>

AnyOwner(i, f, v) ==                     \* mutant: young owners are entered too
  IF v \in Young THEN <<<<i, f>>>> \o rs ELSE rs

OnlyFirst(i, f, v) ==                    \* mutant: the second generation forgotten
  IF gen[i] = OLD /\ v \in Id /\ gen[v] = YOUNG1 THEN <<<<i, f>>>> \o rs ELSE rs

\* gc_os_write_barrier: the entry goes to the head of the list.
Barrier(i, f, v) ==
  IF gen[i] = OLD /\ v \in Young THEN <<<<i, f>>>> \o rs ELSE rs

ST(x, f, v) ==
  /\ phase = "run" /\ root[x] \in Id
  /\ Write(root[x], f, v)
  /\ rs' = Barrier(root[x], f, v)
  /\ Len(rs') <= MaxRs

\* native_new_exception, native_arr_elem_set, array_append, arr_realloc_elems.
NativeStore(x, f, v) ==
  /\ phase = "run" /\ root[x] \in Id
  /\ root[x] \in Old /\ v \in Young => "native store" \in Unsafe
  /\ Write(root[x], f, v)
  /\ UNCHANGED rs

---------------------------------------------------------------------------
(* The scavenge.                                                           *)

\* gc_os_remove_dups_in_rs keeps the first entry of each slot, in its place:
\* p lists the entries that stay.
RemoveDups ==
  \E n \in 0..Len(rs) : \E p \in [1..n -> DOMAIN rs] :
    /\ \A j, k \in 1..n : j < k => p[j] < p[k]
    /\ \A k \in 1..n : \A j \in 1..(p[k] - 1) : rs[j] # rs[p[k]]
    /\ {rs[p[k]] : k \in 1..n} = Remembered
    /\ rs' = [k \in 1..n |-> rs[p[k]]]

StartScavenge ==
  /\ phase = "run"
  /\ phase' = "gc"
  /\ RemoveDups
  /\ next' = 1
  /\ UNCHANGED <<gen, flds, root, copied, promoted>>

\* gc_os_rec_cpy_neighbors: an object goes to the old space with all the
\* objects it reaches that have not been copied yet.
Family(v) == Reach({v}, Uncopied)
BesideCopied(v) == \E i \in Family(v), f \in Fld : flds[i][f] \in copied

Kept(v) == UNCHANGED <<gen, copied, promoted>>

NotAged(v) ==                            \* mutant: a copy stays as young as it was
  /\ v \in Uncopied /\ gen[v] = YOUNG1
  /\ copied' = copied \cup {v}
  /\ UNCHANGED <<gen, promoted>>

Aged(v) ==
  /\ v \in Uncopied /\ gen[v] = YOUNG1
  /\ gen' = [gen EXCEPT ![v] = YOUNG2]
  /\ copied' = copied \cup {v}
  /\ UNCHANGED promoted

PromotedAlone(v) ==                      \* mutant: neighbours stay behind
  /\ v \in Uncopied /\ gen[v] = YOUNG2
  /\ gen' = [gen EXCEPT ![v] = OLD]
  /\ promoted' = promoted \cup {v}
  /\ UNCHANGED copied

Promoted(v) ==
  /\ v \in Uncopied /\ gen[v] = YOUNG2
  /\ BesideCopied(v) => "copied neighbour" \in Unsafe
  /\ gen' = [i \in Id |-> IF i \in Family(v) THEN OLD ELSE gen[i]]
  /\ promoted' = promoted \cup Family(v)
  /\ UNCHANGED copied

\* gc_cheney_copy_root_obj on a slot that holds v.
CopyRootObj(v) == \/ v \notin Uncopied /\ Kept(v)
                  \/ Aged(v)
                  \/ Promoted(v)

VisitRoot ==
  /\ phase = "gc" /\ next \in Root
  /\ CopyRootObj(root[next])
  /\ next' = next + 1
  /\ UNCHANGED <<flds, root, rs, phase>>

Entry == rs[next - NRoot]

\* assert(IS_PTR(*(rsptr->new_obj)))
VisitRemembered ==
  /\ phase = "gc" /\ next \notin Root /\ next <= NRoot + Len(rs)
  /\ IF At(Entry) = INT
     THEN phase' = "error" /\ Kept(INT)
     ELSE CopyRootObj(At(Entry)) /\ UNCHANGED phase
  /\ next' = next + 1
  /\ UNCHANGED <<flds, root, rs>>

\* The to-space is scanned: what the copies reach is copied too, without
\* growing older.  Every root, every remembered slot, every field of a copy
\* and of a promoted object has been updated.
Survivors == Reach(copied, Young)

Moved == Survivors \cup promoted
Updated(i, f) == i \in Moved \/ <<i, f>> \in Remembered

EndScavenge ==
  /\ phase = "gc" /\ next = NRoot + Len(rs) + 1
  /\ gen' = [i \in Id |-> IF i \in Young \ Survivors THEN NONE ELSE gen[i]]
  /\ flds' = [i \in Id |->
       IF i \in Young \ Survivors THEN Nowhere
       ELSE [f \in Fld |-> IF flds[i][f] \in Young \cup promoted /\ ~Updated(i, f)
                           THEN STALE ELSE flds[i][f]]]
  /\ copied' = {} /\ promoted' = {}
  /\ phase' = "run"
  /\ next' = 1
  /\ UNCHANGED <<root, rs>>

---------------------------------------------------------------------------
Slots == {root[x] : x \in Root} \cup {NIL, INT}

Init ==
  /\ gen = [i \in Id |-> NONE]
  /\ flds = [i \in Id |-> Nowhere]
  /\ root = [x \in Root |-> NIL]
  /\ rs = <<>>
  /\ phase = "run" /\ next = 1
  /\ copied = {} /\ promoted = {}

Next ==
  \/ \E x \in Root, i \in Id : New(x, i)
  \/ \E x \in Root, v \in Slots : Assign(x, v)
  \/ \E x, y \in Root, f \in Fld : Load(x, y, f)
  \/ \E x \in Root, f \in Fld, v \in Slots : ST(x, f, v) \/ NativeStore(x, f, v)
  \/ StartScavenge \/ VisitRoot \/ VisitRemembered \/ EndScavenge

Spec == Init /\ [][Next]_vars

---------------------------------------------------------------------------
(* Properties.                                                             *)

TypeOK ==
  /\ gen \in [Id -> {YOUNG1, YOUNG2, OLD, NONE}]
  /\ flds \in [Id -> [Fld -> Val]]
  /\ root \in [Root -> Val]
  /\ rs \in Seq(Slot) /\ \A s \in Remembered : gen[s[1]] = OLD
  /\ phase \in {"run", "gc", "error"}
  /\ next \in 1..(NRoot + Len(rs) + 1)
  /\ copied \subseteq Young /\ promoted \subseteq Old

\* memory.c:1040: "pointers in the old space that points to the new space are
\* stored in the remember set".  No barrier, promotion or removal of
\* duplicates leaves out a slot of an old object that points to a young one.
OldToNew ==
  phase = "run" =>
    \A i \in Old, f \in Fld : flds[i][f] \in Young => <<i, f>> \in Remembered

\* memory.c:1046 asserts IS_PTR of every slot in the remember set.
NoFailedAssertion == phase # "error"

\* README: "if an obj survives in new space for two Cheney's copying, the
\* object is moved into the old space": after a scavenge no root names an
\* object that is still in its first generation.
RootsAge ==
  [][phase = "gc" /\ phase' = "run"
       => \A x \in Root : root[x] \in Id => gen'[root[x]] \in {YOUNG2, OLD}]_vars

(* The program relies on the same heap as without generations: no slot it  *)
(* can reach loses its object, and no object it can reach is dropped.      *)
Ptr(v) == IF v = INT THEN NIL ELSE v

H == INSTANCE Heap WITH
       Kind <- {"object"},
       hroot <- [x \in Root |-> Ptr(root[x])],
       graph <- {[id |-> i, t |-> "object", flds |-> [f \in Fld |-> Ptr(flds[i][f])]] : i \in Live}

ImplementsHeap == H!HeapSpec
=============================================================================
