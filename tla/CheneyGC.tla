----------------------------- MODULE CheneyGC -----------------------------
(***************************************************************************)
(* The new space of the .KEK virtual machine (vm/memory.c, gc_type GC_NEW):*)
(* bump allocation in one of two segments and Cheney's copying scavenge    *)
(* when an allocation does not fit.                                        *)
(*                                                                         *)
(* Memory is an array of cells, two segments of SegSize cells.  An object  *)
(* is a record kept at the cell it starts at; the cells its size covers    *)
(* stay FREE.  A reference is the address of such a cell.  Everything that *)
(* is not a heap pointer (tagged integers and characters, the NIL          *)
(* singleton, objects of the constant table, NULL) is NIL: the collector   *)
(* passes all of them over.  The scavenge is modelled one root, one object *)
(* and one field at a time, the order of the loops in the code.            *)
(***************************************************************************)
EXTENDS Naturals

CONSTANTS
  NRoot,      \* number of root slots gc_rootset visits, in this order
  Kind,       \* kinds of objects: NFlds[k] pointer fields,
  NFlds,      \*   Extent[k] cells used by its C structure,
  Extent,     \*   AllocSize[k] cells asked for by alloc_*,
  AllocSize,  \*   CopySize[k] = ALIGNED(vm_obj_size(obj)) cells copied
  CopySize,
  MaxFld,     \* most fields of any kind
  SegSize,    \* NEW_SEGMENT_SIZE
  MaxId,      \* bound on the number of allocations of a run (last_id_g)
  NIL, FREE

KEK_COPIED == "KEK_COPIED"

ASSUME SizesAssumption ==
  /\ NRoot \in Nat /\ SegSize \in Nat /\ MaxFld \in Nat /\ MaxId \in Nat
  /\ NFlds \in [Kind -> 0..MaxFld]
  /\ Extent \in [Kind -> Nat \ {0}]
  /\ AllocSize \in [Kind -> Nat]
  /\ CopySize \in [Kind -> Nat]

\* The code asks for and copies at least the structure, often more: an
\* integer is copied as a whole kek_obj_t, and alloc_udo takes the size of a
\* kek_obj_t for every variable after the first.
ASSUME PaddingAssumption ==
  \A k \in Kind : Extent[k] <= AllocSize[k] /\ Extent[k] <= CopySize[k]

Root == 1..NRoot
Fld == 1..MaxFld
Id == 1..MaxId
Cell == 0..(2 * SegSize - 1)
Ref == Cell \cup {NIL}

VARIABLES
  heap,    \* the cells of both segments
  to,      \* segments_to_space_g: first cell of the to-space
  free,    \* to_space_free_g: next cell to allocate in the to-space
  scan,    \* scan_ptr_g: next copied object to scan
  obj,     \* the object gc_cheney_copy_neighbor is scanning, or NIL
  fld,     \* its field to be visited next
  root,    \* the root slots: statics, rootset list, constant arrays, stack
  next,    \* the root slot gc_rootset visits next
  phase,   \* "run": the program runs; "gc", "retry": inside gc_cheney_malloc
  req,     \* the allocation that gc_cheney_malloc is serving
  lastId   \* last_id_g

vars == <<heap, to, free, scan, obj, fld, root, next, phase, req, lastId>>

\* fwd is h.cls of a KEK_COPIED object, the address of its copy.
Obj == [t : Kind \cup {KEK_COPIED}, id : Id, fwd : Ref, flds : [Fld -> Ref]]

ASSUME ValuesAssumption ==
  /\ KEK_COPIED \notin Kind
  /\ NIL \notin Nat
  /\ FREE \notin Obj

from == SegSize - to
InSegment(a, s) == a \in s..(s + SegSize - 1)
IsObj(a) == a \in Cell /\ heap[a] # FREE
IsCopied(a) == heap[a].t = KEK_COPIED

ToObjs == {a \in Cell : InSegment(a, to) /\ IsObj(a)}
FromObjs == {a \in Cell : InSegment(a, from) /\ IsObj(a)}
Uncopied == {a \in FromObjs : ~IsCopied(a)}

NoReq == [slot |-> 0, kind |-> NIL]
Phases == {"run", "gc", "retry", "error"}

---------------------------------------------------------------------------
(* Allocation.                                                             *)

CanMallocOne(size) == free < to + SegSize             \* mutant: size ignored
CanMalloc(size) == free + size < to + SegSize

NewObj(k) == [t |-> k, id |-> lastId + 1, fwd |-> NIL,
              flds |-> [f \in Fld |-> NIL]]

BumpOne(x, k) ==                                      \* mutant: size ignored
  /\ heap' = [heap EXCEPT ![free] = NewObj(k)]
  /\ free' = free + 1
  /\ root' = [root EXCEPT ![x] = free]
  /\ lastId' = lastId + 1

Bump(x, k) ==
  /\ heap' = [heap EXCEPT ![free] = NewObj(k)]
  /\ free' = free + AllocSize[k]
  /\ root' = [root EXCEPT ![x] = free]
  /\ lastId' = lastId + 1

Malloc(x, k) ==
  /\ phase = "run"
  /\ lastId < MaxId
  /\ CanMalloc(AllocSize[k])
  /\ Bump(x, k)
  /\ UNCHANGED <<to, scan, obj, fld, next, phase, req>>

(* gc_cheney_malloc finds no room and calls gc_cheney_scavenge, which      *)
(* swaps the segments and starts to fill the new to-space from its         *)
(* beginning.                                                              *)
StartScavenge(x, k) ==
  /\ phase = "run"
  /\ lastId < MaxId
  /\ ~CanMalloc(AllocSize[k])
  /\ to' = from
  /\ free' = from
  /\ scan' = from
  /\ next' = 1
  /\ phase' = "gc"
  /\ req' = [slot |-> x, kind |-> k]
  /\ UNCHANGED <<heap, obj, fld, root, lastId>>

(* After the scavenge the request is tried once more; failing that is      *)
(* fatal: "No space in NEW_SPACE".                                         *)
Retry ==
  /\ phase = "retry"
  /\ IF CanMalloc(AllocSize[req.kind])
     THEN Bump(req.slot, req.kind) /\ phase' = "run"
     ELSE phase' = "error" /\ UNCHANGED <<heap, free, root, lastId>>
  /\ req' = NoReq
  /\ UNCHANGED <<to, scan, obj, fld, next>>

---------------------------------------------------------------------------
(* The scavenge.                                                           *)

Fits(a) == ~IsCopied(a) => CanMalloc(CopySize[heap[a].t])

(* The heap after the object at a has been copied, unless it already was:  *)
(* memcpy to the free pointer, then type and class of the original are     *)
(* overwritten by the mark and the forwarding address.                     *)
EvacuatedUnmarked(a) ==                               \* mutant: no mark
  IF IsCopied(a) THEN heap ELSE [heap EXCEPT ![free] = heap[a]]

PutField(o, f, v) ==
  [t |-> o.t, id |-> o.id, fwd |-> o.fwd, flds |-> [o.flds EXCEPT ![f] = v]]

Mark(o) == [t |-> KEK_COPIED, id |-> o.id, fwd |-> free, flds |-> o.flds]

Evacuated(a) ==
  IF IsCopied(a) THEN heap
  ELSE [heap EXCEPT ![free] = heap[a], ![a] = Mark(heap[a])]

FreeAfter(a) == IF IsCopied(a) THEN free ELSE free + CopySize[heap[a].t]
Forward(a) == IF IsCopied(a) THEN heap[a].fwd ELSE free

CopyRootTwice ==                                      \* mutant: mark not looked at
  LET a == root[next]
      o == IF IsCopied(a) THEN heap[heap[a].fwd] ELSE heap[a]
  IN /\ phase = "gc" /\ next \in Root
     /\ a # NIL /\ CanMalloc(CopySize[o.t])
     /\ heap' = [heap EXCEPT ![free] = o, ![a] = Mark(o)]
     /\ free' = free + CopySize[o.t]
     /\ root' = [root EXCEPT ![next] = Forward(a)]
     /\ next' = next + 1
     /\ UNCHANGED <<to, scan, obj, fld, phase, req, lastId>>

(* gc_cheney_copy_root_obj on the slot gc_rootset has come to.  A slot that*)
(* already points into the to-space is a fatal error in the code.          *)
CopyRoot ==
  /\ phase = "gc" /\ next \in Root
  /\ root[next] # NIL /\ Fits(root[next])
  /\ heap' = Evacuated(root[next])
  /\ free' = FreeAfter(root[next])
  /\ root' = [root EXCEPT ![next] = Forward(root[next])]
  /\ phase' = IF InSegment(root[next], to) THEN "error" ELSE phase
  /\ next' = next + 1
  /\ UNCHANGED <<to, scan, obj, fld, req, lastId>>

SkipRoot ==
  /\ phase = "gc" /\ next \in Root
  /\ root[next] = NIL
  /\ next' = next + 1
  /\ UNCHANGED <<heap, to, free, scan, obj, fld, root, phase, req, lastId>>

Scanning == obj # NIL /\ fld <= NFlds[heap[obj].t]

ScanObjStuck ==                                       \* mutant: leaves not passed
  /\ phase = "gc" /\ next \notin Root
  /\ ~Scanning /\ scan < free
  /\ obj' = scan
  /\ fld' = 1
  /\ scan' = IF NFlds[heap[scan].t] = 0 THEN scan ELSE scan + CopySize[heap[scan].t]
  /\ UNCHANGED <<heap, to, free, root, next, phase, req, lastId>>

(* The loop of gc_cheney_scavenge takes the next grey object.              *)
ScanObj ==
  /\ phase = "gc" /\ next \notin Root
  /\ ~Scanning /\ scan < free
  /\ obj' = scan
  /\ fld' = 1
  /\ scan' = scan + CopySize[heap[scan].t]
  /\ UNCHANGED <<heap, to, free, root, next, phase, req, lastId>>

(* gc_cheney_copy_neighbor visits one field of it.                         *)
CopyField ==
  /\ phase = "gc" /\ next \notin Root
  /\ Scanning
  /\ LET a == heap[obj].flds[fld] IN
       /\ a # NIL /\ Fits(a)
       /\ heap' = [Evacuated(a) EXCEPT ![obj] = PutField(@, fld, Forward(a))]
       /\ free' = FreeAfter(a)
  /\ fld' = fld + 1
  /\ UNCHANGED <<to, scan, obj, root, next, phase, req, lastId>>

SkipFieldAlways ==                                    \* mutant: pointer skipped
  /\ phase = "gc" /\ next \notin Root
  /\ Scanning
  /\ fld' = fld + 1
  /\ UNCHANGED <<heap, to, free, scan, obj, root, next, phase, req, lastId>>

SkipField ==
  /\ phase = "gc" /\ next \notin Root
  /\ Scanning /\ heap[obj].flds[fld] = NIL
  /\ fld' = fld + 1
  /\ UNCHANGED <<heap, to, free, scan, obj, root, next, phase, req, lastId>>

(* The object to be copied next.                                           *)
Target == IF next \in Root THEN root[next]
          ELSE IF Scanning THEN heap[obj].flds[fld] ELSE NIL

(* "To space run out of space": the copies are padded, so live objects that*)
(* fitted one segment may not fit the other.                               *)
ToSpaceFull ==
  /\ phase = "gc"
  /\ Target # NIL /\ ~Fits(Target)
  /\ phase' = "error"
  /\ UNCHANGED <<heap, to, free, scan, obj, fld, root, next, req, lastId>>

(* Nothing is grey any more.  What is left in the from-space is garbage;   *)
(* the model clears it, so that a pointer left into it dangles.            *)
EndScavenge ==
  /\ phase = "gc" /\ next \notin Root
  /\ ~Scanning /\ ~(scan < free)
  /\ heap' = [a \in Cell |-> IF InSegment(a, from) THEN FREE ELSE heap[a]]
  /\ obj' = NIL
  /\ phase' = "retry"
  /\ UNCHANGED <<to, free, scan, fld, root, next, req, lastId>>

Scavenge == \/ CopyRoot \/ SkipRoot \/ ScanObj \/ CopyField \/ SkipField
            \/ ToSpaceFull \/ EndScavenge

---------------------------------------------------------------------------
(* The program: what the instructions of vm_execute_bc do to root slots    *)
(* and fields.                                                             *)

Assign(x, v) ==
  /\ phase = "run"
  /\ root' = [root EXCEPT ![x] = v]
  /\ UNCHANGED <<heap, to, free, scan, obj, fld, next, phase, req, lastId>>

Load(x, y, f) ==
  /\ phase = "run"
  /\ root[y] # NIL /\ f <= NFlds[heap[root[y]].t]
  /\ root' = [root EXCEPT ![x] = heap[root[y]].flds[f]]
  /\ UNCHANGED <<heap, to, free, scan, obj, fld, next, phase, req, lastId>>

Store(x, f, v) ==
  /\ phase = "run"
  /\ root[x] # NIL /\ f <= NFlds[heap[root[x]].t]
  /\ heap' = [heap EXCEPT ![root[x]] = PutField(@, f, v)]
  /\ UNCHANGED <<to, free, scan, obj, fld, root, next, phase, req, lastId>>

Slots == {root[x] : x \in Root} \cup {NIL}

Program == \E x \in Root :
  \/ \E k \in Kind : Malloc(x, k) \/ StartScavenge(x, k)
  \/ \E v \in Slots : Assign(x, v)
  \/ \E y \in Root, f \in Fld : Load(x, y, f)
  \/ \E f \in Fld, v \in Slots : Store(x, f, v)

Init ==
  /\ heap = [a \in Cell |-> FREE]
  /\ to = 0 /\ free = 0 /\ scan = 0
  /\ obj = NIL /\ fld = 1
  /\ root = [x \in Root |-> NIL]
  /\ next = 1
  /\ phase = "run" /\ req = NoReq
  /\ lastId = 0

Next == Program \/ Retry \/ Scavenge

(* The collector runs to completion inside the allocation that called it.  *)
Spec == Init /\ [][Next]_vars /\ WF_vars(Retry \/ Scavenge)

---------------------------------------------------------------------------
(* Properties.                                                             *)

TypeOK ==
  /\ heap \in [Cell -> Obj \cup {FREE}]
  /\ to \in {0, SegSize}
  /\ free \in to..(to + SegSize)
  /\ scan \in to..(to + SegSize)
  /\ obj \in Ref /\ fld \in 1..(MaxFld + 1)
  /\ root \in [Root -> Ref]
  /\ next \in 1..(NRoot + 1)
  /\ phase \in Phases
  /\ req = NoReq \/ req \in [slot : Root, kind : Kind]
  /\ lastId \in 0..MaxId

\* A field of a to-space object that the scavenge has still to visit.
Grey(a, f) == phase = "gc" /\ (a >= scan \/ (a = obj /\ f >= fld))

(* Every root slot and every field holds NIL or the address of an object:  *)
(* in the from-space for the slots gc_rootset has not reached and for the  *)
(* fields that are still grey, in the to-space for all others.  Outside a  *)
(* scavenge nothing is grey, so no pointer is left behind in the from-space*)
(* (memory.c: the commented-out gc_cheney_scavenge_debug_check).           *)
RootsPoint == \A x \in Root :
  root[x] \in {NIL} \cup (IF phase = "gc" /\ x >= next THEN FromObjs ELSE ToObjs)

FieldsPoint == \A a \in ToObjs, f \in Fld :
  heap[a].flds[f] \in {NIL} \cup (IF Grey(a, f) THEN FromObjs ELSE ToObjs)

FromFieldsPoint == \A a \in Uncopied, f \in Fld :
  heap[a].flds[f] \in {NIL} \cup FromObjs

(* The forwarding address of a copied object is the address of its copy.   *)
Forwarded == \A a \in FromObjs \ Uncopied :
  heap[a].fwd \in ToObjs /\ heap[heap[a].fwd].id = heap[a].id

TriColour ==
  phase # "error" => RootsPoint /\ FieldsPoint /\ FromFieldsPoint /\ Forwarded

(* Two objects of the to-space never share a cell, and none reaches past   *)
(* the free pointer: neither the bump allocation nor the copying with its  *)
(* padded sizes may overwrite an object.                                   *)
NoOverlap == \A a \in ToObjs :
  /\ ~IsCopied(a)
  /\ a + Extent[heap[a].t] <= free
  /\ \A b \in ToObjs : a < b => a + Extent[heap[a].t] <= b

(* A scavenge keeps no garbage: a set of objects that holds what the roots *)
(* name and is closed under fields is the whole to-space.                  *)
ClosedSet(S) ==
  /\ \A x \in Root : root[x] \in S \cup {NIL}
  /\ \A a \in S, f \in Fld : heap[a].flds[f] \in S \cup {NIL}

KeepsNoGarbage ==
  phase = "retry" => \A S \in SUBSET ToObjs : ClosedSet(S) => S = ToObjs

(* The steps that a scavenge has still to make at most: the root slots that*)
(* gc_rootset has not visited, and for each cell that the scan pointer has *)
(* still to pass an object with all its fields.                            *)
StepsLeft ==
  (NRoot + 1 - next) + (to + SegSize - scan) * (MaxFld + 1)
  + (IF obj = NIL THEN 0 ELSE MaxFld + 1 - fld)

(* Each step of a scavenge leaves fewer of them, although copying adds     *)
(* objects to be scanned: memory.c:433, scan_ptr_g chases to_space_free_g. *)
ScavengeAdvances ==
  [][phase = "gc" /\ phase' = "gc" => StepsLeft' \in 0..(StepsLeft - 1)]_vars

(* A request for memory is always answered: the scavenge comes to an end.  *)
RequestAnswered == (phase = "gc") ~> (phase \in {"run", "error"})

---------------------------------------------------------------------------
(* The heap as the program sees it: an object is known by h.id, which both *)
(* the copy and the forwarded original keep.                               *)

IdOf(v) == IF v = NIL THEN NIL ELSE heap[v].id

AbsObj(a) == [id |-> heap[a].id, t |-> heap[a].t,
              flds |-> [f \in Fld |-> IdOf(heap[a].flds[f])]]

H == INSTANCE Heap WITH
       hroot <- [x \in Root |-> IdOf(root[x])],
       graph <- {AbsObj(a) : a \in ToObjs \cup Uncopied}

(* Every step of the virtual machine and of its collector is a step of the *)
(* heap the program relies on, or none at all: a scavenge loses, doubles   *)
(* or changes no object the program can reach.                             *)
ImplementsHeap == H!HeapSpec
=============================================================================
