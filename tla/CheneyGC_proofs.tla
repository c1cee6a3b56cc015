-------------------------- MODULE CheneyGC_proofs --------------------------
(***************************************************************************)
(* Proofs about CheneyGC, for every number of root slots, every segment    *)
(* size and every table of object kinds.                                   *)
(***************************************************************************)
EXTENDS CheneyGC, TLAPS

(* The inductive invariant.  Besides the tri-colour property and the       *)
(* disjointness of objects it says that                                    *)
(*   - outside a scavenge the from-space is empty and nothing is scanned,  *)
(*   - the to-space can be walked from the scan pointer: an object is      *)
(*     followed by the free pointer or by another object,                  *)
(*   - identities are not shared and have been handed out.                 *)
Quiet == phase \in {"run", "retry"} => FromObjs = {} /\ obj = NIL

Requested ==
  phase \in {"gc", "retry"} =>
    req \in [slot : Root, kind : Kind] /\ lastId < MaxId

Walk ==
  phase = "gc" =>
    /\ scan \in ToObjs \cup {free}
    /\ \A a \in ToObjs : LET b == a + CopySize[heap[a].t] IN
         /\ b <= free
         /\ a >= scan => b \in ToObjs \cup {free}
         /\ \A c \in ToObjs : a < c => b <= c
    /\ obj \in ToObjs \cup {NIL}
    /\ obj # NIL => obj < scan
    /\ next \in Root => obj = NIL /\ scan = to

Identities ==
  /\ \A a \in ToObjs \cup FromObjs : heap[a].id <= lastId
  /\ \A a, b \in ToObjs \cup Uncopied : heap[a].id = heap[b].id => a = b

Unused == \A a \in ToObjs \cup Uncopied, f \in Fld :
  f > NFlds[heap[a].t] => heap[a].flds[f] = NIL

Sound ==
  /\ RootsPoint /\ FieldsPoint /\ FromFieldsPoint /\ Forwarded
  /\ NoOverlap
  /\ Quiet /\ Requested /\ Walk /\ Identities /\ Unused

IInv == TypeOK /\ NoOverlap /\ (phase # "error" => Sound)

---------------------------------------------------------------------------
(* The two segments share no cell and are all of the memory.               *)
LEMMA Segments ==
  ASSUME to \in {0, SegSize}, NEW a \in Cell
  PROVE  /\ from \in {0, SegSize}
         /\ InSegment(a, to) <=> ~InSegment(a, from)
         /\ SegSize - from = to
  BY SizesAssumption DEF from, InSegment, Cell

(* The invariant holds initially.                                          *)
LEMMA InitIInv == Init => IInv
<1> SUFFICES ASSUME Init PROVE IInv
  OBVIOUS
<1> USE DEF Init
<1>1. TypeOK
  BY SizesAssumption, ValuesAssumption
  DEF TypeOK, Ref, Cell, Phases, NoReq, Root, Id
<1>2. ToObjs = {} /\ FromObjs = {} /\ Uncopied = {}
  BY DEF ToObjs, FromObjs, Uncopied, IsObj
<1>3. Sound
  BY <1>2 DEF Sound, RootsPoint, FieldsPoint, FromFieldsPoint, Forwarded,
     NoOverlap, Quiet, Requested, Walk, Identities, Unused
<1> QED
  BY <1>1, <1>3 DEF IInv, Sound

(* Copying an object that has not been copied yet: what the heap looks like*)
(* afterwards.                                                             *)
LEMMA CopyFresh ==
  ASSUME IInv, phase = "gc", NEW a \in Uncopied, Fits(a)
  PROVE  LET E == Evacuated(a) IN
         /\ free \in Cell /\ free # a /\ heap[free] = FREE
         /\ InSegment(free, to)
         /\ heap[a].t \in Kind
         /\ E \in [Cell -> Obj \cup {FREE}]
         /\ E[free] = heap[a]
         /\ E[a] = Mark(heap[a])
         /\ \A c \in Cell \ {a, free} : E[c] = heap[c]
<1>1. /\ a \in Cell /\ a \in FromObjs /\ heap[a] \in Obj /\ ~IsCopied(a)
      /\ heap[a].t \in Kind
      /\ TypeOK /\ Sound
  BY DEF Uncopied, FromObjs, IsObj, IInv, TypeOK, Obj, IsCopied
<1>2. free \in Cell /\ InSegment(free, to)
  BY <1>1, SizesAssumption DEF Fits, CanMalloc, TypeOK, Cell, InSegment
<1>3. heap[free] = FREE
  BY <1>1, <1>2, SizesAssumption DEF Sound, NoOverlap, ToObjs, IsObj, TypeOK,
     IsCopied, Obj
<1>4. free # a
  BY <1>1, <1>3 DEF FromObjs, IsObj
<1>5. Evacuated(a) = [heap EXCEPT ![free] = heap[a], ![a] = Mark(heap[a])]
  BY <1>1 DEF Evacuated
<1>6. Mark(heap[a]) \in Obj
  BY <1>1, <1>2 DEF Obj, Ref, Mark
<1> QED
  BY <1>1, <1>2, <1>3, <1>4, <1>5, <1>6 DEF TypeOK

(* ... and which objects there are then: one more in the to-space, one less*)
(* to be copied.                                                           *)
LEMMA CopySets ==
  ASSUME TypeOK, to' = to, heap' \in [Cell -> Obj \cup {FREE}],
         NEW a \in Uncopied, NEW n \in Cell, heap[n] = FREE, InSegment(n, to),
         heap'[n] # FREE, heap'[a] # FREE, heap'[a].t = KEK_COPIED,
         \A c \in Cell \ {a, n} : (heap'[c] = FREE <=> heap[c] = FREE),
         \A c \in FromObjs \ {a} : heap'[c].t = heap[c].t
  PROVE  /\ ToObjs' = ToObjs \cup {n}
         /\ FromObjs' = FromObjs
         /\ Uncopied' = Uncopied \ {a}
<1>1. a \in Cell /\ a \in FromObjs /\ a # n /\ heap[a] # FREE
  BY DEF Uncopied, FromObjs, IsObj
<1>2. from' = from
  BY DEF from
<1>3. \A c \in Cell : (heap'[c] # FREE) <=> (heap[c] # FREE \/ c = n)
  BY <1>1
<1>4. ToObjs' = ToObjs \cup {n}
  BY <1>3 DEF ToObjs, IsObj
<1>5. ~InSegment(n, from)
  BY Segments DEF TypeOK
<1>6. FromObjs' = FromObjs
  BY <1>2, <1>3, <1>5 DEF FromObjs, IsObj
<1>7. Uncopied' = Uncopied \ {a}
  BY <1>1, <1>6 DEF Uncopied, IsCopied
<1> QED
  BY <1>4, <1>6, <1>7

(* An object that has been copied is left alone and its forwarding address *)
(* used.                                                                   *)
LEMMA CopyAgain ==
  ASSUME IInv, phase = "gc", NEW a \in FromObjs, IsCopied(a)
  PROVE  /\ Evacuated(a) = heap /\ FreeAfter(a) = free
         /\ Forward(a) \in ToObjs /\ heap[Forward(a)].id = heap[a].id
  BY DEF Evacuated, FreeAfter, Forward, IInv, Sound, Forwarded, Uncopied

(* The program does not run while the collector does, so a step of the     *)
(* collector starts in the to-space as the last step left it.              *)
LEMMA CopyRootIInv == IInv /\ CopyRoot => IInv'
<1> SUFFICES ASSUME IInv, CopyRoot PROVE IInv'
  OBVIOUS
<1> DEFINE a == root[next]
<1>0. /\ TypeOK /\ Sound /\ phase = "gc" /\ next \in Root /\ Fits(a)
      /\ a \in FromObjs /\ a \in Cell /\ heap[a] \in Obj
      /\ obj = NIL /\ scan = to
  BY DEF CopyRoot, IInv, Sound, RootsPoint, Walk, FromObjs, IsObj, TypeOK, Root
<1>1. phase' = "gc"
  BY <1>0, Segments DEF CopyRoot, FromObjs, TypeOK
<1>2. CASE IsCopied(a)
  <2>1. /\ heap' = heap /\ free' = free /\ root' = [root EXCEPT ![next] = Forward(a)]
        /\ next' = next + 1 /\ to' = to /\ scan' = scan /\ obj' = obj /\ fld' = fld
        /\ req' = req /\ lastId' = lastId
        /\ Forward(a) \in ToObjs
    BY <1>0, <1>2, CopyAgain DEF CopyRoot
  <2>2. ToObjs' = ToObjs /\ FromObjs' = FromObjs /\ Uncopied' = Uncopied
    BY <2>1 DEF ToObjs, FromObjs, Uncopied, IsObj, IsCopied, from
  <2>3. TypeOK'
    BY <1>0, <1>1, <2>1, SizesAssumption DEF TypeOK, Root, ToObjs, Ref, Phases
  <2>4. RootsPoint'
    BY <1>0, <1>1, <2>1, <2>2, SizesAssumption DEF RootsPoint, Sound, Root, TypeOK
  <2>5. FieldsPoint' /\ FromFieldsPoint' /\ Forwarded' /\ NoOverlap' /\ Quiet'
        /\ Requested' /\ Identities' /\ Unused'
    BY <1>0, <1>1, <2>1, <2>2 DEF Sound, FieldsPoint, FromFieldsPoint, Forwarded,
       NoOverlap, Quiet, Requested, Identities, Unused, Grey, IsCopied
  <2>6. Walk'
    BY <1>0, <1>1, <2>1, <2>2 DEF Sound, Walk
  <2> QED
    BY <2>3, <2>4, <2>5, <2>6 DEF IInv, Sound
<1>3. CASE ~IsCopied(a)
  <2>1. /\ heap' = Evacuated(a) /\ free' = free + CopySize[heap[a].t]
        /\ root' = [root EXCEPT ![next] = free]
        /\ next' = next + 1 /\ to' = to /\ scan' = scan /\ obj' = obj /\ fld' = fld
        /\ req' = req /\ lastId' = lastId
        /\ a \in Uncopied
        /\ free + CopySize[heap[a].t] < to + SegSize
    BY <1>0, <1>3 DEF CopyRoot, FreeAfter, Forward, Uncopied, Fits, CanMalloc
  <2>2. /\ free \in Cell /\ free # a /\ heap[free] = FREE
        /\ InSegment(free, to)
        /\ heap[a].t \in Kind
        /\ heap' \in [Cell -> Obj \cup {FREE}]
        /\ heap'[free] = heap[a]
        /\ heap'[a] = Mark(heap[a])
        /\ \A c \in Cell \ {a, free} : heap'[c] = heap[c]
        /\ ToObjs' = ToObjs \cup {free}
        /\ FromObjs' = FromObjs
        /\ Uncopied' = Uncopied \ {a}
    <3>1. LET E == heap' IN
          /\ free \in Cell /\ free # a /\ heap[free] = FREE
          /\ InSegment(free, to)
          /\ heap[a].t \in Kind
          /\ E \in [Cell -> Obj \cup {FREE}]
          /\ E[free] = heap[a]
          /\ E[a] = Mark(heap[a])
          /\ \A c \in Cell \ {a, free} : E[c] = heap[c]
      BY <1>0, <2>1, CopyFresh
    <3>2. /\ heap'[free] # FREE /\ heap'[a] # FREE /\ heap'[a].t = KEK_COPIED
          /\ \A c \in FromObjs : c # free /\ c \in Cell
      BY <1>0, <3>1, ValuesAssumption DEF Mark, Obj, Ref, FromObjs, IsObj
    <3> QED
      BY <1>0, <2>1, <3>1, <3>2, CopySets
  <2>3. TypeOK'
    BY <1>0, <1>1, <2>1, <2>2, SizesAssumption, SMTT(30) DEF TypeOK, Root, Ref, Phases
  <2>4. RootsPoint'
    BY <1>0, <1>1, <2>1, <2>2, SizesAssumption, SMTT(30) DEF RootsPoint, Sound, Root, TypeOK
  <2>5. \A c \in ToObjs : c # free /\ c # a /\ c \in Cell /\ heap'[c] = heap[c]
    BY <1>0, <2>2, Segments DEF ToObjs, FromObjs, IsObj, TypeOK
  <2>6. FieldsPoint'
    BY <1>0, <1>1, <2>1, <2>2, <2>5 DEF Sound, FieldsPoint, FromFieldsPoint, Grey, TypeOK
  <2>7. FromFieldsPoint'
    BY <1>0, <1>1, <2>1, <2>2 DEF Sound, FromFieldsPoint, Uncopied, FromObjs, IsObj
  <2>8. Forwarded'
    BY <1>0, <1>1, <2>1, <2>2, <2>5 DEF Sound, Forwarded, Uncopied, FromObjs, IsObj, Mark
  <2>9. NoOverlap'
    <3>1. \A c \in ToObjs : /\ heap[c].t # KEK_COPIED /\ c + Extent[heap[c].t] <= free
                            /\ \A b \in ToObjs : c < b => c + Extent[heap[c].t] <= b
                            /\ c \in Nat /\ heap[c].t \in Kind
      BY <1>0 DEF Sound, NoOverlap, IsCopied, ToObjs, Cell, TypeOK, Obj, IsObj
    <3>2. /\ CopySize[heap[a].t] \in Nat /\ Extent[heap[a].t] \in Nat \ {0}
          /\ Extent[heap[a].t] <= CopySize[heap[a].t] /\ free \in Nat
          /\ \A k \in Kind : Extent[k] \in Nat \ {0}
      BY <2>2, PaddingAssumption, SizesAssumption DEF Cell
    <3>3. heap'[free].t = heap[a].t /\ heap[a].t # KEK_COPIED
      BY <1>3, <2>2 DEF IsCopied
    <3>4. \A c \in ToObjs : c < free
      BY <3>1, <3>2
    <3> QED
      BY <2>1, <2>2, <2>5, <3>1, <3>2, <3>3, <3>4 DEF NoOverlap, IsCopied
  <2>10. Quiet' /\ Requested'
    BY <1>0, <1>1, <2>1 DEF Sound, Quiet, Requested
  <2>11. Walk'
    <3>1. \A c \in ToObjs : /\ c + CopySize[heap[c].t] <= free
                            /\ c >= scan => c + CopySize[heap[c].t] \in ToObjs \cup {free}
                            /\ \A d \in ToObjs : c < d => c + CopySize[heap[c].t] <= d
                            /\ heap[c].t \in Kind /\ c \in Nat
      BY <1>0 DEF Sound, Walk, NoOverlap, IsCopied, ToObjs, Cell, TypeOK, Obj, IsObj
    <3>2. CopySize \in [Kind -> Nat] /\ free \in Nat
      BY <2>2, SizesAssumption DEF Cell
    <3>3. heap'[free].t = heap[a].t /\ free' >= free /\ free' \in Nat
      BY <2>1, <2>2, <3>2
    <3>4. \A c \in ToObjs : heap'[c].t = heap[c].t
      BY <2>5
    <3>5. ASSUME NEW c \in ToObjs \cup {free}
          PROVE  LET b == c + CopySize[heap'[c].t] IN
                 /\ b <= free'
                 /\ c >= scan => b \in ToObjs \cup {free, free'}
                 /\ \A d \in ToObjs \cup {free} : c < d => b <= d
      <4>1. CASE c = free
        <5>1. \A d \in ToObjs \cup {free} : d <= free
          BY <3>1, <3>2
        <5> QED
          BY <2>1, <2>2, <3>1, <3>2, <3>3, <4>1, <5>1
      <4>2. CASE c \in ToObjs
        BY <2>1, <2>2, <3>1, <3>2, <3>3, <3>4, <4>2
      <4> QED
        BY <4>1, <4>2
    <3>6. scan \in ToObjs \cup {free}
      BY <1>0 DEF Sound, Walk
    <3> QED
      BY <1>0, <2>1, <2>2, <3>5, <3>6 DEF Walk
  <2>12. Identities'
    BY <1>0, <1>1, <2>1, <2>2, <2>5 DEF Sound, Identities, Uncopied, FromObjs, Mark, IsObj
  <2>13. Unused'
    BY <1>0, <1>1, <2>1, <2>2, <2>5 DEF Sound, Unused, Uncopied, FromObjs, IsObj
  <2> QED
    BY <2>3, <2>4, <2>6, <2>7, <2>8, <2>9, <2>10, <2>11, <2>12, <2>13 DEF IInv, Sound
<1> QED
  BY <1>2, <1>3

(* What is known while a field is being visited.                           *)
LEMMA AtField ==
  ASSUME IInv, phase = "gc", next \notin Root, Scanning
  PROVE  /\ TypeOK /\ Sound
         /\ obj \in ToObjs /\ obj \in Cell /\ heap[obj] \in Obj
         /\ heap[obj].t \in Kind /\ obj < scan
         /\ fld \in Fld /\ fld <= NFlds[heap[obj].t]
         /\ heap[obj].flds[fld] \in {NIL} \cup FromObjs
<1>1. TypeOK /\ Sound
  BY DEF IInv
<1>2. /\ obj \in ToObjs /\ obj \in Cell /\ heap[obj] \in Obj
      /\ heap[obj].t \in Kind /\ obj < scan
  BY <1>1 DEF Scanning, Sound, Walk, ToObjs, IsObj, NoOverlap, IsCopied, TypeOK, Obj
<1>3. fld \in Fld /\ fld <= NFlds[heap[obj].t]
  BY <1>1, <1>2, SizesAssumption DEF TypeOK, Fld, Scanning
<1>4. heap[obj].flds[fld] \in {NIL} \cup FromObjs
  <2>1. Grey(obj, fld)
    BY <1>1, <1>3 DEF Grey, TypeOK
  <2> QED
    BY <1>1, <1>2, <1>3, <2>1 DEF Sound, FieldsPoint
<1> QED
  BY <1>1, <1>2, <1>3, <1>4

LEMMA CopyFieldIInv == IInv /\ CopyField => IInv'
<1> SUFFICES ASSUME IInv, CopyField PROVE IInv'
  OBVIOUS
<1> DEFINE a == heap[obj].flds[fld]
<1>0. /\ phase = "gc" /\ next \notin Root /\ Scanning /\ a # NIL /\ Fits(a)
      /\ heap' = [Evacuated(a) EXCEPT ![obj] = PutField(@, fld, Forward(a))]
      /\ free' = FreeAfter(a) /\ fld' = fld + 1
      /\ to' = to /\ scan' = scan /\ obj' = obj /\ root' = root /\ next' = next
      /\ phase' = phase /\ req' = req /\ lastId' = lastId
  BY DEF CopyField
<1>1. /\ TypeOK /\ Sound
      /\ obj \in ToObjs /\ obj \in Cell /\ heap[obj] \in Obj
      /\ heap[obj].t \in Kind /\ obj < scan
      /\ fld \in Fld /\ fld <= NFlds[heap[obj].t]
      /\ a \in FromObjs
  BY <1>0, AtField
<1>2. \A c \in FromObjs : c # obj
  BY <1>1, Segments DEF ToObjs, FromObjs, TypeOK
<1>3. heap[obj].flds \in [Fld -> Ref] /\ NFlds \in [Kind -> 0..MaxFld]
  BY <1>1, SizesAssumption DEF Obj
<1>n. /\ fld \in Nat /\ obj \in Nat /\ scan \in Nat /\ free \in Nat /\ scan <= free
      /\ Fld \subseteq Nat
      /\ \A f \in Fld : f > fld <=> f >= fld + 1
  <2>1. /\ fld \in Nat /\ obj \in Nat /\ scan \in Nat /\ free \in Nat
        /\ Fld \subseteq Nat
    BY <1>1, SizesAssumption DEF TypeOK, Fld, Cell
  <2>2. scan \in ToObjs => scan + CopySize[heap[scan].t] <= free /\ heap[scan].t \in Kind
    BY <1>0, <1>1 DEF Sound, Walk, NoOverlap, IsCopied, ToObjs, IsObj, TypeOK, Obj
  <2>3. \A k \in Kind : CopySize[k] \in Nat
    BY SizesAssumption
  <2>4. scan \in ToObjs \cup {free}
    BY <1>0, <1>1 DEF Sound, Walk
  <2>5. scan <= free
    BY <2>1, <2>2, <2>3, <2>4
  <2> QED
    BY <2>1, <2>5
<1>u. \A c \in ToObjs, f \in Fld :
        f > NFlds[heap[c].t] => ~(c = obj /\ f = fld) /\ heap[c].flds[f] = NIL
  <2>1. NFlds[heap[obj].t] \in Nat /\ \A f \in Fld : f > NFlds[heap[obj].t] => f # fld
    BY <1>1, <1>3, <1>n, SizesAssumption
  <2> QED
    BY <1>1, <2>1 DEF Unused, Sound
<1>d. a = heap[obj].flds[fld]
  OBVIOUS
<1>g. \A c \in ToObjs, f \in Fld :
        Grey(c, f)' <=> Grey(c, f) /\ ~(c = obj /\ f = fld)
  BY <1>0, <1>1, <1>n DEF Grey, ToObjs, Cell
<1> HIDE DEF a
<1>4. CASE IsCopied(a)
  <2>1. /\ heap' = [heap EXCEPT ![obj] = PutField(@, fld, Forward(a))]
        /\ free' = free /\ Forward(a) \in ToObjs
    BY <1>0, <1>1, <1>4, CopyAgain
  <2>2. /\ heap'[obj].flds = [heap[obj].flds EXCEPT ![fld] = Forward(a)]
        /\ heap'[obj].t = heap[obj].t /\ heap'[obj].id = heap[obj].id
        /\ heap'[obj] \in Obj
        /\ \A c \in Cell \ {obj} : heap'[c] = heap[c]
        /\ heap' \in [Cell -> Obj \cup {FREE}]
    BY <1>1, <1>3, <2>1 DEF PutField, Obj, TypeOK, ToObjs, Ref
  <2>3. ToObjs' = ToObjs /\ FromObjs' = FromObjs /\ Uncopied' = Uncopied
    <3>1. \A c \in Cell : (heap'[c] # FREE) <=> (heap[c] # FREE)
      BY <1>1, <2>2, ValuesAssumption DEF ToObjs, IsObj
    <3>2. ToObjs' = ToObjs /\ FromObjs' = FromObjs
      BY <1>0, <3>1 DEF ToObjs, FromObjs, IsObj, from
    <3>3. \A c \in FromObjs : heap'[c] = heap[c]
      BY <1>2, <2>2 DEF FromObjs
    <3> QED
      BY <3>2, <3>3 DEF Uncopied, IsCopied
  <2>4. \A c \in FromObjs : c \in Cell /\ heap'[c] = heap[c]
    BY <1>2, <2>2 DEF FromObjs
  <2>5. \A c \in ToObjs : /\ c \in Cell
                          /\ heap'[c].t = heap[c].t /\ heap'[c].id = heap[c].id
                          /\ \A f \in Fld : ~(c = obj /\ f = fld) =>
                                 heap'[c].flds[f] = heap[c].flds[f]
    BY <1>1, <1>3, <2>2 DEF ToObjs
  <2>6. heap'[obj].flds[fld] = Forward(a)
    BY <1>1, <1>3, <2>2
  <2>7. TypeOK'
    BY <1>0, <1>1, <2>1, <2>2, SizesAssumption DEF TypeOK, Fld
  <2>8. RootsPoint'
    BY <1>0, <1>1, <2>3 DEF RootsPoint, Sound
  <2>9. FieldsPoint'
    <3>1. ASSUME NEW c \in ToObjs, NEW f \in Fld
          PROVE  heap'[c].flds[f] \in {NIL} \cup (IF Grey(c, f)' THEN FromObjs ELSE ToObjs)
      <4>1. heap[c].flds[f] \in {NIL} \cup (IF Grey(c, f) THEN FromObjs ELSE ToObjs)
        BY <1>1 DEF Sound, FieldsPoint
      <4>2. CASE c = obj /\ f = fld
        BY <1>g, <2>1, <2>6, <4>2
      <4>3. CASE ~(c = obj /\ f = fld)
        BY <1>g, <2>5, <4>1, <4>3
      <4> QED
        BY <4>2, <4>3
    <3> QED
      BY <2>3, <3>1 DEF FieldsPoint
  <2>10. FromFieldsPoint' /\ Forwarded'
    BY <1>0, <1>1, <2>3, <2>4, <2>5 DEF FromFieldsPoint, Sound, Forwarded, Uncopied
  <2>11. NoOverlap' /\ Walk' /\ Quiet' /\ Requested'
    BY <1>0, <1>1, <2>1, <2>3, <2>5 DEF NoOverlap, Walk, Quiet, Requested, Sound, IsCopied
  <2>12. Identities'
    BY <1>0, <1>1, <2>3, <2>4, <2>5 DEF Identities, Sound, Uncopied
  <2>13. Unused'
    BY <1>1, <1>u, <2>3, <2>4, <2>5 DEF Unused, Sound, Uncopied
  <2> QED
    BY <2>7, <2>8, <2>9, <2>10, <2>11, <2>12, <2>13 DEF IInv, Sound
<1>5. CASE ~IsCopied(a)
  <2> DEFINE E == Evacuated(a)
  <2>1. /\ heap' = [E EXCEPT ![obj] = PutField(@, fld, free)]
        /\ free' = free + CopySize[heap[a].t]
        /\ a \in Uncopied
        /\ free + CopySize[heap[a].t] < to + SegSize
    BY <1>0, <1>1, <1>5 DEF FreeAfter, Forward, Uncopied, Fits, CanMalloc
  <2>2. /\ free \in Cell /\ free # a /\ heap[free] = FREE
        /\ InSegment(free, to)
        /\ heap[a].t \in Kind
        /\ E \in [Cell -> Obj \cup {FREE}]
        /\ E[free] = heap[a]
        /\ E[a] = Mark(heap[a])
        /\ \A c \in Cell \ {a, free} : E[c] = heap[c]
    BY <1>0, <2>1, CopyFresh
  <2>3. obj # a /\ obj # free /\ E[obj] = heap[obj]
    BY <1>1, <1>2, <2>2 DEF ToObjs, IsObj
  <2>4. PutField(heap[obj], fld, free) \in Obj
    BY <1>1, <1>3, <2>2 DEF PutField, Obj, Ref
  <2>5. /\ heap' \in [Cell -> Obj \cup {FREE}]
        /\ heap'[obj] = PutField(heap[obj], fld, free)
        /\ heap'[free] = heap[a] /\ heap'[a] = Mark(heap[a])
        /\ \A c \in Cell \ {obj, a, free} : heap'[c] = heap[c]
    <3> HIDE DEF E
    <3> QED
      BY <1>1, <2>1, <2>2, <2>3, <2>4 DEF Uncopied, FromObjs
  <2>6. /\ heap'[free] # FREE /\ heap'[a] # FREE /\ heap'[a].t = KEK_COPIED
        /\ heap'[obj] # FREE /\ heap[obj] # FREE
        /\ \A c \in FromObjs : c # free /\ c # obj /\ c \in Cell
    BY <1>1, <1>2, <2>2, <2>4, <2>5, ValuesAssumption
    DEF Mark, Obj, Ref, FromObjs, IsObj, ToObjs, TypeOK
  <2>7. ToObjs' = ToObjs \cup {free} /\ FromObjs' = FromObjs /\ Uncopied' = Uncopied \ {a}
    <3>1. /\ \A c \in Cell \ {a, free} : (heap'[c] = FREE <=> heap[c] = FREE)
          /\ \A c \in FromObjs \ {a} : heap'[c].t = heap[c].t
      BY <2>5, <2>6
    <3> QED
      BY <1>0, <1>1, <2>1, <2>2, <2>5, <2>6, <3>1, CopySets
  <2>8. \A c \in FromObjs \ {a} : heap'[c] = heap[c]
    BY <2>5, <2>6
  <2>9. /\ heap'[free].t = heap[a].t /\ heap'[free].id = heap[a].id
        /\ heap'[free].flds = heap[a].flds
        /\ heap'[a].id = heap[a].id /\ heap'[a].fwd = free
    BY <2>5 DEF Mark
  <2>10. \A c \in ToObjs : /\ c \in Cell /\ c # free /\ c # a
                           /\ heap'[c].t = heap[c].t /\ heap'[c].id = heap[c].id
                           /\ \A f \in Fld : ~(c = obj /\ f = fld) =>
                                  heap'[c].flds[f] = heap[c].flds[f]
    BY <1>1, <1>3, <2>2, <2>5, Segments DEF ToObjs, FromObjs, IsObj, TypeOK, PutField
  <2>11. heap'[obj].flds[fld] = free
    BY <1>1, <1>3, <2>5 DEF PutField
  <2>12. TypeOK'
    BY <1>0, <1>1, <2>1, <2>2, <2>5, SizesAssumption DEF TypeOK, Fld
  <2>13. RootsPoint'
    BY <1>0, <1>1, <2>7 DEF RootsPoint, Sound
  <2>14. FieldsPoint'
    <3>1. ASSUME NEW c \in ToObjs', NEW f \in Fld
          PROVE  heap'[c].flds[f] \in {NIL} \cup (IF Grey(c, f)' THEN FromObjs' ELSE ToObjs')
      <4>1. CASE c = free
        <5>1. Grey(c, f)'
          BY <1>0, <1>n, <4>1 DEF Grey
        <5>2. heap[a].flds[f] \in {NIL} \cup FromObjs
          BY <1>1, <2>1 DEF Sound, FromFieldsPoint
        <5> QED
          BY <2>7, <2>9, <4>1, <5>1, <5>2
      <4>2. CASE c = obj /\ f = fld
        <5>1. ~Grey(c, f)'
          BY <1>1, <1>g, <4>2
        <5> QED
          BY <2>7, <2>11, <4>2, <5>1
      <4>3. CASE c \in ToObjs /\ ~(c = obj /\ f = fld)
        <5>1. Grey(c, f)' <=> Grey(c, f)
          BY <1>g, <4>3
        <5>2. heap[c].flds[f] \in {NIL} \cup (IF Grey(c, f) THEN FromObjs ELSE ToObjs)
          BY <1>1, <4>3 DEF Sound, FieldsPoint
        <5> QED
          BY <2>7, <2>10, <4>3, <5>1, <5>2
      <4> QED
        BY <2>7, <4>1, <4>2, <4>3
    <3> QED
      BY <3>1 DEF FieldsPoint
  <2>15. FromFieldsPoint'
    BY <1>1, <2>7, <2>8 DEF Sound, FromFieldsPoint, Uncopied
  <2>16. Forwarded'
    <3>1. ASSUME NEW c \in FromObjs \ (Uncopied \ {a})
          PROVE  heap'[c].fwd \in ToObjs' /\ heap'[heap'[c].fwd].id = heap'[c].id
      <4>1. CASE c = a
        BY <2>7, <2>9, <4>1
      <4>2. CASE c # a
        <5>1. heap[c].fwd \in ToObjs /\ heap[heap[c].fwd].id = heap[c].id
          BY <1>1, <4>2 DEF Sound, Forwarded
        <5>2. heap'[c] = heap[c]
          BY <2>8, <4>2
        <5> QED
          BY <2>7, <2>10, <5>1, <5>2
      <4> QED
        BY <4>1, <4>2
    <3> QED
      BY <2>7, <3>1 DEF Forwarded
  <2>17. /\ \A k \in Kind : Extent[k] \in Nat \ {0} /\ CopySize[k] \in Nat
         /\ \A k \in Kind : Extent[k] <= CopySize[k]
         /\ free \in Nat /\ free' \in Nat /\ free' >= free
    <3>1. Extent \in [Kind -> Nat \ {0}] /\ CopySize \in [Kind -> Nat]
      BY SizesAssumption
    <3>2. \A k \in Kind : Extent[k] \in Nat \ {0} /\ CopySize[k] \in Nat
      BY <3>1
    <3> QED
      BY <1>n, <2>1, <2>2, <3>2, PaddingAssumption
  <2>18. \A c \in ToObjs : /\ c \in Nat /\ heap[c].t \in Kind
                           /\ heap[c].t # KEK_COPIED /\ c + Extent[heap[c].t] <= free
                           /\ \A b \in ToObjs : c < b => c + Extent[heap[c].t] <= b
                           /\ c + CopySize[heap[c].t] <= free
                           /\ c >= scan => c + CopySize[heap[c].t] \in ToObjs \cup {free}
                           /\ \A b \in ToObjs : c < b => c + CopySize[heap[c].t] <= b
    BY <1>0, <1>1 DEF Sound, Walk, NoOverlap, IsCopied, ToObjs, Cell, TypeOK, Obj, IsObj
  <2>19. NoOverlap'
    <3>1. \A c \in ToObjs : c < free
      BY <1>n, <2>17, <2>18
    <3>2. heap[a].t # KEK_COPIED
      BY <1>5 DEF IsCopied
    <3>3. ASSUME NEW c \in ToObjs \cup {free}
          PROVE  /\ heap'[c].t # KEK_COPIED
                 /\ c + Extent[heap'[c].t] <= free'
                 /\ \A b \in ToObjs \cup {free} : c < b => c + Extent[heap'[c].t] <= b
      <4>1. CASE c = free
        BY <1>n, <2>1, <2>2, <2>9, <2>17, <3>1, <3>2, <4>1
      <4>2. CASE c \in ToObjs
        BY <1>n, <2>10, <2>17, <2>18, <3>1, <4>2
      <4> QED
        BY <4>1, <4>2
    <3> QED
      BY <2>7, <3>3 DEF NoOverlap, IsCopied
  <2>20. Walk'
    <3>1. ASSUME NEW c \in ToObjs \cup {free}
          PROVE  LET b == c + CopySize[heap'[c].t] IN
                 /\ b <= free'
                 /\ c >= scan => b \in ToObjs \cup {free, free'}
                 /\ \A d \in ToObjs \cup {free} : c < d => b <= d
      <4>1. CASE c = free
        <5>1. \A d \in ToObjs \cup {free} : d <= free
          BY <1>n, <2>17, <2>18
        <5> QED
          BY <1>n, <2>1, <2>2, <2>9, <2>17, <4>1, <5>1
      <4>2. CASE c \in ToObjs
        <5>1. c + CopySize[heap[c].t] <= free'
          BY <1>n, <2>17, <2>18, <4>2
        <5> QED
          BY <2>10, <2>18, <4>2, <5>1
      <4> QED
        BY <4>1, <4>2
    <3>2. scan \in ToObjs \cup {free}
      BY <1>0, <1>1 DEF Sound, Walk
    <3>3. /\ scan' \in ToObjs' \cup {free'}
          /\ obj' \in ToObjs' \cup {NIL} /\ obj' < scan'
      BY <1>0, <1>1, <2>7, <3>2
    <3> QED
      BY <1>0, <2>7, <3>1, <3>3 DEF Walk
  <2>21. Quiet' /\ Requested'
    BY <1>0, <1>1 DEF Sound, Quiet, Requested
  <2>22. Identities'
    <3>1. /\ \A c \in ToObjs \cup FromObjs : heap'[c].id = heap[c].id
          /\ a \in FromObjs /\ Uncopied \subseteq FromObjs /\ free \notin ToObjs
      BY <1>1, <2>1, <2>2, <2>8, <2>9, <2>10 DEF Uncopied, ToObjs, IsObj
    <3>2. /\ \A c \in ToObjs \cup FromObjs : heap[c].id <= lastId
          /\ \A c, d \in ToObjs \cup Uncopied : heap[c].id = heap[d].id => c = d
      BY <1>1 DEF Sound, Identities
    <3>3. \A c \in ToObjs' \cup FromObjs' : heap'[c].id <= lastId'
      BY <1>0, <2>7, <2>9, <3>1, <3>2
    <3>4. ASSUME NEW c \in ToObjs \cup {free} \cup (Uncopied \ {a}),
                 NEW d \in ToObjs \cup {free} \cup (Uncopied \ {a}),
                 heap'[c].id = heap'[d].id
          PROVE  c = d
      BY <2>1, <2>9, <2>10, <3>1, <3>2, <3>4
    <3> QED
      BY <2>7, <3>3, <3>4 DEF Identities
  <2>23. Unused'
    <3>1. \A c \in Uncopied : c \in FromObjs /\ \A f \in Fld :
             f > NFlds[heap[c].t] => heap[c].flds[f] = NIL
      BY <1>1 DEF Unused, Sound, Uncopied
    <3>2. ASSUME NEW c \in ToObjs \cup {free} \cup (Uncopied \ {a}), NEW f \in Fld,
                 f > NFlds[heap'[c].t]
          PROVE  heap'[c].flds[f] = NIL
      <4>1. CASE c = free
        BY <2>1, <2>9, <3>1, <3>2, <4>1
      <4>2. CASE c \in ToObjs
        <5>1. ~(c = obj /\ f = fld) /\ heap[c].flds[f] = NIL
          BY <1>u, <2>10, <3>2, <4>2
        <5> QED
          BY <2>10, <4>2, <5>1
      <4>3. CASE c \in Uncopied \ {a}
        BY <2>8, <3>1, <3>2, <4>3
      <4> QED
        BY <4>1, <4>2, <4>3
    <3> QED
      BY <2>7, <3>2 DEF Unused
  <2> QED
    BY <2>12, <2>13, <2>14, <2>15, <2>16, <2>19, <2>20, <2>21, <2>22, <2>23 DEF IInv, Sound
<1> QED
  BY <1>4, <1>5

(* The remaining steps of the scavenge.                                    *)
LEMMA SkipRootIInv == IInv /\ SkipRoot => IInv'
<1> SUFFICES ASSUME IInv, SkipRoot PROVE IInv'
  OBVIOUS
<1>1. /\ TypeOK /\ Sound /\ phase = "gc" /\ next \in Root /\ root[next] = NIL
      /\ next' = next + 1 /\ heap' = heap /\ to' = to /\ free' = free /\ scan' = scan
      /\ obj' = obj /\ fld' = fld /\ root' = root /\ phase' = phase /\ req' = req
      /\ lastId' = lastId
  BY DEF SkipRoot, IInv
<1>2. ToObjs' = ToObjs /\ FromObjs' = FromObjs /\ Uncopied' = Uncopied
  BY <1>1 DEF ToObjs, FromObjs, Uncopied, IsObj, IsCopied, from
<1>3. TypeOK'
  BY <1>1, SizesAssumption DEF TypeOK, Root
<1>4. RootsPoint'
  <2>1. \A x \in Root : x >= next' <=> x >= next /\ x # next
    BY <1>1, SizesAssumption DEF Root
  <2> QED
    BY <1>1, <1>2, <2>1 DEF RootsPoint, Sound
<1>5. FieldsPoint' /\ FromFieldsPoint' /\ Forwarded' /\ NoOverlap'
  BY <1>1, <1>2 DEF Sound, FieldsPoint, Grey, FromFieldsPoint, Forwarded, NoOverlap,
     IsCopied
<1>6. Quiet' /\ Requested' /\ Walk' /\ Identities' /\ Unused'
  BY <1>1, <1>2 DEF Sound, Quiet, Requested, Walk, Identities, Unused
<1> QED
  BY <1>3, <1>4, <1>5, <1>6 DEF IInv, Sound

(* When no object is being scanned, all the pointers that are still grey    *)
(* are in objects past the scan pointer.                                   *)
LEMMA NotScanning ==
  ASSUME IInv, phase = "gc", next \notin Root, ~Scanning,
         NEW c \in ToObjs, NEW f \in Fld, heap[c].flds[f] # NIL
  PROVE  Grey(c, f) <=> c >= scan
<1>1. TypeOK /\ Sound
  BY DEF IInv
<1>2. CASE c = obj
  <2>1. /\ heap[c].t \in Kind /\ c \in Nat
    BY <1>1, SizesAssumption DEF Sound, NoOverlap, IsCopied, ToObjs, IsObj, TypeOK, Obj, Cell
  <2>2. NFlds[heap[c].t] \in Nat /\ f \in Nat /\ fld \in Nat
    BY <1>1, <2>1, SizesAssumption DEF TypeOK, Fld
  <2>3. ~(f > NFlds[heap[c].t])
    BY <1>1 DEF Sound, Unused
  <2>4. ~(fld <= NFlds[heap[c].t])
    BY <1>2, <2>1, ValuesAssumption DEF Scanning
  <2>5. ~(f >= fld)
    BY <2>2, <2>3, <2>4
  <2> QED
    BY <2>5 DEF Grey
<1>3. CASE c # obj
  BY <1>3 DEF Grey
<1> QED
  BY <1>2, <1>3

LEMMA ScanObjIInv == IInv /\ ScanObj => IInv'
<1> SUFFICES ASSUME IInv, ScanObj PROVE IInv'
  OBVIOUS
<1>1. /\ TypeOK /\ Sound /\ phase = "gc" /\ next \notin Root /\ ~Scanning /\ scan < free
      /\ obj' = scan /\ fld' = 1 /\ scan' = scan + CopySize[heap[scan].t]
      /\ next' = next /\ heap' = heap /\ to' = to /\ free' = free
      /\ root' = root /\ phase' = phase /\ req' = req /\ lastId' = lastId
  BY DEF ScanObj, IInv
<1>2. ToObjs' = ToObjs /\ FromObjs' = FromObjs /\ Uncopied' = Uncopied
  BY <1>1 DEF ToObjs, FromObjs, Uncopied, IsObj, IsCopied, from
<1>3. /\ scan \in ToObjs /\ scan \in Cell /\ scan \in Nat /\ heap[scan].t \in Kind
      /\ free \in Nat
  BY <1>1, SizesAssumption DEF Sound, Walk, TypeOK, ToObjs, IsObj, NoOverlap, IsCopied,
     Obj, Cell
<1>4. /\ Extent[heap[scan].t] \in Nat \ {0} /\ CopySize[heap[scan].t] \in Nat
      /\ Extent[heap[scan].t] <= CopySize[heap[scan].t]
  BY <1>3, SizesAssumption, PaddingAssumption
<1>5. /\ scan' \in Nat /\ scan < scan' /\ scan' <= free
      /\ scan' \in ToObjs \cup {free}
  BY <1>1, <1>3, <1>4 DEF Sound, Walk
\* No object starts between the old scan pointer and the new one.
<1>6. \A c \in ToObjs : c \in Nat /\ (c >= scan <=> c = scan \/ c >= scan')
  <2>1. \A c \in ToObjs : c \in Nat /\ (scan < c => scan' <= c)
    BY <1>1, <1>3, SizesAssumption DEF Sound, Walk, ToObjs, Cell
  <2> QED
    BY <1>3, <1>5, <2>1
<1>7. TypeOK'
  BY <1>1, <1>3, <1>5, SizesAssumption DEF TypeOK, Ref
<1>8. RootsPoint' /\ FromFieldsPoint' /\ Forwarded' /\ NoOverlap'
  BY <1>1, <1>2 DEF Sound, RootsPoint, FromFieldsPoint, Forwarded, NoOverlap, IsCopied
<1>9. FieldsPoint'
  <2>1. \A f \in Fld : f >= 1
    BY SizesAssumption DEF Fld
  <2>2. \A c \in ToObjs, f \in Fld : Grey(c, f)' <=> c >= scan
    BY <1>1, <1>6, <2>1 DEF Grey
  <2>3. \A c \in ToObjs, f \in Fld :
           heap[c].flds[f] # NIL => (Grey(c, f) <=> c >= scan)
    BY <1>1, NotScanning
  <2> QED
    BY <1>1, <1>2, <2>2, <2>3 DEF Sound, FieldsPoint
<1>10. Walk'
  BY <1>1, <1>2, <1>3, <1>5 DEF Sound, Walk, ToObjs, Cell
<1>11. Quiet' /\ Requested' /\ Identities' /\ Unused'
  BY <1>1, <1>2 DEF Sound, Quiet, Requested, Identities, Unused
<1> QED
  BY <1>7, <1>8, <1>9, <1>10, <1>11 DEF IInv, Sound

LEMMA SkipFieldIInv == IInv /\ SkipField => IInv'
<1> SUFFICES ASSUME IInv, SkipField PROVE IInv'
  OBVIOUS
<1>1. /\ phase = "gc" /\ next \notin Root /\ Scanning /\ heap[obj].flds[fld] = NIL
      /\ fld' = fld + 1 /\ obj' = obj /\ scan' = scan
      /\ next' = next /\ heap' = heap /\ to' = to /\ free' = free
      /\ root' = root /\ phase' = phase /\ req' = req /\ lastId' = lastId
  BY DEF SkipField
<1>2. /\ TypeOK /\ Sound /\ fld \in Fld /\ obj < scan
  BY <1>1, AtField
<1>3. ToObjs' = ToObjs /\ FromObjs' = FromObjs /\ Uncopied' = Uncopied
  BY <1>1 DEF ToObjs, FromObjs, Uncopied, IsObj, IsCopied, from
<1>4. TypeOK'
  BY <1>1, <1>2, SizesAssumption DEF TypeOK, Fld
<1>5. FieldsPoint'
  <2>1. \A f \in Fld : f >= fld' <=> f >= fld /\ f # fld
    BY <1>1, <1>2, SizesAssumption DEF Fld
  <2> QED
    BY <1>1, <1>2, <1>3, <2>1 DEF Sound, FieldsPoint, Grey
<1>6. RootsPoint' /\ FromFieldsPoint' /\ Forwarded' /\ NoOverlap'
  BY <1>1, <1>2, <1>3 DEF Sound, RootsPoint, FromFieldsPoint, Forwarded, NoOverlap, IsCopied
<1>7. Quiet' /\ Requested' /\ Walk' /\ Identities' /\ Unused'
  BY <1>1, <1>2, <1>3 DEF Sound, Quiet, Requested, Walk, Identities, Unused
<1> QED
  BY <1>4, <1>5, <1>6, <1>7 DEF IInv, Sound

LEMMA ToSpaceFullIInv == IInv /\ ToSpaceFull => IInv'
  BY DEF IInv, ToSpaceFull, TypeOK, Phases, NoOverlap, ToObjs, IsObj, IsCopied

LEMMA EndScavengeIInv == IInv /\ EndScavenge => IInv'
<1> SUFFICES ASSUME IInv, EndScavenge PROVE IInv'
  OBVIOUS
<1>1. /\ TypeOK /\ Sound /\ phase = "gc" /\ next \notin Root /\ ~Scanning /\ ~(scan < free)
      /\ heap' = [a \in Cell |-> IF InSegment(a, from) THEN FREE ELSE heap[a]]
      /\ obj' = NIL /\ phase' = "retry"
      /\ fld' = fld /\ scan' = scan /\ next' = next /\ to' = to /\ free' = free
      /\ root' = root /\ req' = req /\ lastId' = lastId
  BY DEF EndScavenge, IInv
<1>2. \A a \in ToObjs : a \in Cell /\ heap'[a] = heap[a]
  BY <1>1, Segments DEF ToObjs, TypeOK
<1>3. ToObjs' = ToObjs
  BY <1>1, Segments DEF ToObjs, IsObj, TypeOK
<1>4. FromObjs' = {} /\ Uncopied' = {}
  BY <1>1 DEF FromObjs, Uncopied, IsObj, from
<1>5. TypeOK'
  BY <1>1 DEF TypeOK, Ref, Phases
<1>6. \A x \in Root : ~(x >= next)
  BY <1>1, SizesAssumption DEF TypeOK, Root
<1>7. \A a \in ToObjs : a < scan
  <2>1. \A a \in ToObjs : /\ a \in Nat /\ a + Extent[heap[a].t] <= free
                          /\ heap[a].t \in Kind
    BY <1>1 DEF Sound, NoOverlap, IsCopied, ToObjs, IsObj, TypeOK, Obj, Cell
  <2>2. \A k \in Kind : Extent[k] \in Nat \ {0}
    BY SizesAssumption
  <2> QED
    BY <1>1, <2>1, <2>2, SizesAssumption DEF TypeOK
<1>8. \A a \in ToObjs, f \in Fld : heap[a].flds[f] # NIL => ~Grey(a, f)
  <2>1. \A a \in ToObjs : ~(a >= scan)
    BY <1>1, <1>7, SizesAssumption DEF ToObjs, Cell, TypeOK
  <2> QED
    BY <1>1, <2>1, NotScanning
<1>9. FieldsPoint'
  BY <1>1, <1>2, <1>3, <1>8 DEF Sound, FieldsPoint, Grey
<1>10. RootsPoint'
  BY <1>1, <1>3, <1>6 DEF Sound, RootsPoint
<1>11. FromFieldsPoint' /\ Forwarded' /\ NoOverlap'
  BY <1>1, <1>2, <1>3, <1>4 DEF Sound, FromFieldsPoint, Forwarded, NoOverlap, IsCopied
<1>12. Quiet' /\ Requested' /\ Walk' /\ Identities' /\ Unused'
  BY <1>1, <1>2, <1>3, <1>4, SMTT(30) DEF Sound, Quiet, Requested, Walk, Identities, Unused
<1> QED
  BY <1>5, <1>9, <1>10, <1>11, <1>12 DEF IInv, Sound

---------------------------------------------------------------------------
(* Allocation and the steps of the program.  Between two scavenges every   *)
(* object is in the to-space and every pointer names one.                  *)
LEMMA AtRest ==
  ASSUME IInv, phase \in {"run", "retry"}
  PROVE  /\ TypeOK /\ Sound /\ phase # "gc"
         /\ FromObjs = {} /\ Uncopied = {} /\ obj = NIL
         /\ \A x \in Root : root[x] \in ToObjs \cup {NIL}
         /\ \A a \in ToObjs : /\ a \in Cell /\ a \in Nat /\ heap[a] \in Obj
                              /\ heap[a].t \in Kind /\ heap[a].t # KEK_COPIED
         /\ \A a \in ToObjs, f \in Fld : heap[a].flds[f] \in ToObjs \cup {NIL}
<1>1. TypeOK /\ Sound /\ phase # "gc"
  BY DEF IInv
<1>2. FromObjs = {} /\ Uncopied = {} /\ obj = NIL
  BY <1>1 DEF Sound, Quiet, Uncopied
<1>3. /\ \A x \in Root : root[x] \in ToObjs \cup {NIL}
      /\ \A a \in ToObjs, f \in Fld : heap[a].flds[f] \in ToObjs \cup {NIL}
  BY <1>1 DEF Sound, RootsPoint, FieldsPoint, Grey
<1>4. \A a \in ToObjs : /\ a \in Cell /\ a \in Nat /\ heap[a] \in Obj
                        /\ heap[a].t \in Kind /\ heap[a].t # KEK_COPIED
  BY <1>1, SizesAssumption DEF Sound, NoOverlap, IsCopied, ToObjs, IsObj, TypeOK, Obj, Cell
<1> QED
  BY <1>1, <1>2, <1>3, <1>4

LEMMA BumpIInv ==
  ASSUME IInv, phase \in {"run", "retry"}, NEW x \in Root, NEW k \in Kind,
         lastId < MaxId, CanMalloc(AllocSize[k]), Bump(x, k), phase' = "run",
         UNCHANGED <<to, scan, obj, fld, next>>, req' \in {req, NoReq}
  PROVE  IInv'
<1>1. /\ TypeOK /\ Sound /\ phase # "gc"
      /\ FromObjs = {} /\ Uncopied = {} /\ obj = NIL
      /\ \A y \in Root : root[y] \in ToObjs \cup {NIL}
      /\ \A a \in ToObjs : /\ a \in Cell /\ a \in Nat /\ heap[a] \in Obj
                           /\ heap[a].t \in Kind /\ heap[a].t # KEK_COPIED
      /\ \A a \in ToObjs, f \in Fld : heap[a].flds[f] \in ToObjs \cup {NIL}
  BY AtRest
<1>2. /\ AllocSize[k] \in Nat /\ Extent[k] \in Nat \ {0} /\ Extent[k] <= AllocSize[k]
      /\ free \in Nat /\ lastId \in Nat /\ SegSize \in Nat /\ MaxId \in Nat
      /\ \A j \in Kind : Extent[j] \in Nat \ {0}
  BY <1>1, SizesAssumption, PaddingAssumption DEF TypeOK
<1>3. free \in Cell /\ InSegment(free, to) /\ free' \in to..(to + SegSize)
  BY <1>1, <1>2, SizesAssumption DEF CanMalloc, Bump, TypeOK, Cell, InSegment
<1>4. NewObj(k) \in Obj
  BY <1>1, <1>2 DEF NewObj, Obj, Ref, Id, TypeOK
<1>5. /\ heap' \in [Cell -> Obj \cup {FREE}]
      /\ heap'[free] = NewObj(k) /\ heap'[free] # FREE
      /\ \A c \in Cell \ {free} : heap'[c] = heap[c]
  BY <1>1, <1>3, <1>4, ValuesAssumption DEF Bump, TypeOK
<1>6. \A a \in ToObjs : /\ a + Extent[heap[a].t] <= free /\ a < free
                        /\ \A b \in ToObjs : a < b => a + Extent[heap[a].t] <= b
  <2>1. \A a \in ToObjs : /\ a + Extent[heap[a].t] <= free
                          /\ \A b \in ToObjs : a < b => a + Extent[heap[a].t] <= b
    BY <1>1 DEF Sound, NoOverlap
  <2> QED
    BY <1>1, <1>2, <2>1
<1>7. \A a \in ToObjs : a # free /\ heap'[a] = heap[a]
  BY <1>1, <1>2, <1>5, <1>6
<1>8. ToObjs' = ToObjs \cup {free}
  BY <1>3, <1>5 DEF ToObjs, IsObj
<1>9. FromObjs' = {} /\ Uncopied' = {}
  <2>1. ~InSegment(free, from) /\ from' = from
    BY <1>1, <1>3, Segments DEF TypeOK, from
  <2> QED
    BY <1>1, <1>5, <2>1 DEF FromObjs, Uncopied, IsObj
<1>10. TypeOK'
  <2>1. root' \in [Root -> Ref] /\ lastId' \in 0..MaxId
    BY <1>1, <1>2, <1>3 DEF TypeOK, Bump, Ref
  <2> QED
    BY <1>1, <1>3, <1>5, <2>1 DEF TypeOK, Phases
<1>11. RootsPoint' /\ FromFieldsPoint' /\ Forwarded'
  BY <1>1, <1>8, <1>9 DEF RootsPoint, FromFieldsPoint, Forwarded, Bump, TypeOK
<1>12. FieldsPoint'
  <2>1. \A f \in Fld : heap'[free].flds[f] = NIL
    BY <1>5 DEF NewObj
  <2> QED
    BY <1>1, <1>7, <1>8, <2>1 DEF FieldsPoint, Grey
<1>13. NoOverlap'
  <2>1. heap'[free].t = k /\ k # KEK_COPIED /\ free' = free + AllocSize[k]
    BY <1>5, ValuesAssumption DEF NewObj, Bump
  <2>2. ASSUME NEW c \in ToObjs \cup {free}
        PROVE  /\ heap'[c].t # KEK_COPIED
               /\ c + Extent[heap'[c].t] <= free'
               /\ \A b \in ToObjs \cup {free} : c < b => c + Extent[heap'[c].t] <= b
    <3>1. CASE c = free
      BY <1>2, <1>6, <2>1, <3>1, <1>1
    <3>2. CASE c \in ToObjs
      BY <1>1, <1>2, <1>6, <1>7, <2>1, <3>2
    <3> QED
      BY <3>1, <3>2
  <2> QED
    BY <1>8, <2>2 DEF NoOverlap, IsCopied
<1>14. Quiet' /\ Requested' /\ Walk'
  BY <1>1, <1>9 DEF Quiet, Requested, Walk
<1>15. Identities'
  <2>1. heap'[free].id = lastId + 1 /\ lastId' = lastId + 1
    BY <1>5 DEF NewObj, Bump
  <2>2. \A a \in ToObjs : heap[a].id \in Nat /\ heap[a].id <= lastId
    BY <1>1, SizesAssumption DEF Sound, Identities, Obj, Id
  <2>3. \A a, b \in ToObjs : heap[a].id = heap[b].id => a = b
    BY <1>1 DEF Sound, Identities
  <2>4. \A a \in ToObjs \cup {free} : heap'[a].id <= lastId'
    BY <1>2, <1>7, <2>1, <2>2
  <2>5. \A a, b \in ToObjs \cup {free} : heap'[a].id = heap'[b].id => a = b
    BY <1>2, <1>7, <2>1, <2>2, <2>3
  <2> QED
    BY <1>8, <1>9, <2>4, <2>5 DEF Identities
<1>16. Unused'
  <2>1. \A f \in Fld : heap'[free].flds[f] = NIL
    BY <1>5 DEF NewObj
  <2> QED
    BY <1>1, <1>7, <1>8, <1>9, <2>1 DEF Unused, Sound
<1> QED
  BY <1>10, <1>11, <1>12, <1>13, <1>14, <1>15, <1>16 DEF IInv, Sound

LEMMA MallocIInv ==
  ASSUME IInv, NEW x \in Root, NEW k \in Kind, Malloc(x, k)
  PROVE  IInv'
  BY BumpIInv DEF Malloc

LEMMA RetryIInv == IInv /\ Retry => IInv'
<1> SUFFICES ASSUME IInv, Retry PROVE IInv'
  OBVIOUS
<1>1. phase = "retry" /\ TypeOK /\ req \in [slot : Root, kind : Kind] /\ lastId < MaxId
  BY DEF Retry, IInv, Sound, Requested
<1>2. CASE CanMalloc(AllocSize[req.kind])
  BY <1>1, <1>2, BumpIInv DEF Retry
<1>3. CASE ~CanMalloc(AllocSize[req.kind])
  <2>1. TypeOK'
    BY <1>1, <1>3 DEF Retry, TypeOK, Phases
  <2>2. NoOverlap'
    BY <1>3 DEF Retry, IInv, NoOverlap, ToObjs, IsObj, IsCopied
  <2> QED
    BY <1>3, <2>1, <2>2 DEF Retry, IInv
<1> QED
  BY <1>2, <1>3

LEMMA StartScavengeIInv ==
  ASSUME IInv, NEW x \in Root, NEW k \in Kind, StartScavenge(x, k)
  PROVE  IInv'
<1>1. /\ phase = "run" /\ lastId < MaxId
      /\ to' = from /\ free' = from /\ scan' = from /\ next' = 1 /\ phase' = "gc"
      /\ req' = [slot |-> x, kind |-> k]
      /\ heap' = heap /\ obj' = obj /\ fld' = fld /\ root' = root /\ lastId' = lastId
  BY DEF StartScavenge
<1>2. /\ TypeOK /\ Sound
      /\ FromObjs = {} /\ Uncopied = {} /\ obj = NIL
      /\ \A y \in Root : root[y] \in ToObjs \cup {NIL}
      /\ \A a \in ToObjs : heap[a].t # KEK_COPIED
      /\ \A a \in ToObjs, f \in Fld : heap[a].flds[f] \in ToObjs \cup {NIL}
  BY <1>1, AtRest
<1>3. from' = to /\ from \in {0, SegSize}
  BY <1>1, <1>2, SizesAssumption DEF from, TypeOK
<1>4. ToObjs' = {} /\ FromObjs' = ToObjs /\ Uncopied' = ToObjs
  BY <1>1, <1>2, <1>3 DEF ToObjs, FromObjs, Uncopied, IsObj, IsCopied
<1>5. TypeOK'
  BY <1>1, <1>2, <1>3, SizesAssumption DEF TypeOK, Phases
<1>6. RootsPoint' /\ FieldsPoint' /\ FromFieldsPoint' /\ Forwarded' /\ NoOverlap'
  <2>1. \A y \in Root : y >= next'
    BY <1>1, SizesAssumption DEF Root
  <2> QED
    BY <1>1, <1>2, <1>4, <2>1 DEF RootsPoint, FieldsPoint, FromFieldsPoint, Forwarded,
       NoOverlap
<1>7. Quiet' /\ Requested' /\ Walk'
  BY <1>1, <1>2, <1>4 DEF Quiet, Requested, Walk
<1>8. Identities' /\ Unused'
  BY <1>1, <1>2, <1>4 DEF Sound, Identities, Unused
<1> QED
  BY <1>5, <1>6, <1>7, <1>8 DEF IInv, Sound

(* The program only moves pointers it holds.                               *)
LEMMA SetRootIInv ==
  ASSUME IInv, phase = "run", NEW x \in Root, NEW v \in ToObjs \cup {NIL},
         root' = [root EXCEPT ![x] = v],
         UNCHANGED <<heap, to, free, scan, obj, fld, next, phase, req, lastId>>
  PROVE  IInv'
<1>1. /\ TypeOK /\ Sound
      /\ \A y \in Root : root[y] \in ToObjs \cup {NIL}
  BY AtRest
<1>2. ToObjs' = ToObjs /\ FromObjs' = FromObjs /\ Uncopied' = Uncopied
  BY DEF ToObjs, FromObjs, Uncopied, IsObj, IsCopied, from
<1>3. TypeOK' /\ RootsPoint'
  BY <1>1, <1>2 DEF TypeOK, RootsPoint, Ref, ToObjs
<1>4. FieldsPoint' /\ FromFieldsPoint' /\ Forwarded' /\ NoOverlap'
  BY <1>1, <1>2 DEF Sound, FieldsPoint, Grey, FromFieldsPoint, Forwarded, NoOverlap,
     IsCopied
<1>5. Quiet' /\ Requested' /\ Walk' /\ Identities' /\ Unused'
  BY <1>1, <1>2 DEF Sound, Quiet, Requested, Walk, Identities, Unused
<1> QED
  BY <1>3, <1>4, <1>5 DEF IInv, Sound

LEMMA SlotsPoint ==
  ASSUME IInv, phase = "run" PROVE Slots \subseteq ToObjs \cup {NIL}
  BY AtRest DEF Slots

LEMMA AssignIInv ==
  ASSUME IInv, NEW x \in Root, NEW v \in Slots, Assign(x, v) PROVE IInv'
  BY SlotsPoint, SetRootIInv DEF Assign

LEMMA LoadIInv ==
  ASSUME IInv, NEW x \in Root, NEW y \in Root, NEW f \in Fld, Load(x, y, f)
  PROVE  IInv'
<1>1. heap[root[y]].flds[f] \in ToObjs \cup {NIL}
  BY AtRest DEF Load
<1> QED
  BY <1>1, SetRootIInv DEF Load

LEMMA StoreIInv ==
  ASSUME IInv, NEW x \in Root, NEW f \in Fld, NEW v \in Slots, Store(x, f, v)
  PROVE  IInv'
<1> DEFINE o == root[x]
<1>1. /\ phase = "run" /\ o # NIL /\ f <= NFlds[heap[o].t]
      /\ heap' = [heap EXCEPT ![o] = PutField(@, f, v)]
      /\ UNCHANGED <<to, free, scan, obj, fld, root, next, phase, req, lastId>>
  BY DEF Store
<1>2. /\ TypeOK /\ Sound /\ FromObjs = {} /\ Uncopied = {}
      /\ o \in ToObjs /\ v \in ToObjs \cup {NIL}
      /\ o \in Cell /\ heap[o] \in Obj /\ heap[o].t \in Kind
      /\ \A a \in ToObjs, g \in Fld : heap[a].flds[g] \in ToObjs \cup {NIL}
  BY <1>1, AtRest, SlotsPoint
<1> HIDE DEF o
<1>3. /\ heap'[o].flds = [heap[o].flds EXCEPT ![f] = v]
      /\ heap'[o].t = heap[o].t /\ heap'[o].id = heap[o].id
      /\ heap'[o] \in Obj /\ heap[o] # FREE
      /\ \A c \in Cell \ {o} : heap'[c] = heap[c]
      /\ heap' \in [Cell -> Obj \cup {FREE}]
  BY <1>1, <1>2 DEF PutField, Obj, TypeOK, ToObjs, IsObj, Ref
<1>4. ToObjs' = ToObjs /\ FromObjs' = {} /\ Uncopied' = {}
  BY <1>1, <1>2, <1>3, ValuesAssumption DEF ToObjs, FromObjs, Uncopied, IsObj, from
<1>5. \A c \in ToObjs : /\ heap'[c].t = heap[c].t /\ heap'[c].id = heap[c].id
                        /\ \A g \in Fld : \/ heap'[c].flds[g] = heap[c].flds[g]
                                         \/ (c = o /\ g = f /\ heap'[c].flds[g] = v)
  <2>1. heap[o].flds \in [Fld -> Ref]
    BY <1>2 DEF Obj
  <2>2. \A g \in Fld : heap'[o].flds[g] = IF g = f THEN v ELSE heap[o].flds[g]
    BY <1>3, <2>1
  <2>3. \A c \in ToObjs : c # o => heap'[c] = heap[c]
    BY <1>3 DEF ToObjs
  <2>4. ASSUME NEW c \in ToObjs, NEW g \in Fld
        PROVE  heap'[c].flds[g] = heap[c].flds[g] \/ (c = o /\ g = f /\ heap'[c].flds[g] = v)
    BY <2>2, <2>3
  <2>5. \A c \in ToObjs : heap'[c].t = heap[c].t /\ heap'[c].id = heap[c].id
    BY <1>3, <2>3
  <2> QED
    BY <2>4, <2>5
<1>6. TypeOK'
  BY <1>1, <1>2, <1>3 DEF TypeOK
<1>7. RootsPoint' /\ FromFieldsPoint' /\ Forwarded'
  BY <1>1, <1>2, <1>4 DEF Sound, RootsPoint, FromFieldsPoint, Forwarded
<1>8. FieldsPoint'
  BY <1>1, <1>2, <1>4, <1>5 DEF FieldsPoint, Grey
<1>9. NoOverlap' /\ Quiet' /\ Requested' /\ Walk' /\ Identities'
  BY <1>1, <1>2, <1>4, <1>5 DEF Sound, NoOverlap, IsCopied, Quiet, Requested, Walk,
     Identities
<1>10. Unused'
  <2>1. \A c \in ToObjs, g \in Fld :
          g > NFlds[heap[c].t] => ~(c = o /\ g = f) /\ heap[c].flds[g] = NIL
    <3>1. NFlds[heap[o].t] \in Nat /\ f \in Nat
      BY <1>2, SizesAssumption DEF Fld
    <3>2. ~(f > NFlds[heap[o].t])
      BY <1>1, <3>1
    <3> QED
      BY <1>2, <3>2 DEF Sound, Unused
  <2> QED
    BY <1>4, <1>5, <2>1 DEF Unused
<1> QED
  BY <1>6, <1>7, <1>8, <1>9, <1>10 DEF IInv, Sound

---------------------------------------------------------------------------
(* Every step of the specification preserves the invariant.                *)
LEMMA NextIInv == IInv /\ [Next]_vars => IInv'
<1> SUFFICES ASSUME IInv, [Next]_vars PROVE IInv'
  OBVIOUS
<1>1. CASE Program
  <2>1. PICK x \in Root :
          \/ \E k \in Kind : Malloc(x, k) \/ StartScavenge(x, k)
          \/ \E v \in Slots : Assign(x, v)
          \/ \E y \in Root, f \in Fld : Load(x, y, f)
          \/ \E f \in Fld, v \in Slots : Store(x, f, v)
    BY <1>1 DEF Program
  <2> QED
    BY <2>1, MallocIInv, StartScavengeIInv, AssignIInv, LoadIInv, StoreIInv
<1>2. CASE Retry
  BY <1>2, RetryIInv
<1>3. CASE Scavenge
  BY <1>3, CopyRootIInv, SkipRootIInv, ScanObjIInv, CopyFieldIInv, SkipFieldIInv,
     ToSpaceFullIInv, EndScavengeIInv DEF Scavenge
<1>4. CASE UNCHANGED vars
  <2>1. /\ heap' = heap /\ to' = to /\ free' = free /\ scan' = scan /\ obj' = obj
        /\ fld' = fld /\ root' = root /\ next' = next /\ phase' = phase /\ req' = req
        /\ lastId' = lastId
    BY <1>4 DEF vars
  <2>2. ToObjs' = ToObjs /\ FromObjs' = FromObjs /\ Uncopied' = Uncopied
    BY <2>1 DEF ToObjs, FromObjs, Uncopied, IsObj, IsCopied, from
  <2>3. TypeOK' <=> TypeOK
    BY <2>1 DEF TypeOK
  <2>n. NoOverlap' <=> NoOverlap
    BY <2>1, <2>2 DEF NoOverlap, IsCopied
  <2>4. (RootsPoint /\ FieldsPoint /\ FromFieldsPoint /\ Forwarded /\ NoOverlap) =>
        (RootsPoint /\ FieldsPoint /\ FromFieldsPoint /\ Forwarded /\ NoOverlap)'
    BY <2>1, <2>2 DEF RootsPoint, FieldsPoint, Grey, FromFieldsPoint, Forwarded,
       NoOverlap, IsCopied
  <2>5. (Quiet /\ Requested /\ Walk /\ Identities /\ Unused) =>
        (Quiet /\ Requested /\ Walk /\ Identities /\ Unused)'
    BY <2>1, <2>2 DEF Quiet, Requested, Walk, Identities, Unused
  <2> QED
    BY <2>1, <2>3, <2>n, <2>4, <2>5 DEF IInv, Sound
<1> QED
  BY <1>1, <1>2, <1>3, <1>4 DEF Next

(* The inductive invariant holds in every reachable state.                 *)
THEOREM Invariance == Spec => []IInv
<1>1. Init => IInv
  BY InitIInv
<1>2. IInv /\ [Next]_vars => IInv'
  BY NextIInv
<1> QED
  BY <1>1, <1>2, PTL DEF Spec

(* Every value the collector and the program leave in the memory, in a root*)
(* slot or in the collector's own variables is of its type.                *)
THEOREM TypeCorrect == Spec => []TypeOK
<1>1. IInv => TypeOK
  BY DEF IInv
<1> QED
  BY <1>1, Invariance, PTL

(* While gc_cheney_scavenge runs, whatever it has visited names an object  *)
(* of the to-space, whatever it has not visited names one of the           *)
(* from-space, and afterwards nothing names the from-space.                *)
THEOREM TriColourTheorem == Spec => []TriColour
<1>1. IInv => TriColour
  BY DEF IInv, Sound, TriColour
<1> QED
  BY <1>1, Invariance, PTL

(* The bump allocation and the padded copies of the scavenge never         *)
(* overwrite an object of the to-space.                                    *)
THEOREM NoOverlapTheorem == Spec => []NoOverlap
<1>1. IInv => NoOverlap
  BY DEF IInv
<1> QED
  BY <1>1, Invariance, PTL

---------------------------------------------------------------------------
(* The scavenge ends.                                                      *)

(* One step further costs more than the fields of an object.               *)
LEMMA Passed ==
  ASSUME NEW m \in Nat, NEW a \in Nat, NEW b \in Nat, b < a
  PROVE  a * m \in Nat /\ b * m \in Nat /\ b * m + m <= a * m
<1>1. PICK d \in Nat : a = b + 1 + d
  <2>1. a - b - 1 \in Nat /\ a = b + 1 + (a - b - 1)
    OBVIOUS
  <2> QED
    BY <2>1
<1>2. a * m = b * m + m + d * m
  BY <1>1
<1>3. d * m \in Nat /\ b * m \in Nat
  BY <1>1
<1> QED
  BY <1>2, <1>3

(* The three terms of the bound are natural numbers.                       *)
LEMMA Counted ==
  ASSUME NEW n \in 1..(NRoot + 1), NEW f \in 1..(MaxFld + 1),
         NEW t \in {0, SegSize}, NEW s \in t..(t + SegSize)
  PROVE  /\ NRoot + 1 - n \in Nat
         /\ t + SegSize - s \in Nat
         /\ MaxFld + 1 - f \in 0..MaxFld
<1>1. NRoot \in Nat /\ SegSize \in Nat /\ MaxFld \in Nat
  BY SizesAssumption
<1>2. NRoot + 1 - n \in Nat
  BY <1>1
<1>3. t + SegSize - s \in Nat
  BY <1>1
<1>4. MaxFld + 1 - f \in 0..MaxFld
  BY <1>1
<1> QED
  BY <1>2, <1>3, <1>4

(* A scavenge takes at most as many steps as there are root slots, cells of*)
(* a segment and fields to go with each: every step counts the bound down, *)
(* whatever is copied meanwhile.                                           *)
THEOREM ScavengeEnds == Spec => ScavengeAdvances
<1>1. ASSUME IInv, IInv', [Next]_vars, phase = "gc", phase' = "gc", vars' # vars
      PROVE  StepsLeft' \in 0..(StepsLeft - 1)
  <2>0. NRoot \in Nat /\ SegSize \in Nat /\ MaxFld \in Nat
    BY SizesAssumption
  <2>a. TypeOK /\ TypeOK'
    BY <1>1 DEF IInv
  <2>1. PICK r \in Nat, c \in Nat, e \in 0..MaxFld :
          /\ r = NRoot + 1 - next /\ c = to + SegSize - scan
          /\ e = (IF obj = NIL THEN 0 ELSE MaxFld + 1 - fld)
    <3>1. /\ next \in 1..(NRoot + 1) /\ fld \in 1..(MaxFld + 1)
          /\ to \in {0, SegSize} /\ scan \in to..(to + SegSize)
      BY <2>a DEF TypeOK
    <3>2. /\ NRoot + 1 - next \in Nat /\ to + SegSize - scan \in Nat
          /\ MaxFld + 1 - fld \in 0..MaxFld
      BY <3>1, Counted
    <3>3. (IF obj = NIL THEN 0 ELSE MaxFld + 1 - fld) \in 0..MaxFld
      BY <2>0, <3>2
    <3> QED
      BY <3>2, <3>3
  <2>2. PICK r1 \in Nat, c1 \in Nat, e1 \in 0..MaxFld :
          /\ r1 = NRoot + 1 - next' /\ c1 = to' + SegSize - scan'
          /\ e1 = (IF obj' = NIL THEN 0 ELSE MaxFld + 1 - fld')
    <3>1. /\ next' \in 1..(NRoot + 1) /\ fld' \in 1..(MaxFld + 1)
          /\ to' \in {0, SegSize} /\ scan' \in to'..(to' + SegSize)
      BY <2>a DEF TypeOK
    <3>2. /\ NRoot + 1 - next' \in Nat /\ to' + SegSize - scan' \in Nat
          /\ MaxFld + 1 - fld' \in 0..MaxFld
      BY <3>1, Counted
    <3>3. (IF obj' = NIL THEN 0 ELSE MaxFld + 1 - fld') \in 0..MaxFld
      BY <2>0, <3>2
    <3> QED
      BY <3>2, <3>3
  <2>3. c * (MaxFld + 1) \in Nat /\ c1 * (MaxFld + 1) \in Nat
    BY <2>0
  <2>4. PICK m \in Nat, m1 \in Nat : m = c * (MaxFld + 1) /\ m1 = c1 * (MaxFld + 1)
    BY <2>3
  <2>5. StepsLeft = r + m + e /\ StepsLeft' = r1 + m1 + e1
    BY <2>1, <2>2, <2>4 DEF StepsLeft
  <2>6. next \in Nat /\ next' \in Nat /\ fld \in Nat /\ scan \in Nat /\ to \in Nat
    <3>1. next \in 1..(NRoot + 1) /\ next' \in 1..(NRoot + 1) /\ fld \in 1..(MaxFld + 1)
          /\ to \in {0, SegSize} /\ scan \in to..(to + SegSize)
      BY <2>a DEF TypeOK
    <3>2. to \in Nat
      BY <3>1, <2>0
    <3> QED
      BY <2>0, <3>1, <3>2
  <2>7. CASE CopyRoot \/ SkipRoot
    <3>1. next' = next + 1 /\ to' = to /\ scan' = scan /\ obj' = obj /\ fld' = fld
      BY <2>7 DEF CopyRoot, SkipRoot
    <3>2. c1 = c /\ e1 = e
      BY <2>1, <2>2, <3>1
    <3>3. r1 = r - 1
      BY <2>0, <2>1, <2>2, <2>6, <3>1
    <3>4. m1 = m
      BY <2>4, <3>2
    <3>5. r1 + m1 + e1 \in 0..(r + m + e - 1)
      BY <2>0, <3>2, <3>3, <3>4
    <3> QED
      BY <2>5, <3>5
  <2>8. CASE ScanObj
    <3>0. next' = next /\ to' = to /\ scan' = scan + CopySize[heap[scan].t] /\ scan < free
      BY <2>8 DEF ScanObj
    <3>1. scan \in ToObjs
      <4>1. scan \in ToObjs \cup {free} /\ free \in Nat
        BY <1>1, <2>0, <2>a DEF IInv, Sound, Walk, TypeOK
      <4> QED
        BY <2>6, <3>0, <4>1
    <3>2. heap[scan].t \in Kind
      <4>1. heap[scan] \in Obj /\ ~IsCopied(scan)
        BY <1>1, <2>a, <3>1 DEF IInv, NoOverlap, TypeOK, ToObjs, IsObj
      <4> QED
        BY <4>1 DEF IsCopied, Obj
    <3>3. PICK k \in Nat : k = CopySize[heap[scan].t] /\ k >= 1
      BY <3>2, SizesAssumption, PaddingAssumption
    <3>4. r1 = r
      BY <2>1, <2>2, <3>0
    <3>5. c1 < c
      BY <2>0, <2>1, <2>2, <2>6, <3>0, <3>3
    <3>6. m1 + (MaxFld + 1) <= m
      BY <2>0, <2>4, <3>5, Passed
    <3>7. r1 + m1 + e1 \in 0..(r + m + e - 1)
      BY <2>0, <3>4, <3>6
    <3> QED
      BY <2>5, <3>7
  <2>9. CASE CopyField \/ SkipField
    <3>1. next' = next /\ to' = to /\ scan' = scan /\ obj' = obj /\ obj # NIL /\ fld' = fld + 1
      BY <2>9 DEF CopyField, SkipField, Scanning
    <3>2. r1 = r /\ c1 = c
      BY <2>1, <2>2, <3>1
    <3>3. e1 = e - 1
      BY <2>0, <2>1, <2>2, <2>6, <3>1
    <3>4. m1 = m
      BY <2>4, <3>2
    <3>5. r1 + m1 + e1 \in 0..(r + m + e - 1)
      BY <2>0, <3>2, <3>3, <3>4
    <3> QED
      BY <2>5, <3>5
  <2>10. ~ToSpaceFull /\ ~EndScavenge /\ ~Retry /\ ~Program
    BY <1>1 DEF ToSpaceFull, EndScavenge, Retry, Program, Malloc, StartScavenge, Assign, Load, Store
  <2> QED
    BY <1>1, <2>7, <2>8, <2>9, <2>10 DEF Next, Scavenge
<1>2. IInv /\ IInv' /\ [Next]_vars =>
        [phase = "gc" /\ phase' = "gc" => StepsLeft' \in 0..(StepsLeft - 1)]_vars
  BY <1>1
<1> QED
  BY <1>2, Invariance, PTL DEF Spec, ScavengeAdvances

---------------------------------------------------------------------------
(* From the inductive invariant: a scavenge keeps nothing but what the     *)
(* program can reach, and the program cannot tell the collector from a heap*)
(* in which objects never move.                                            *)

(* Every object of the to-space was copied because a visited root or a     *)
(* visited field names it: a set of them that holds what those name is all *)
(* of them.  At the end of the scavenge every slot is visited.             *)
VisitedRoot(x) == phase = "gc" => x < next

ClosedSoFar(S) ==
  /\ \A x \in Root : VisitedRoot(x) => root[x] \in S \cup {NIL}
  /\ \A a \in S, f \in Fld : ~Grey(a, f) => heap[a].flds[f] \in S \cup {NIL}

Reached ==
  phase \in {"gc", "retry"} => \A S \in SUBSET ToObjs : ClosedSoFar(S) => S = ToObjs

---------------------------------------------------------------------------
(* A copy that one more visited slot names is reached when the others are. *)
LEMMA ReachedGrows ==
  ASSUME NEW n, NEW S \in SUBSET (ToObjs \cup {n}), n \notin ToObjs, n \in S,
         \A T \in SUBSET ToObjs : ClosedSoFar(T) => T = ToObjs,
         ClosedSoFar(S \ {n})
  PROVE  S = ToObjs \cup {n}
  OBVIOUS

\* What copying an object that has not been copied yet does to the heap.
LEMMA CopyNew ==
  ASSUME IInv, phase = "gc", NEW a \in Uncopied, Fits(a)
  PROVE  LET E == Evacuated(a) IN
         /\ E[free] = heap[a] /\ E[a] = Mark(heap[a])
         /\ \A c \in Cell \ {a, free} : E[c] = heap[c]
         /\ E \in [Cell -> Obj \cup {FREE}]
         /\ heap[free] = FREE /\ heap[a] \in Obj /\ heap[a] # FREE /\ E[a] # FREE
         /\ E[a].t = KEK_COPIED
         /\ a \in Cell /\ free \in Cell /\ InSegment(free, to)
         /\ a \notin ToObjs /\ free \notin ToObjs /\ free \notin FromObjs
         /\ Forward(a) = free /\ free # NIL
<1> DEFINE E == Evacuated(a)
<1>1. /\ free \in Cell /\ free # a /\ heap[free] = FREE /\ InSegment(free, to)
      /\ heap[a].t \in Kind
      /\ E \in [Cell -> Obj \cup {FREE}]
      /\ E[free] = heap[a] /\ E[a] = Mark(heap[a])
      /\ \A c \in Cell \ {a, free} : E[c] = heap[c]
  BY CopyFresh
<1>2. /\ a \in Cell /\ heap[a] # FREE /\ a \in FromObjs /\ ~IsCopied(a)
      /\ InSegment(a, from) /\ to \in {0, SegSize} /\ heap \in [Cell -> Obj \cup {FREE}]
  BY DEF Uncopied, FromObjs, IsObj, IInv, TypeOK
<1>3. heap[a] \in Obj
  BY <1>2
<1>4. Mark(heap[a]) \in Obj /\ Mark(heap[a]).t = KEK_COPIED
  BY <1>1, <1>3 DEF Mark, Obj, Ref
<1>5. E[a] # FREE /\ E[a].t = KEK_COPIED
  BY <1>1, <1>4, ValuesAssumption
<1>6. a \notin ToObjs
  BY <1>2, Segments DEF ToObjs
<1>7. free \notin ToObjs /\ free \notin FromObjs
  BY <1>1 DEF ToObjs, FromObjs, IsObj
<1>8. Forward(a) = free /\ free # NIL
  BY <1>1, <1>2, ValuesAssumption, SizesAssumption DEF Forward, Cell
<1> QED
  BY <1>1, <1>2, <1>3, <1>5, <1>6, <1>7, <1>8

LEMMA CopyRootReached == IInv /\ Reached /\ CopyRoot => Reached'
<1> SUFFICES ASSUME IInv, Reached, CopyRoot PROVE Reached'
  OBVIOUS
<1> DEFINE a == root[next]
<1>1. /\ TypeOK /\ Sound /\ phase = "gc" /\ next \in Root /\ next \in Nat
      /\ next' = next + 1 /\ scan' = scan /\ obj' = obj /\ fld' = fld /\ to' = to
      /\ heap' = Evacuated(a) /\ root' = [root EXCEPT ![next] = Forward(a)]
      /\ a # NIL /\ Fits(a) /\ a \in FromObjs
      /\ root \in [Root -> Ref]
  BY SizesAssumption DEF CopyRoot, IInv, Sound, RootsPoint, TypeOK, Root
<1>2. /\ \A x \in Root : x < next' => x < next \/ x = next
      /\ \A x \in Root : x < next => x < next'
      /\ \A x \in Root : x < next => root'[x] = root[x] /\ root[x] \in ToObjs \cup {NIL}
      /\ root'[next] = Forward(a)
  BY <1>1, SizesAssumption DEF Root, Sound, RootsPoint
<1>3. phase' = "gc"
  BY <1>1, Segments DEF CopyRoot, FromObjs, TypeOK
<1>4. \A c \in ToObjs, f \in Fld : ~Grey(c, f) => heap[c].flds[f] \in ToObjs \cup {NIL}
  BY <1>1 DEF Sound, FieldsPoint
<1>5. SUFFICES ASSUME NEW S \in SUBSET (ToObjs'), ClosedSoFar(S)' PROVE S = ToObjs'
  BY DEF Reached
<1>6. /\ \A x \in Root : x < next => root[x] \in S \cup {NIL}
      /\ Forward(a) \in S \cup {NIL}
      /\ \A c \in S, f \in Fld : ~Grey(c, f) => heap'[c].flds[f] \in S \cup {NIL}
  BY <1>1, <1>2, <1>3, <1>5 DEF ClosedSoFar, VisitedRoot, Grey
<1>7. CASE IsCopied(a)
  <2>1. heap' = heap /\ ToObjs' = ToObjs
    BY <1>1, <1>7, CopyAgain DEF ToObjs, IsObj
  <2>2. ClosedSoFar(S)
    BY <1>1, <1>6, <2>1 DEF ClosedSoFar, VisitedRoot
  <2> QED
    BY <1>1, <1>5, <2>1, <2>2 DEF Reached
<1>8. CASE ~IsCopied(a)
  <2> DEFINE n == free
  <2>1. a \in Uncopied
    BY <1>1, <1>8 DEF Uncopied
  <2>2. /\ heap'[n] = heap[a] /\ \A c \in Cell \ {a, n} : heap'[c] = heap[c]
        /\ heap[a] # FREE /\ heap'[a] # FREE /\ a \notin ToObjs /\ n \notin ToObjs
        /\ n \in Cell /\ InSegment(n, to) /\ Forward(a) = n /\ n # NIL
    BY <1>1, <2>1, CopyNew
  <2>3. n \notin ToObjs
    BY <2>2
  <2>4. ToObjs' = ToObjs \cup {n}
    BY <1>1, <2>1, <2>2, <2>3 DEF ToObjs, IsObj
  <2>5. Forward(a) = n /\ n # NIL
    BY <2>2
  <2>6. \A c \in ToObjs : heap'[c] = heap[c] /\ c # n
    BY <2>2, <2>3 DEF ToObjs
  <2>7. ClosedSoFar(S \ {n})
    <3>1. \A x \in Root : x < next => root[x] \in (S \ {n}) \cup {NIL}
      BY <1>2, <1>6, <2>3, <2>5
    <3>2. \A c \in S \ {n} : c \in ToObjs
      BY <1>5, <2>4
    <3>3. \A c \in S \ {n}, f \in Fld :
             ~Grey(c, f) => heap[c].flds[f] \in (S \ {n}) \cup {NIL}
      BY <1>4, <1>6, <2>3, <2>6, <3>2
    <3> QED
      BY <1>1, <3>1, <3>3 DEF ClosedSoFar, VisitedRoot
  <2> QED
    BY <1>1, <1>5, <1>6, <2>3, <2>4, <2>5, <2>7, ReachedGrows DEF Reached
<1> QED
  BY <1>7, <1>8

LEMMA CopyFieldReached == IInv /\ Reached /\ CopyField => Reached'
<1> SUFFICES ASSUME IInv, Reached, CopyField PROVE Reached'
  OBVIOUS
<1> DEFINE a == heap[obj].flds[fld]
<1>1. /\ TypeOK /\ Sound /\ phase = "gc" /\ next \notin Root /\ Scanning
      /\ obj \in ToObjs /\ obj \in Cell /\ heap[obj] \in Obj /\ fld \in Fld
      /\ a # NIL /\ Fits(a) /\ a \in FromObjs
      /\ fld' = fld + 1 /\ scan' = scan /\ obj' = obj /\ to' = to /\ next' = next
      /\ root' = root /\ phase' = phase
      /\ heap' = [Evacuated(a) EXCEPT ![obj] = PutField(@, fld, Forward(a))]
  BY AtField DEF CopyField
<1>2. /\ \A c \in ToObjs', f \in Fld : ~Grey(c, f) => ~Grey(c, f)'
      /\ \A c, f : c = obj /\ f = fld => ~Grey(c, f)'
  <2>1. obj < scan /\ obj \in Nat /\ scan \in Nat /\ fld \in Nat
    BY <1>1, AtField, SizesAssumption DEF TypeOK, Cell, Fld
  <2>2. \A f \in Fld : f >= fld + 1 => f >= fld
    BY <2>1, SizesAssumption DEF Fld
  <2>3. \A c, f : c = obj /\ f = fld => ~Grey(c, f)'
    BY <1>1, <2>1 DEF Grey
  <2> QED
    BY <1>1, <2>2, <2>3 DEF Grey
<1>3. \A c \in ToObjs, f \in Fld : ~Grey(c, f) => heap[c].flds[f] \in ToObjs \cup {NIL}
  BY <1>1 DEF Sound, FieldsPoint
<1>4. \A x \in Root : VisitedRoot(x) => root[x] \in ToObjs \cup {NIL}
  <2>1. \A x \in Root : ~(x >= next)
    BY <1>1, SizesAssumption DEF TypeOK, Root
  <2> QED
    BY <1>1, <2>1 DEF Sound, RootsPoint
<1>5. Grey(obj, fld)
  BY <1>1 DEF Grey, TypeOK
<1>6. SUFFICES ASSUME NEW S \in SUBSET (ToObjs'), ClosedSoFar(S)' PROVE S = ToObjs'
  BY DEF Reached
<1>7. /\ \A x \in Root : VisitedRoot(x) => root[x] \in S \cup {NIL}
      /\ \A c \in S, f \in Fld : ~Grey(c, f) => heap'[c].flds[f] \in S \cup {NIL}
      /\ obj \in S => heap'[obj].flds[fld] \in S \cup {NIL}
  BY <1>1, <1>2, <1>6 DEF ClosedSoFar, VisitedRoot
\* The object being scanned differs in the field that was grey.
<1>8. ASSUME NEW E, E = Evacuated(a), E[obj] = heap[obj], E \in [Cell -> Obj \cup {FREE}]
      PROVE  /\ heap'[obj].flds = [heap[obj].flds EXCEPT ![fld] = Forward(a)]
             /\ heap'[obj] # FREE
             /\ \A c \in Cell \ {obj} : heap'[c] = E[c]
  <2>1. /\ heap'[obj] = PutField(heap[obj], fld, Forward(a))
        /\ \A c \in Cell \ {obj} : heap'[c] = E[c]
    BY <1>1, <1>8
  <2>2. Forward(a) \in Ref
    BY <1>1, SizesAssumption, CopyAgain, CopyNew DEF Uncopied, ToObjs, Ref, IInv, Forward
  <2>3. PutField(heap[obj], fld, Forward(a)) \in Obj
    BY <1>1, <2>2 DEF PutField, Obj
  <2> QED
    BY <2>1, <2>3, ValuesAssumption DEF PutField
<1>9. CASE IsCopied(a)
  <2>1. Evacuated(a) = heap /\ Forward(a) \in ToObjs
    BY <1>1, <1>9, CopyAgain
  <2>2. /\ heap'[obj].flds = [heap[obj].flds EXCEPT ![fld] = Forward(a)]
        /\ heap'[obj] # FREE
        /\ \A c \in Cell \ {obj} : heap'[c] = heap[c]
    BY <1>1, <1>8, <2>1 DEF TypeOK
  <2>3. ToObjs' = ToObjs
    BY <1>1, <2>2 DEF ToObjs, IsObj
  <2>4. ASSUME NEW c \in S, NEW f \in Fld, ~Grey(c, f)
        PROVE  heap[c].flds[f] \in S \cup {NIL}
    <3>1. c \in Cell
      BY <1>6, <2>3 DEF ToObjs
    <3>2. CASE c # obj
      BY <1>7, <2>2, <2>4, <3>1, <3>2
    <3>3. CASE c = obj
      <4>1. f # fld
        BY <1>5, <2>4, <3>3
      <4>2. heap'[obj].flds[f] = heap[obj].flds[f]
        BY <1>1, <2>2, <4>1 DEF Obj
      <4> QED
        BY <1>7, <2>4, <3>3, <4>2
    <3> QED
      BY <3>2, <3>3
  <2>5. ClosedSoFar(S)
    BY <1>7, <2>4 DEF ClosedSoFar
  <2> QED
    BY <1>1, <1>6, <2>3, <2>5 DEF Reached
<1>10. CASE ~IsCopied(a)
  <2> DEFINE n == free
  <2>1. a \in Uncopied
    BY <1>1, <1>10 DEF Uncopied
  <2> DEFINE E == Evacuated(a)
  <2>2. /\ E[n] = heap[a] /\ \A c \in Cell \ {a, n} : E[c] = heap[c]
        /\ E \in [Cell -> Obj \cup {FREE}]
        /\ heap[a] # FREE /\ E[a] # FREE /\ a \notin ToObjs /\ n \notin ToObjs
        /\ a \in Cell /\ n \in Cell /\ InSegment(n, to) /\ Forward(a) = n /\ n # NIL
    BY <1>1, <2>1, CopyNew
  <2>3. obj # a /\ obj # n
    BY <1>1, <2>2
  <2>4. /\ heap'[obj].flds = [heap[obj].flds EXCEPT ![fld] = n]
        /\ heap'[obj] # FREE
        /\ \A c \in Cell \ {obj} : heap'[c] = E[c]
    BY <1>1, <1>8, <2>2, <2>3
  <2>5. ToObjs' = ToObjs \cup {n}
    <3>1. /\ \A c \in Cell \ {a, n} : heap'[c] # FREE <=> heap[c] # FREE
          /\ heap'[n] # FREE /\ heap[a] # FREE /\ heap'[a] # FREE
      BY <1>1, <2>2, <2>3, <2>4 DEF ToObjs, IsObj
    <3> QED
      BY <1>1, <2>2, <3>1 DEF ToObjs, IsObj
  <2>6. ASSUME NEW c \in S \ {n}, NEW f \in Fld, ~Grey(c, f)
        PROVE  heap[c].flds[f] \in (S \ {n}) \cup {NIL}
    <3>1. c \in ToObjs /\ c \in Cell /\ c # a /\ c # n
      BY <1>6, <2>2, <2>5 DEF ToObjs
    <3>2. heap'[c].flds[f] = heap[c].flds[f]
      <4>1. CASE c # obj
        BY <2>2, <2>4, <3>1, <4>1
      <4>2. CASE c = obj
        <5>1. f # fld
          BY <1>5, <2>6, <4>2
        <5> QED
          BY <1>1, <2>4, <4>2, <5>1 DEF Obj
      <4> QED
        BY <4>1, <4>2
    <3>3. heap[c].flds[f] \in S \cup {NIL}
      BY <1>7, <2>6, <3>2
    <3>4. heap[c].flds[f] # n
      BY <1>3, <2>2, <2>6, <3>1
    <3> QED
      BY <3>3, <3>4
  <2>7. \A x \in Root : VisitedRoot(x) => root[x] \in (S \ {n}) \cup {NIL}
    BY <1>4, <1>7, <2>2
  <2>8. ClosedSoFar(S \ {n})
    BY <2>6, <2>7 DEF ClosedSoFar
  <2>9. S \ {n} = ToObjs
    BY <1>1, <1>6, <2>5, <2>8 DEF Reached
  <2>10. n \in S
    <3>1. heap'[obj].flds[fld] = n
      BY <1>1, <2>4 DEF Obj
    <3> QED
      BY <1>1, <1>7, <2>2, <2>9, <3>1
  <2> QED
    BY <2>5, <2>9, <2>10
<1> QED
  BY <1>9, <1>10

\* A step that moves no object and makes no slot visited but empty ones.
LEMMA SameReached ==
  ASSUME Reached, phase \in {"gc", "retry"}, ToObjs' = ToObjs, root' = root,
         \A a \in ToObjs : heap'[a] = heap[a],
         \A x \in Root : VisitedRoot(x) /\ root[x] # NIL => VisitedRoot(x)',
         \A a \in ToObjs, f \in Fld :
           ~Grey(a, f) /\ heap[a].flds[f] # NIL => ~Grey(a, f)'
  PROVE  Reached'
<1>1. SUFFICES ASSUME NEW S \in SUBSET ToObjs, ClosedSoFar(S)' PROVE ClosedSoFar(S)
  BY DEF Reached
<1>2. \A x \in Root : VisitedRoot(x) => root[x] \in S \cup {NIL}
  BY <1>1 DEF ClosedSoFar
<1>3. \A a \in S, f \in Fld : ~Grey(a, f) => heap[a].flds[f] \in S \cup {NIL}
  BY <1>1 DEF ClosedSoFar
<1> QED
  BY <1>2, <1>3 DEF ClosedSoFar

LEMMA SkipRootReached == IInv /\ Reached /\ SkipRoot => Reached'
<1> SUFFICES ASSUME IInv, Reached, SkipRoot PROVE Reached'
  OBVIOUS
<1>1. /\ phase = "gc" /\ phase' = phase /\ next \in Root /\ next' = next + 1
      /\ heap' = heap /\ to' = to /\ scan' = scan /\ obj' = obj /\ fld' = fld /\ root' = root
  BY DEF SkipRoot
<1>2. ToObjs' = ToObjs /\ \A a, f : Grey(a, f)' = Grey(a, f)
  BY <1>1 DEF ToObjs, IsObj, Grey
<1>3. \A x \in Root : VisitedRoot(x) => VisitedRoot(x)'
  BY <1>1, SizesAssumption DEF VisitedRoot, Root
<1> QED
  BY <1>1, <1>2, <1>3, SameReached

LEMMA SkipFieldReached == IInv /\ Reached /\ SkipField => Reached'
<1> SUFFICES ASSUME IInv, Reached, SkipField PROVE Reached'
  OBVIOUS
<1>1. /\ phase = "gc" /\ phase' = phase /\ next' = next /\ heap[obj].flds[fld] = NIL
      /\ heap' = heap /\ to' = to /\ scan' = scan /\ obj' = obj /\ fld' = fld + 1
      /\ root' = root /\ fld \in Nat
  BY SizesAssumption DEF SkipField, IInv, TypeOK
<1>2. ToObjs' = ToObjs
  BY <1>1 DEF ToObjs, IsObj
<1>3. \A a \in ToObjs, f \in Fld : ~Grey(a, f) => ~Grey(a, f)'
  <2>1. \A f \in Fld : f >= fld + 1 => f >= fld
    BY <1>1, SizesAssumption DEF Fld
  <2> QED
    BY <1>1, <2>1 DEF Grey
<1> QED
  BY <1>1, <1>2, <1>3, SameReached DEF VisitedRoot

\* What the object being scanned has left behind is NIL, and no object starts
\* inside the one that is scanned next.
LEMMA ScanObjReached == IInv /\ Reached /\ ScanObj => Reached'
<1> SUFFICES ASSUME IInv, Reached, ScanObj PROVE Reached'
  OBVIOUS
<1>1. /\ phase = "gc" /\ phase' = phase /\ next \notin Root /\ ~Scanning /\ next' = next
      /\ heap' = heap /\ to' = to /\ obj' = scan /\ fld' = 1 /\ root' = root
      /\ scan' = scan + CopySize[heap[scan].t] /\ scan < free
      /\ TypeOK /\ Sound
  BY DEF ScanObj, IInv
<1>2. ToObjs' = ToObjs
  BY <1>1 DEF ToObjs, IsObj
<1>3. /\ scan \in ToObjs /\ scan \in Nat /\ heap[scan].t \in Kind
      /\ \A a \in ToObjs : a \in Nat
  BY <1>1, SizesAssumption DEF Sound, Walk, TypeOK, ToObjs, IsObj, NoOverlap, IsCopied,
     Obj, Cell
<1>4. CopySize[heap[scan].t] \in Nat
  BY <1>3, SizesAssumption
<1>5. \A a \in ToObjs : a >= scan' \/ a = scan => a >= scan
  BY <1>1, <1>3, <1>4
<1>6. \A a \in ToObjs, f \in Fld : Grey(a, f)' => a >= scan
  BY <1>1, <1>5 DEF Grey
<1>7. \A a \in ToObjs, f \in Fld : a >= scan => Grey(a, f)
  BY <1>1 DEF Grey
<1> QED
  BY <1>1, <1>2, <1>6, <1>7, SameReached DEF VisitedRoot

LEMMA EndScavengeReached == IInv /\ Reached /\ EndScavenge => Reached'
<1> SUFFICES ASSUME IInv, Reached, EndScavenge PROVE Reached'
  OBVIOUS
<1>1. /\ phase = "gc" /\ phase' = "retry" /\ next \notin Root /\ to' = to /\ root' = root
      /\ heap' = [a \in Cell |-> IF InSegment(a, from) THEN FREE ELSE heap[a]]
      /\ TypeOK
  BY DEF EndScavenge, IInv
<1>2. \A a \in ToObjs : heap'[a] = heap[a]
  BY <1>1, Segments DEF ToObjs, TypeOK
<1>3. ToObjs' = ToObjs
  BY <1>1, Segments DEF ToObjs, IsObj, TypeOK
<1>4. \A a, f : ~Grey(a, f)'
  BY <1>1 DEF Grey
<1>5. \A x \in Root : VisitedRoot(x)'
  BY <1>1 DEF VisitedRoot
<1> QED
  BY <1>1, <1>2, <1>3, <1>4, <1>5, SameReached

\* A scavenge starts with an empty to-space.
LEMMA StartScavengeReached ==
  ASSUME IInv, NEW x \in Root, NEW k \in Kind, StartScavenge(x, k)
  PROVE  Reached'
<1>1. /\ phase = "run" /\ to' = from /\ heap' = heap
      /\ FromObjs = {}
  BY AtRest DEF StartScavenge
<1>2. ToObjs' = {}
  BY <1>1 DEF ToObjs, FromObjs, IsObj
<1> QED
  BY <1>2 DEF Reached

LEMMA NextReached == IInv /\ Reached /\ [Next]_vars => Reached'
<1> SUFFICES ASSUME IInv, Reached, [Next]_vars PROVE Reached'
  OBVIOUS
<1>1. CASE Program
  <2>1. phase = "run"
    BY <1>1 DEF Program, Malloc, StartScavenge, Assign, Load, Store
  <2>2. ASSUME NEW x \in Root, NEW k \in Kind, StartScavenge(x, k) PROVE Reached'
    BY <2>2, StartScavengeReached
  <2>3. CASE phase' = phase
    BY <2>1, <2>3 DEF Reached
  <2> QED
    BY <1>1, <2>2, <2>3 DEF Program, Malloc, Assign, Load, Store
<1>2. CASE Retry
  BY <1>2 DEF Retry, Reached
<1>3. CASE ToSpaceFull
  BY <1>3 DEF ToSpaceFull, Reached
<1>4. CASE UNCHANGED vars
  BY <1>4 DEF vars, Reached, ClosedSoFar, VisitedRoot, Grey, ToObjs, IsObj
<1> QED
  BY <1>1, <1>2, <1>3, <1>4, CopyRootReached, CopyFieldReached, SkipRootReached,
     SkipFieldReached, ScanObjReached, EndScavengeReached DEF Next, Scavenge

(* When gc_cheney_scavenge is done, the to-space holds no object but those *)
(* the program can reach from its roots: every set of objects that holds   *)
(* what the roots name and is closed under fields is all of it.            *)
THEOREM NoGarbage == Spec => []KeepsNoGarbage
<1>1. Init => Reached
  BY DEF Init, Reached
<1>2. Reached => KeepsNoGarbage
  BY DEF Reached, KeepsNoGarbage, ClosedSet, ClosedSoFar, VisitedRoot
<1> QED
  BY Invariance, NextReached, <1>1, <1>2, PTL DEF Spec

---------------------------------------------------------------------------
(* The heap as the program sees it, as a function of the memory.           *)
IdIn(h, v) == IF v = NIL THEN NIL ELSE h[v].id
ObjIn(h, a) == [id |-> h[a].id, t |-> h[a].t,
                flds |-> [f \in Fld |-> IdIn(h, h[a].flds[f])]]

Objects == ToObjs \cup Uncopied
Graph == {AbsObj(a) : a \in Objects}
Hroot == [x \in Root |-> IdOf(root[x])]

LEMMA Seen ==
  /\ Graph = {ObjIn(heap, a) : a \in Objects}
  /\ Graph' = {ObjIn(heap', a) : a \in Objects'}
  /\ Hroot = [x \in Root |-> IdIn(heap, root[x])]
  /\ Hroot' = [x \in Root |-> IdIn(heap', root'[x])]
<1>1. \A a : AbsObj(a) = ObjIn(heap, a) /\ AbsObj(a)' = ObjIn(heap', a)
  BY DEF AbsObj, ObjIn, IdOf, IdIn
<1>2. \A v : IdOf(v) = IdIn(heap, v) /\ IdOf(v)' = IdIn(heap', v)
  BY DEF IdOf, IdIn
<1> QED
  BY <1>1, <1>2 DEF Graph, Hroot

\* What the invariant says of every object, and of every slot.
LEMMA ObjectFacts ==
  ASSUME IInv, phase # "error"
  PROVE  /\ TypeOK /\ Sound
         /\ \A a \in Objects : /\ a \in Cell /\ a # NIL /\ heap[a] \in Obj
                               /\ heap[a].t \in Kind /\ heap[a].id \in Id
         /\ \A a, b \in Objects : heap[a].id = heap[b].id => a = b
         /\ \A x \in Root : root[x] \in {NIL} \cup ToObjs \cup FromObjs
         /\ \A a \in Objects, f \in Fld :
              heap[a].flds[f] \in {NIL} \cup ToObjs \cup FromObjs
<1>1. TypeOK /\ Sound
  BY DEF IInv
<1>2. \A a \in Objects : a \in Cell /\ heap[a] \in Obj /\ heap[a].t # KEK_COPIED
  BY <1>1 DEF Objects, ToObjs, Uncopied, FromObjs, IsObj, IsCopied, TypeOK, Sound, NoOverlap
<1>3. \A a \in Objects : a # NIL /\ heap[a].t \in Kind /\ heap[a].id \in Id
  BY <1>2, ValuesAssumption, SizesAssumption DEF Obj, Cell
<1>4. \A a, b \in Objects : heap[a].id = heap[b].id => a = b
  BY <1>1 DEF Objects, Sound, Identities
<1>5. /\ \A x \in Root : root[x] \in {NIL} \cup ToObjs \cup FromObjs
      /\ \A a \in Objects, f \in Fld :
           heap[a].flds[f] \in {NIL} \cup ToObjs \cup FromObjs
  BY <1>1 DEF Objects, Sound, RootsPoint, FieldsPoint, FromFieldsPoint
<1> QED
  BY <1>1, <1>2, <1>3, <1>4, <1>5

\* An object that moves, or does not, stays the object it is as long as its
\* fields name the same objects.
LEMMA SameObject ==
  ASSUME NEW h, NEW k, NEW a, NEW b, k[b].t = h[a].t, k[b].id = h[a].id,
         \A f \in Fld : IdIn(k, k[b].flds[f]) = IdIn(h, h[a].flds[f])
  PROVE  ObjIn(k, b) = ObjIn(h, a)
  BY DEF ObjIn

LEMMA SameHeap ==
  ASSUME UNCHANGED <<heap, root>>, Objects' = Objects
  PROVE  Graph' = Graph /\ Hroot' = Hroot
  BY Seen

\* The identities of the objects are those of the heap.
LEMMA GraphIds == H!Ids(Graph) = {heap[a].id : a \in Objects}
<1>1. \A a : AbsObj(a).id = heap[a].id
  BY DEF AbsObj
<1> QED
  BY <1>1 DEF H!Ids, Graph

LEMMA NamedObject ==
  ASSUME IInv, phase = "run", NEW x \in Root, root[x] # NIL
  PROVE  root[x] \in ToObjs /\ ObjIn(heap, root[x]) \in H!Named(x)
<1>1. root[x] \in ToObjs /\ Hroot[x] = heap[root[x]].id
  BY AtRest DEF Hroot, IdOf
<1>2. ObjIn(heap, root[x]) \in Graph /\ ObjIn(heap, root[x]).id = Hroot[x]
  BY <1>1, Seen DEF Objects, ObjIn
<1>3. H!Named(x) = {o \in Graph : o.id = Hroot[x]}
  BY DEF H!Named, Graph, Hroot, Objects
<1> QED
  BY <1>1, <1>2, <1>3

---------------------------------------------------------------------------
(* Steps of the program.                                                   *)
LEMMA BumpHeap ==
  ASSUME IInv, phase \in {"run", "retry"}, NEW x \in Root, NEW k \in Kind,
         lastId < MaxId, CanMalloc(AllocSize[k]), Bump(x, k), to' = to
  PROVE  H!HeapNext
<1>1. /\ TypeOK /\ Sound /\ phase # "gc" /\ phase # "error"
      /\ FromObjs = {} /\ Uncopied = {}
      /\ \A y \in Root : root[y] \in ToObjs \cup {NIL}
      /\ \A a \in ToObjs, f \in Fld : heap[a].flds[f] \in ToObjs \cup {NIL}
  BY AtRest
<1>2. free \in Cell /\ InSegment(free, to) /\ free # NIL
  BY <1>1, SizesAssumption, PaddingAssumption, ValuesAssumption
  DEF CanMalloc, TypeOK, Cell, InSegment
<1>3. NewObj(k) \in Obj /\ lastId + 1 \in Id
  BY <1>1, SizesAssumption DEF NewObj, Obj, Ref, Id, TypeOK
<1>4. /\ heap'[free] = NewObj(k) /\ heap'[free] # FREE
      /\ \A c \in Cell \ {free} : heap'[c] = heap[c]
  BY <1>1, <1>2, <1>3, ValuesAssumption DEF Bump, TypeOK
<1>5. free \notin ToObjs
  BY <1>1, <1>2, SizesAssumption
  DEF Sound, NoOverlap, ToObjs, IsObj, TypeOK, IsCopied, Obj
<1>6. Objects = ToObjs /\ Objects' = ToObjs \cup {free}
  <2>1. ToObjs' = ToObjs \cup {free}
    BY <1>2, <1>4 DEF ToObjs, IsObj
  <2>2. ~InSegment(free, from) /\ from' = from
    BY <1>1, <1>2, Segments DEF TypeOK, from
  <2>3. Uncopied' = {}
    BY <1>1, <1>4, <2>2 DEF FromObjs, Uncopied, IsObj
  <2> QED
    BY <1>1, <2>1, <2>3 DEF Objects
<1>7. \A v \in ToObjs \cup {NIL} : IdIn(heap', v) = IdIn(heap, v)
  BY <1>4, <1>5 DEF IdIn, ToObjs
<1>8. \A a \in ToObjs : ObjIn(heap', a) = ObjIn(heap, a)
  <2> SUFFICES ASSUME NEW a \in ToObjs PROVE ObjIn(heap', a) = ObjIn(heap, a)
    OBVIOUS
  <2>1. heap'[a] = heap[a]
    BY <1>4, <1>5 DEF ToObjs
  <2>2. \A f \in Fld : IdIn(heap', heap'[a].flds[f]) = IdIn(heap, heap[a].flds[f])
    BY <1>1, <1>7, <2>1
  <2> QED
    BY <2>1, <2>2, SameObject
<1> DEFINE o == [id |-> lastId + 1, t |-> k, flds |-> [f \in Fld |-> NIL]]
<1>9. ObjIn(heap', free) = o
  BY <1>4 DEF ObjIn, NewObj, IdIn
<1>10. Graph' = Graph \cup {o}
  <2>1. Graph' = {ObjIn(heap', a) : a \in ToObjs} \cup {ObjIn(heap', free)}
    BY <1>6, Seen
  <2>2. Graph = {ObjIn(heap, a) : a \in ToObjs}
    BY <1>6, Seen
  <2> QED
    BY <1>8, <1>9, <2>1, <2>2
<1>11. Hroot' = [Hroot EXCEPT ![x] = lastId + 1]
  <2>1. root' = [root EXCEPT ![x] = free] /\ root \in [Root -> Ref]
    BY <1>1 DEF Bump, TypeOK
  <2>2. IdIn(heap', free) = lastId + 1
    BY <1>2, <1>4 DEF IdIn, NewObj
  <2>3. \A y \in Root : IdIn(heap', root'[y])
                          = IF y = x THEN lastId + 1 ELSE IdIn(heap, root[y])
    BY <1>1, <1>7, <2>1, <2>2
  <2> QED
    BY <2>3, Seen
<1>12. lastId + 1 \in Id \ H!Ids(Graph)
  <2>1. \A a \in Objects : heap[a].id \in Nat /\ heap[a].id <= lastId
    BY <1>1, ObjectFacts, SizesAssumption DEF Sound, Identities, Objects, Id
  <2>2. lastId \in Nat
    BY <1>1, SizesAssumption DEF TypeOK
  <2>3. lastId + 1 \notin {heap[a].id : a \in Objects}
    BY <2>1, <2>2
  <2> QED
    BY <1>3, <2>3, GraphIds
<1>13. H!New(x, k)
  BY <1>10, <1>11, <1>12 DEF H!New, Graph, Hroot, Objects
<1> QED
  BY <1>13 DEF H!HeapNext

\* The program puts into a root slot what a slot or a field holds.
LEMMA SetRootHeap ==
  ASSUME IInv, NEW x \in Root, NEW v, root' = [root EXCEPT ![x] = v],
         UNCHANGED <<heap, to>>
  PROVE  Graph' = Graph /\ Hroot' = [Hroot EXCEPT ![x] = IdIn(heap, v)]
<1>1. Graph' = Graph
  BY Seen DEF Objects, ToObjs, Uncopied, FromObjs, IsObj, IsCopied, from
<1>2. root \in [Root -> Ref]
  BY DEF IInv, TypeOK
<1>3. \A y \in Root : IdIn(heap', root'[y])
                        = IF y = x THEN IdIn(heap, v) ELSE IdIn(heap, root[y])
  BY <1>2
<1> QED
  BY <1>1, <1>3, Seen

LEMMA SlotIds == \A v \in Slots : IdIn(heap, v) \in H!Slots
<1>1. H!Slots = {Hroot[y] : y \in Root} \cup {NIL}
  BY DEF H!Slots, Hroot
<1>2. \A y \in Root : Hroot[y] = IdIn(heap, root[y])
  BY Seen
<1> QED
  BY <1>1, <1>2 DEF Slots, IdIn

LEMMA AssignHeap ==
  ASSUME IInv, NEW x \in Root, NEW v \in Slots, Assign(x, v) PROVE H!HeapNext
<1>1. Graph' = Graph /\ Hroot' = [Hroot EXCEPT ![x] = IdIn(heap, v)]
  BY SetRootHeap DEF Assign
<1>2. H!Assign(x, IdIn(heap, v))
  BY <1>1 DEF H!Assign, Graph, Hroot, Objects
<1> QED
  BY <1>2, SlotIds DEF H!HeapNext

LEMMA LoadHeap ==
  ASSUME IInv, NEW x \in Root, NEW y \in Root, NEW f \in Fld, Load(x, y, f)
  PROVE  H!HeapNext
<1> DEFINE a == root[y]
<1>1. Graph' = Graph /\ Hroot' = [Hroot EXCEPT ![x] = IdIn(heap, heap[a].flds[f])]
  BY SetRootHeap DEF Load
<1>2. ObjIn(heap, a).flds[f] = IdIn(heap, heap[a].flds[f])
  BY DEF ObjIn
<1>3. \A o : Graph' = Graph /\ Hroot' = [Hroot EXCEPT ![x] = o.flds[f]] => H!Load(x, o, f)
  BY DEF H!Load, Graph, Hroot, Objects
<1>4. H!Load(x, ObjIn(heap, a), f)
  BY <1>1, <1>2, <1>3
<1>5. ObjIn(heap, a) \in H!Named(y)
  BY NamedObject DEF Load
<1> QED
  BY <1>4, <1>5 DEF H!HeapNext

LEMMA PutFlds ==
  ASSUME NEW i, NEW t, NEW F, NEW g
  PROVE  [[id |-> i, t |-> t, flds |-> F] EXCEPT !.flds = g]
           = [id |-> i, t |-> t, flds |-> g]
  OBVIOUS

\* A store changes the one object a root slot names.
LEMMA StoreHeap ==
  ASSUME IInv, NEW x \in Root, NEW f \in Fld, NEW v \in Slots, Store(x, f, v)
  PROVE  H!HeapNext
<1> DEFINE a == root[x]
           o == ObjIn(heap, a)
           w == IdIn(heap, v)
           n == [o EXCEPT !.flds = [@ EXCEPT ![f] = w]]
<1>1. /\ phase = "run" /\ a # NIL /\ a \in ToObjs /\ a \in Cell /\ heap[a] \in Obj
      /\ heap' = [heap EXCEPT ![a] = PutField(@, f, v)]
      /\ root' = root /\ to' = to
  <2>1. phase = "run" /\ phase # "error" /\ a \in ToObjs
    BY NamedObject DEF Store
  <2> QED
    BY <2>1, ObjectFacts DEF Store, Objects
<1>2. /\ TypeOK /\ FromObjs = {} /\ Uncopied = {}
      /\ \A y \in Root : root[y] \in ToObjs \cup {NIL}
      /\ \A c \in ToObjs, g \in Fld : heap[c].flds[g] \in ToObjs \cup {NIL}
      /\ \A c \in ToObjs : c \in Cell /\ heap[c] \in Obj
      /\ \A c, d \in ToObjs : heap[c].id = heap[d].id => c = d
  BY <1>1, AtRest, ObjectFacts DEF Objects
<1>3. v \in ToObjs \cup {NIL} /\ v \in Ref
  BY <1>2 DEF Slots, ToObjs, Ref
<1>4. /\ heap'[a] = PutField(heap[a], f, v) /\ heap'[a] # FREE
      /\ \A c \in Cell \ {a} : heap'[c] = heap[c]
  <2>1. PutField(heap[a], f, v) \in Obj
    BY <1>1, <1>3 DEF PutField, Obj
  <2> QED
    BY <1>1, <1>2, <2>1, ValuesAssumption DEF TypeOK
<1>5. Objects = ToObjs /\ Objects' = ToObjs
  <2>1. ToObjs' = ToObjs
    BY <1>1, <1>4 DEF ToObjs, IsObj
  <2>2. FromObjs' = {}
    BY <1>1, <1>2, <1>4 DEF FromObjs, ToObjs, IsObj, from
  <2> QED
    BY <1>2, <2>1, <2>2 DEF Objects, Uncopied
<1>6. \A u \in ToObjs \cup {NIL} : IdIn(heap', u) = IdIn(heap, u)
  BY <1>2, <1>4 DEF IdIn, PutField
<1>7. Hroot' = Hroot
  <2>1. \A y \in Root : IdIn(heap', root'[y]) = IdIn(heap, root[y])
    BY <1>1, <1>2, <1>6
  <2> QED
    BY <2>1, Seen
<1>8. ASSUME NEW c \in ToObjs, c # a PROVE ObjIn(heap', c) = ObjIn(heap, c)
  <2>1. heap'[c] = heap[c]
    BY <1>2, <1>4, <1>8
  <2>2. \A g \in Fld : IdIn(heap', heap'[c].flds[g]) = IdIn(heap, heap[c].flds[g])
    BY <1>2, <1>6, <2>1
  <2> QED
    BY <2>1, <2>2, SameObject
<1>9. ObjIn(heap', a) = n
  <2> DEFINE F == [g \in Fld |-> IdIn(heap, heap[a].flds[g])]
             G == [g \in Fld |-> IdIn(heap', heap'[a].flds[g])]
  <2>1. heap'[a].flds = [heap[a].flds EXCEPT ![f] = v] /\ heap[a].flds \in [Fld -> Ref]
    BY <1>1, <1>4 DEF PutField, Obj
  <2>2. \A g \in Fld : IdIn(heap', heap'[a].flds[g])
                         = IF g = f THEN w ELSE IdIn(heap, heap[a].flds[g])
    <3>1. \A g \in Fld : heap'[a].flds[g] = IF g = f THEN v ELSE heap[a].flds[g]
      BY <2>1
    <3>2. \A g \in Fld : heap'[a].flds[g] \in ToObjs \cup {NIL}
      BY <1>1, <1>2, <1>3, <3>1
    <3> QED
      BY <1>6, <3>1, <3>2
  <2>3. G = [F EXCEPT ![f] = w]
    BY <2>2
  <2>4. o = [id |-> heap[a].id, t |-> heap[a].t, flds |-> F]
    BY DEF ObjIn
  <2>5. o.flds = F
    BY <2>4
  <2>6. n = [o EXCEPT !.flds = G]
    BY <2>3, <2>5
  <2>7. n = [id |-> heap[a].id, t |-> heap[a].t, flds |-> G]
    <3> HIDE DEF F, G, n
    <3> QED
      BY <2>4, <2>6, PutFlds
  <2>8. heap'[a].id = heap[a].id /\ heap'[a].t = heap[a].t
    BY <1>4 DEF PutField
  <2>9. ObjIn(heap', a) = [id |-> heap'[a].id, t |-> heap'[a].t, flds |-> G]
    BY DEF ObjIn
  <2> QED
    BY <2>7, <2>8, <2>9
<1>10. Graph' = (Graph \ {o}) \cup {n}
  <2>1. Graph' = {ObjIn(heap', c) : c \in ToObjs} /\ Graph = {ObjIn(heap, c) : c \in ToObjs}
    BY <1>5, Seen
  <2>2. ASSUME NEW c \in ToObjs, ObjIn(heap, c) = o PROVE c = a
    BY <1>1, <1>2, <2>2 DEF ObjIn
  <2>3. Graph \ {o} = {ObjIn(heap, c) : c \in ToObjs \ {a}}
    BY <1>1, <2>1, <2>2
  <2>4. {ObjIn(heap', c) : c \in ToObjs} = {ObjIn(heap, c) : c \in ToObjs \ {a}} \cup {n}
    BY <1>1, <1>8, <1>9
  <2> QED
    BY <2>1, <2>3, <2>4
<1>11. \A p, u : /\ Graph' = (Graph \ {p}) \cup {[p EXCEPT !.flds = [@ EXCEPT ![f] = u]]}
                 /\ Hroot' = Hroot
                 => H!Store(p, f, u)
  BY DEF H!Store, Graph, Hroot, Objects
<1>12. H!Store(o, f, w)
  BY <1>7, <1>10, <1>11
<1>13. o \in H!Named(x) /\ w \in H!Slots
  BY <1>1, NamedObject, SlotIds
<1> QED
  BY <1>12, <1>13 DEF H!HeapNext

---------------------------------------------------------------------------
(* Steps of the collector.  The swap of the segments leaves every object   *)
(* where it is; what was in the to-space is now to be copied.              *)
LEMMA StartScavengeHeap ==
  ASSUME IInv, NEW x \in Root, NEW k \in Kind, StartScavenge(x, k)
  PROVE  Graph' = Graph /\ Hroot' = Hroot
<1>1. /\ TypeOK /\ Sound /\ FromObjs = {} /\ Uncopied = {}
      /\ to' = from /\ heap' = heap /\ root' = root
  BY AtRest DEF StartScavenge
<1>2. \A a \in Cell : from' = to
  BY <1>1, Segments DEF from, TypeOK
<1>3. ToObjs' = {}
  BY <1>1 DEF ToObjs, FromObjs, IsObj
<1>4. FromObjs' = ToObjs
  BY <1>1, <1>2 DEF ToObjs, FromObjs, IsObj
<1>5. Uncopied' = ToObjs
  BY <1>1, <1>4 DEF Uncopied, IsCopied, Sound, NoOverlap
<1> QED
  BY <1>1, <1>3, <1>5, SameHeap DEF Objects

\* What copying does to the objects and to the identities pointers stand for,
\* whatever is done to the fields of the object being scanned.
LEMMA CopyObjects ==
  ASSUME IInv, phase = "gc", NEW a \in FromObjs, Fits(a), to' = to,
         heap' \in [Cell -> Obj \cup {FREE}],
         NEW s \in ToObjs \cup {NIL},
         \A c \in Cell \ {s} : heap'[c] = Evacuated(a)[c],
         s \in ToObjs => /\ heap'[s] # FREE
                         /\ heap'[s].id = heap[s].id /\ heap'[s].t = heap[s].t
  PROVE  /\ \A v \in ToObjs \cup FromObjs \cup {NIL} : IdIn(heap', v) = IdIn(heap, v)
         /\ IdIn(heap', Forward(a)) = IdIn(heap, a)
         /\ \/ Objects' = Objects /\ \A c \in Objects \ {s} : heap'[c] = heap[c]
            \/ /\ a \in Objects /\ Objects' = (Objects \ {a}) \cup {free} /\ a # s /\ free # s
               /\ heap'[free] = heap[a]
               /\ \A c \in Objects \ {a, s} : heap'[c] = heap[c]
<1>1. /\ TypeOK /\ Sound /\ from' = from
      /\ \A c \in ToObjs : c \in Cell /\ c # NIL /\ c \notin FromObjs
      /\ \A c \in FromObjs : c \in Cell /\ c # NIL /\ c # s
      /\ \A c \in Cell : c = s => heap[c] # FREE /\ heap'[c] # FREE
      /\ \A c \in Objects : c \in Cell
      /\ Objects = ToObjs \cup Uncopied /\ Uncopied \subseteq FromObjs
  <2>1. TypeOK /\ Sound /\ from' = from
    BY ObjectFacts DEF from
  <2>2. /\ \A c \in ToObjs : c \in Cell /\ c # NIL /\ c \notin FromObjs
        /\ \A c \in FromObjs : c \in Cell /\ c # NIL /\ c \notin ToObjs
    BY <2>1, ObjectFacts, Segments, SizesAssumption, ValuesAssumption, SMTT(30)
    DEF from, ToObjs, FromObjs, TypeOK, Cell
  <2>3. \A c \in FromObjs : c # s
    BY <2>2
  <2>4. \A c \in Cell : c = s => heap[c] # FREE /\ heap'[c] # FREE
    <3>1. \A c \in ToObjs : heap[c] # FREE
      BY DEF ToObjs, IsObj
    <3>2. NIL \notin Cell
      BY SizesAssumption, ValuesAssumption DEF Cell
    <3> QED
      BY <3>1, <3>2
  <2>5. Objects = ToObjs \cup Uncopied /\ Uncopied \subseteq FromObjs
    BY DEF Objects, Uncopied
  <2>6. \A c \in Objects : c \in Cell
    BY <2>2, <2>5
  <2> QED
    BY <2>1, <2>2, <2>3, <2>4, <2>5, <2>6
<1>2. CASE IsCopied(a)
  <2>1. Evacuated(a) = heap /\ Forward(a) \in ToObjs /\ heap[Forward(a)].id = heap[a].id
    BY <1>2, CopyAgain
  <2>2. \A v \in ToObjs \cup FromObjs : heap'[v].id = heap[v].id
    BY <1>1, <2>1
  <2>3. \A v \in ToObjs \cup FromObjs \cup {NIL} : IdIn(heap', v) = IdIn(heap, v)
    BY <1>1, <2>2 DEF IdIn
  <2>4. IdIn(heap', Forward(a)) = IdIn(heap, a)
    BY <1>1, <2>1, <2>3 DEF IdIn
  <2>5. ToObjs' = ToObjs /\ FromObjs' = FromObjs
    BY <1>1, <2>1 DEF ToObjs, FromObjs, IsObj
  <2>6. Objects' = Objects
    BY <1>1, <2>1, <2>5 DEF Objects, Uncopied, IsCopied
  <2> QED
    BY <1>1, <2>1, <2>3, <2>4, <2>6
<1>3. CASE ~IsCopied(a)
  <2> DEFINE E == Evacuated(a)
  <2>1. a \in Uncopied
    BY <1>3 DEF Uncopied
  <2>2. /\ E[free] = heap[a] /\ E[a] = Mark(heap[a])
        /\ \A c \in Cell \ {a, free} : E[c] = heap[c]
        /\ heap[free] = FREE /\ heap[a] \in Obj /\ heap[a] # FREE /\ E[a] # FREE
        /\ E[a].t = KEK_COPIED
        /\ a \in Cell /\ free \in Cell /\ InSegment(free, to)
        /\ a \notin ToObjs /\ free \notin ToObjs /\ free \notin FromObjs
        /\ Forward(a) = free /\ free # NIL
    BY <2>1, CopyNew
  <2> HIDE DEF E
  <2>3. a # s /\ free # s
    BY <1>1, <2>2
  <2>4. /\ heap'[free] = heap[a] /\ heap'[a] = Mark(heap[a]) /\ heap'[a] # FREE
        /\ \A c \in Cell \ {a, free, s} : heap'[c] = heap[c]
        /\ heap'[a].t = KEK_COPIED
    BY <2>2, <2>3 DEF E
  <2>5. \A v \in ToObjs \cup FromObjs : heap'[v].id = heap[v].id
    <3>1. heap'[a].id = heap[a].id
      BY <2>4 DEF Mark
    <3> QED
      BY <1>1, <2>2, <2>4, <3>1
  <2>6. \A v \in ToObjs \cup FromObjs \cup {NIL} : IdIn(heap', v) = IdIn(heap, v)
    BY <1>1, <2>5 DEF IdIn
  <2>7. IdIn(heap', Forward(a)) = IdIn(heap, a)
    BY <1>1, <2>2, <2>4 DEF IdIn
  <2>8. \A c \in Cell \ {a, free} : heap'[c] = FREE <=> heap[c] = FREE
    BY <1>1, <2>4
  <2>9. \A c \in FromObjs \ {a} : heap'[c].t = heap[c].t
    BY <1>1, <2>2, <2>4
  <2>10. ToObjs' = ToObjs \cup {free} /\ Uncopied' = Uncopied \ {a}
    BY <1>1, <2>1, <2>2, <2>4, <2>8, <2>9, CopySets
  <2>11. Objects' = (Objects \ {a}) \cup {free}
    BY <2>2, <2>10 DEF Objects
  <2> QED
    BY <1>1, <2>1, <2>2, <2>3, <2>4, <2>6, <2>7, <2>11
<1> QED
  BY <1>2, <1>3

\* The program sees the same objects when each of them is where it was or has
\* moved from a to the free pointer, and pointers stand for what they did.
LEMMA CopyGraph ==
  ASSUME IInv, phase = "gc", NEW a, NEW s,
         \A v \in ToObjs \cup FromObjs \cup {NIL} : IdIn(heap', v) = IdIn(heap, v),
         \/ Objects' = Objects /\ \A c \in Objects \ {s} : heap'[c] = heap[c]
         \/ /\ a \in Objects /\ Objects' = (Objects \ {a}) \cup {free} /\ a # s /\ free # s
            /\ heap'[free] = heap[a]
            /\ \A c \in Objects \ {a, s} : heap'[c] = heap[c],
         s \in Objects => ObjIn(heap', s) = ObjIn(heap, s)
  PROVE  Graph' = Graph
<1>1. \A c \in Objects, f \in Fld : heap[c].flds[f] \in ToObjs \cup FromObjs \cup {NIL}
  BY ObjectFacts
<1>2. ASSUME NEW c \in Objects, NEW d, heap'[d] = heap[c]
      PROVE  ObjIn(heap', d) = ObjIn(heap, c)
  <2>1. \A f \in Fld : IdIn(heap', heap'[d].flds[f]) = IdIn(heap, heap[c].flds[f])
    BY <1>1, <1>2
  <2> QED
    BY <1>2, <2>1, SameObject
<1>3. CASE Objects' = Objects /\ \A c \in Objects \ {s} : heap'[c] = heap[c]
  <2>1. \A c \in Objects : ObjIn(heap', c) = ObjIn(heap, c)
    BY <1>2, <1>3
  <2> QED
    BY <1>3, <2>1, Seen
<1>4. CASE /\ a \in Objects /\ Objects' = (Objects \ {a}) \cup {free} /\ a # s /\ free # s
           /\ heap'[free] = heap[a]
           /\ \A c \in Objects \ {a, s} : heap'[c] = heap[c]
  <2>1. \A c \in Objects \ {a} : ObjIn(heap', c) = ObjIn(heap, c)
    BY <1>2, <1>4
  <2>2. ObjIn(heap', free) = ObjIn(heap, a)
    BY <1>2, <1>4
  <2>3. {ObjIn(heap', c) : c \in Objects'}
          = {ObjIn(heap', c) : c \in Objects \ {a}} \cup {ObjIn(heap', free)}
    BY <1>4
  <2>4. {ObjIn(heap, c) : c \in Objects}
          = {ObjIn(heap, c) : c \in Objects \ {a}} \cup {ObjIn(heap, a)}
    BY <1>4
  <2>5. {ObjIn(heap', c) : c \in Objects \ {a}} = {ObjIn(heap, c) : c \in Objects \ {a}}
    BY <2>1
  <2>6. Graph = {ObjIn(heap, c) : c \in Objects} /\ Graph' = {ObjIn(heap', c) : c \in Objects'}
    BY Seen
  <2> QED
    BY <2>2, <2>3, <2>4, <2>5, <2>6
<1> QED
  BY <1>3, <1>4

LEMMA CopyRootHeap == IInv /\ CopyRoot => Graph' = Graph /\ Hroot' = Hroot
<1> SUFFICES ASSUME IInv, CopyRoot PROVE Graph' = Graph /\ Hroot' = Hroot
  OBVIOUS
<1> DEFINE a == root[next]
<1>1. /\ TypeOK /\ Sound /\ phase = "gc" /\ next \in Root /\ Fits(a) /\ a \in FromObjs
      /\ to' = to /\ heap' = Evacuated(a) /\ root' = [root EXCEPT ![next] = Forward(a)]
      /\ root \in [Root -> Ref]
  BY SizesAssumption DEF CopyRoot, IInv, Sound, RootsPoint, TypeOK, Root
<1> HIDE DEF a
<1>2. heap' \in [Cell -> Obj \cup {FREE}]
  <2>1. CASE IsCopied(a)
    BY <1>1, <2>1, CopyAgain DEF TypeOK
  <2>2. CASE ~IsCopied(a)
    <3>1. a \in Uncopied
      BY <1>1, <2>2 DEF Uncopied
    <3> QED
      BY <1>1, <3>1, CopyNew
  <2> QED
    BY <2>1, <2>2
<1>3. NIL \notin ToObjs /\ NIL \notin Objects
  BY <1>1, ObjectFacts, ValuesAssumption, SizesAssumption DEF ToObjs, Cell
<1>4. /\ \A v \in ToObjs \cup FromObjs \cup {NIL} : IdIn(heap', v) = IdIn(heap, v)
      /\ IdIn(heap', Forward(a)) = IdIn(heap, a)
      /\ \/ Objects' = Objects /\ \A c \in Objects \ {NIL} : heap'[c] = heap[c]
         \/ /\ a \in Objects /\ Objects' = (Objects \ {a}) \cup {free} /\ a # NIL /\ free # NIL
            /\ heap'[free] = heap[a]
            /\ \A c \in Objects \ {a, NIL} : heap'[c] = heap[c]
  <2>1. NIL \in ToObjs \cup {NIL} /\ \A c \in Cell \ {NIL} : heap'[c] = Evacuated(a)[c]
    BY <1>1
  <2>2. NIL \in ToObjs => /\ heap'[NIL] # FREE
                          /\ heap'[NIL].id = heap[NIL].id /\ heap'[NIL].t = heap[NIL].t
    BY <1>3
  <2> QED
    BY <1>1, <1>2, <2>1, <2>2, CopyObjects
<1>5. Graph' = Graph
  BY <1>1, <1>3, <1>4, CopyGraph
<1>6. \A y \in Root : IdIn(heap', root'[y]) = IdIn(heap, root[y])
  <2>1. ASSUME NEW y \in Root, y # next PROVE IdIn(heap', root'[y]) = IdIn(heap, root[y])
    <3>1. root'[y] = root[y]
      BY <1>1, <2>1
    <3>2. root[y] \in ToObjs \cup FromObjs \cup {NIL}
      BY <1>1, ObjectFacts
    <3> QED
      BY <1>4, <3>1, <3>2
  <2>2. root'[next] = Forward(a) /\ root[next] = a
    BY <1>1 DEF a
  <2> QED
    BY <1>4, <2>1, <2>2
<1> QED
  BY <1>5, <1>6, Seen

LEMMA CopyFieldHeap == IInv /\ CopyField => Graph' = Graph /\ Hroot' = Hroot
<1> SUFFICES ASSUME IInv, CopyField PROVE Graph' = Graph /\ Hroot' = Hroot
  OBVIOUS
<1> DEFINE a == heap[obj].flds[fld]
<1>1. /\ TypeOK /\ Sound /\ phase = "gc" /\ Fits(a) /\ a \in FromObjs
      /\ obj \in ToObjs /\ obj \in Objects /\ obj \in Cell /\ heap[obj] \in Obj /\ fld \in Fld
      /\ to' = to /\ root' = root
      /\ heap' = [Evacuated(a) EXCEPT ![obj] = PutField(@, fld, Forward(a))]
      /\ heap[obj].flds[fld] = a
  BY AtField DEF CopyField, Objects
<1> HIDE DEF a
\* The object that is scanned is not the one that is copied, nor the copy.
<1>2. /\ Evacuated(a) \in [Cell -> Obj \cup {FREE}] /\ Evacuated(a)[obj] = heap[obj]
      /\ Forward(a) \in Ref
  <2>1. CASE IsCopied(a)
    <3>1. Evacuated(a) = heap /\ Forward(a) \in ToObjs
      BY <1>1, <2>1, CopyAgain
    <3> QED
      BY <1>1, <3>1 DEF TypeOK, ToObjs, Ref
  <2>2. CASE ~IsCopied(a)
    <3>1. a \in Uncopied
      BY <1>1, <2>2 DEF Uncopied
    <3>2. /\ \A c \in Cell \ {a, free} : Evacuated(a)[c] = heap[c]
          /\ Evacuated(a) \in [Cell -> Obj \cup {FREE}]
          /\ a \notin ToObjs /\ free \notin ToObjs /\ Forward(a) = free /\ free \in Cell
      BY <1>1, <3>1, CopyNew
    <3> QED
      BY <1>1, <3>2 DEF Ref
  <2> QED
    BY <2>1, <2>2
<1>3. /\ heap'[obj] = PutField(heap[obj], fld, Forward(a))
      /\ heap'[obj] # FREE
      /\ heap' \in [Cell -> Obj \cup {FREE}]
      /\ \A c \in Cell \ {obj} : heap'[c] = Evacuated(a)[c]
  <2>1. PutField(heap[obj], fld, Forward(a)) \in Obj
    BY <1>1, <1>2 DEF PutField, Obj
  <2> QED
    BY <1>1, <1>2, <2>1, ValuesAssumption
<1>4. /\ \A v \in ToObjs \cup FromObjs \cup {NIL} : IdIn(heap', v) = IdIn(heap, v)
      /\ IdIn(heap', Forward(a)) = IdIn(heap, a)
      /\ \/ Objects' = Objects /\ \A c \in Objects \ {obj} : heap'[c] = heap[c]
         \/ /\ a \in Objects /\ Objects' = (Objects \ {a}) \cup {free} /\ a # obj /\ free # obj
            /\ heap'[free] = heap[a]
            /\ \A c \in Objects \ {a, obj} : heap'[c] = heap[c]
  <2>1. heap'[obj].id = heap[obj].id /\ heap'[obj].t = heap[obj].t
    BY <1>3 DEF PutField
  <2>2. /\ obj \in ToObjs \cup {NIL} /\ phase = "gc" /\ a \in FromObjs /\ Fits(a) /\ to' = to
        /\ heap' \in [Cell -> Obj \cup {FREE}]
        /\ \A c \in Cell \ {obj} : heap'[c] = Evacuated(a)[c]
        /\ heap'[obj] # FREE
    BY <1>1, <1>3
  <2> QED
    BY <2>1, <2>2, CopyObjects
<1>5. ObjIn(heap', obj) = ObjIn(heap, obj)
  <2>1. \A f \in Fld : heap'[obj].flds[f] = IF f = fld THEN Forward(a) ELSE heap[obj].flds[f]
    BY <1>1, <1>3 DEF PutField, Obj
  <2>2. \A f \in Fld : heap[obj].flds[f] \in ToObjs \cup FromObjs \cup {NIL}
    BY <1>1, ObjectFacts
  <2>3. \A f \in Fld : IdIn(heap', heap'[obj].flds[f]) = IdIn(heap, heap[obj].flds[f])
    BY <1>1, <1>4, <2>1, <2>2
  <2>4. heap'[obj].id = heap[obj].id /\ heap'[obj].t = heap[obj].t
    BY <1>3 DEF PutField
  <2> QED
    BY <2>3, <2>4, SameObject
<1>6. Graph' = Graph
  <2>1. phase = "gc"
    BY <1>1
  <2> QED
    BY <1>4, <1>5, <2>1, CopyGraph
<1>7. \A y \in Root : IdIn(heap', root'[y]) = IdIn(heap, root[y])
  <2>1. \A y \in Root : root[y] \in ToObjs \cup FromObjs \cup {NIL}
    BY <1>1, ObjectFacts
  <2> QED
    BY <1>1, <1>4, <2>1
<1> QED
  BY <1>6, <1>7, Seen

\* The end of a scavenge forgets objects nothing refers to.
LEMMA EndScavengeHeap == IInv /\ EndScavenge => H!HeapNext
<1> SUFFICES ASSUME IInv, EndScavenge PROVE H!HeapNext
  OBVIOUS
<1>1. /\ TypeOK /\ Sound /\ phase = "gc" /\ phase' = "retry" /\ to' = to /\ root' = root
      /\ heap' = [a \in Cell |-> IF InSegment(a, from) THEN FREE ELSE heap[a]]
  BY DEF EndScavenge, IInv
<1>2. \A a \in ToObjs : a \in Cell /\ heap'[a] = heap[a]
  BY <1>1, Segments DEF ToObjs, TypeOK
<1>3. ToObjs' = ToObjs /\ Uncopied' = {}
  BY <1>1, Segments DEF ToObjs, FromObjs, Uncopied, IsObj, from, TypeOK
<1>4. IInv'
  BY EndScavengeIInv
<1>5. /\ \A x \in Root : root[x] \in ToObjs \cup {NIL}
      /\ \A a \in ToObjs, f \in Fld : heap[a].flds[f] \in ToObjs \cup {NIL}
  BY <1>1, <1>2, <1>3, <1>4 DEF IInv, Sound, RootsPoint, FieldsPoint, Grey
<1>6. Objects' = ToObjs /\ ToObjs \subseteq Objects
  BY <1>3 DEF Objects
<1>7. \A v \in ToObjs \cup {NIL} : IdIn(heap', v) = IdIn(heap, v)
  BY <1>2 DEF IdIn
<1>8. ASSUME NEW a \in ToObjs PROVE ObjIn(heap', a) = ObjIn(heap, a)
  <2>1. \A f \in Fld : IdIn(heap', heap'[a].flds[f]) = IdIn(heap, heap[a].flds[f])
    BY <1>2, <1>5, <1>7
  <2> QED
    BY <1>2, <2>1, SameObject
<1>9. Graph' = {ObjIn(heap, a) : a \in ToObjs}
  BY <1>6, <1>8, Seen
<1>10. Graph' \subseteq Graph
  BY <1>6, <1>9, Seen
<1>11. Hroot' = Hroot
  <2>1. \A x \in Root : IdIn(heap', root'[x]) = IdIn(heap, root[x])
    BY <1>1, <1>5, <1>7
  <2> QED
    BY <2>1, Seen
<1>12. {o.id : o \in Graph'} = {heap[a].id : a \in ToObjs}
  <2>1. \A a : ObjIn(heap, a).id = heap[a].id
    BY DEF ObjIn
  <2> QED
    BY <1>9, <2>1
<1>13. \A v \in ToObjs \cup {NIL} : IdIn(heap, v) \in {heap[a].id : a \in ToObjs} \cup {NIL}
  BY DEF IdIn
<1>14. \A x \in Root : Hroot[x] \in {heap[a].id : a \in ToObjs} \cup {NIL}
  <2>1. \A x \in Root : Hroot[x] = IdIn(heap, root[x])
    BY Seen
  <2> QED
    BY <1>5, <1>13, <2>1
<1>15. \A o \in Graph', f \in Fld : o.flds[f] \in {heap[a].id : a \in ToObjs} \cup {NIL}
  <2>1. \A a \in ToObjs, f \in Fld : ObjIn(heap, a).flds[f] = IdIn(heap, heap[a].flds[f])
    BY DEF ObjIn
  <2>2. \A a \in ToObjs, f \in Fld :
          ObjIn(heap, a).flds[f] \in {heap[c].id : c \in ToObjs} \cup {NIL}
    BY <1>5, <1>13, <2>1
  <2> QED
    BY <1>9, <2>2
<1>16. \A g : /\ \A x \in Root : Hroot[x] \in {o.id : o \in g} \cup {NIL}
              /\ \A o \in g, f \in Fld : o.flds[f] \in {p.id : p \in g} \cup {NIL}
              => H!Closed(Hroot, g)
  BY DEF H!Closed, H!Ids
<1>17. H!Closed(Hroot, Graph')
  BY <1>12, <1>14, <1>15, <1>16
<1>18. H!Collect
  BY <1>10, <1>11, <1>17 DEF H!Collect, Graph, Hroot, Objects
<1> QED
  BY <1>18 DEF H!HeapNext

\* All other steps of the collector, and those of no one, leave the memory as
\* it is.
LEMMA StutterHeap ==
  ASSUME UNCHANGED <<heap, root, to>> PROVE Graph' = Graph /\ Hroot' = Hroot
  BY SameHeap DEF Objects, ToObjs, Uncopied, FromObjs, IsObj, IsCopied, from

LEMMA NextHeap ==
  ASSUME IInv, [Next]_vars
  PROVE  H!HeapNext \/ (Graph' = Graph /\ Hroot' = Hroot)
<1>1. CASE Program
  <2>1. ASSUME NEW x \in Root, NEW k \in Kind, Malloc(x, k) PROVE H!HeapNext
    BY <2>1, BumpHeap DEF Malloc
  <2> QED
    BY <1>1, <2>1, StartScavengeHeap, AssignHeap, LoadHeap, StoreHeap DEF Program
<1>2. CASE Retry
  <2>1. phase = "retry" /\ req \in [slot : Root, kind : Kind] /\ lastId < MaxId /\ to' = to
    BY <1>2 DEF Retry, IInv, Sound, Requested
  <2>2. CASE CanMalloc(AllocSize[req.kind])
    <3>1. Bump(req.slot, req.kind) /\ req.slot \in Root /\ req.kind \in Kind
      BY <1>2, <2>1, <2>2 DEF Retry
    <3> QED
      BY <2>1, <2>2, <3>1, BumpHeap
  <2>3. CASE ~CanMalloc(AllocSize[req.kind])
    BY <1>2, <2>3, StutterHeap DEF Retry
  <2> QED
    BY <2>2, <2>3
<1>3. CASE SkipRoot \/ ScanObj \/ SkipField \/ ToSpaceFull \/ UNCHANGED vars
  BY <1>3, StutterHeap DEF SkipRoot, ScanObj, SkipField, ToSpaceFull, vars
<1> QED
  BY <1>1, <1>2, <1>3, CopyRootHeap, CopyFieldHeap, EndScavengeHeap DEF Next, Scavenge

(* The program does not see the collector.  Moving the objects one by one, *)
(* while slots and fields still hold old addresses, implements the heap in *)
(* which objects never move: gc_cheney_scavenge loses, doubles or changes  *)
(* no object that can be reached, whatever the sizes, kinds and roots.     *)
THEOREM Refinement == Spec => ImplementsHeap
<1>1. Init => H!HeapInit
  <2> SUFFICES ASSUME Init PROVE H!HeapInit
    OBVIOUS
  <2>1. Objects = {}
    BY DEF Init, Objects, ToObjs, Uncopied, FromObjs, IsObj
  <2>2. Graph = {} /\ Hroot = [x \in Root |-> NIL]
    BY <2>1 DEF Init, Graph, Hroot, IdOf
  <2> QED
    BY <2>2 DEF H!HeapInit, Graph, Hroot, Objects
<1>2. IInv /\ [Next]_vars => [H!HeapNext]_(H!hvars)
  BY NextHeap DEF H!hvars, Graph, Hroot, Objects
<1> QED
  BY Invariance, <1>1, <1>2, PTL DEF Spec, ImplementsHeap, H!HeapSpec
=============================================================================
