------------------------------- MODULE Heap -------------------------------
(***************************************************************************)
(* What a .KEK program may rely on: objects with an identity, a kind and   *)
(* fields, and the root slots (statics, locals, operands) that name them.  *)
(* Objects never move and a field keeps its value until it is stored to.   *)
(* The only trace of the collector is Collect, which may forget objects    *)
(* nothing refers to.  CheneyGC implements this specification.             *)
(***************************************************************************)
CONSTANTS
  Root,   \* the slots the garbage collector takes as roots
  Kind,   \* the kinds of heap objects (vm/types.h, enum _type)
  Fld,    \* field numbers
  Id,     \* object identities (h.id in vm/types.h)
  NIL     \* any value that is not a heap pointer

VARIABLES
  hroot,  \* the identity each root slot names, or NIL
  graph   \* the set of objects, as records [id, t, flds]

hvars == <<hroot, graph>>

Val == Id \cup {NIL}
Object == [id : Id, t : Kind, flds : [Fld -> Val]]
Ids(g) == {o.id : o \in g}

HeapTypeOK ==
  /\ hroot \in [Root -> Val]
  /\ graph \subseteq Object

(* Nothing names an object that is not there.                              *)
Closed(r, g) ==
  /\ \A x \in Root : r[x] \in Ids(g) \cup {NIL}
  /\ \A o \in g, f \in Fld : o.flds[f] \in Ids(g) \cup {NIL}

HeapClosed == Closed(hroot, graph)

HeapInit ==
  /\ hroot = [x \in Root |-> NIL]
  /\ graph = {}

New(x, k) ==
  \E i \in Id \ Ids(graph) :
     /\ graph' = graph \cup {[id |-> i, t |-> k, flds |-> [f \in Fld |-> NIL]]}
     /\ hroot' = [hroot EXCEPT ![x] = i]

(* x := v, for a v the program holds in a slot, or a non-pointer.          *)
Assign(x, v) ==
  /\ hroot' = [hroot EXCEPT ![x] = v]
  /\ UNCHANGED graph

Load(x, o, f) ==
  /\ hroot' = [hroot EXCEPT ![x] = o.flds[f]]
  /\ UNCHANGED graph

Store(o, f, v) ==
  /\ graph' = (graph \ {o}) \cup {[o EXCEPT !.flds = [@ EXCEPT ![f] = v]]}
  /\ UNCHANGED hroot

(* A collection keeps a set of objects that is closed under references.    *)
Collect ==
  /\ graph' \subseteq graph
  /\ Closed(hroot, graph')
  /\ UNCHANGED hroot

Named(x) == {o \in graph : o.id = hroot[x]}
Slots == {hroot[x] : x \in Root} \cup {NIL}

HeapNext ==
  \/ \E x \in Root, k \in Kind : New(x, k)
  \/ \E x \in Root, v \in Slots : Assign(x, v)
  \/ \E x, y \in Root, f \in Fld : \E o \in Named(y) : Load(x, o, f)
  \/ \E x \in Root, f \in Fld, v \in Slots : \E o \in Named(x) : Store(o, f, v)
  \/ Collect

HeapSpec == HeapInit /\ [][HeapNext]_hvars
=============================================================================
