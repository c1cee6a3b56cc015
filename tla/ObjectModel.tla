---------------------------- MODULE ObjectModel ----------------------------
(***************************************************************************)
(* What classes and objects promise, without addresses, tables or caches:  *)
(* every object has the variables of its class and of all its ancestors,   *)
(* each class has its own static members, constants keep their values, and *)
(* a call runs the nearest method of the receiver's class.  What a static  *)
(* variable holds before it is set is not promised.                        *)
(*                                                                         *)
(* A step is one site of the program, executed in a method whose this is   *)
(* any object or class that may run it.                                    *)
(***************************************************************************)
EXTENDS ClassSource

CONSTANTS
  Programs,       \* the programs that may be run
  NULL,           \* the value of a variable of an object that was never set
  Leftovers,      \* what a static variable that was never set may hold
  Values,         \* the values that are stored
  MaxObjs         \* a bound: the objects that are created

VARIABLES
  prog,           \* the program, <<>> until it starts
  heap,           \* the objects: class and values of the variables
  statics,        \* the values of the static members
  last            \* what the last site did

vars == <<prog, heap, statics, last>>

\* o is the object that was read or called, NONE if it was a class.
Value(v, o) == [r |-> "value", v |-> v, o |-> o]
Entered(m, o) == [r |-> "enter", m |-> m, o |-> o]
Done == [r |-> "done"]
Error == [r |-> "error"]

InitialStatics(p, left) ==
  [x \in Statics(p) |->
     LET d == CHOOSE d \in StaticDecls(p, x[1]) : d.id = x[2]
     IN IF d.k = "const" THEN d.v ELSE left[x]]

\* this is a class for a static method, an object for another; a static
\* initializer only runs for its own class.
Objects == DOMAIN heap
MayRun(x) ==
  IF x.static /\ x.m = x.in THEN {[cls |-> x.in, o |-> NONE]}
  ELSE IF x.static
  THEN {[cls |-> c, o |-> NONE] : c \in {d \in Names(prog) : x.in \in ToSet(Lineage(prog, d))}}
  ELSE {[cls |-> heap[o].cls, o |-> o] :
          o \in {q \in Objects : x.in \in ToSet(Lineage(prog, heap[q].cls))}}

---------------------------------------------------------------------------
(* Members.                                                                *)

Fails == last' = Error /\ UNCHANGED <<prog, heap, statics>>

\* The member m, found by name, is read or set, in object o if it is a variable.
Read(m, o) ==
  /\ m # NONE
  /\ last' = IF m.decl.static THEN Value(statics[<<m.in, m.decl.id>>], NONE)
             ELSE Value(heap[o].val[<<m.in, m.decl.id>>], o)
  /\ UNCHANGED <<prog, heap, statics>>

Write(m, o) ==
  /\ m # NONE /\ m.decl.k # "const"
  /\ last' = Done
  /\ \E v \in Values :
       IF m.decl.static
       THEN statics' = [statics EXCEPT ![<<m.in, m.decl.id>>] = v] /\ UNCHANGED heap
       ELSE heap' = [heap EXCEPT ![o].val[<<m.in, m.decl.id>>] = v] /\ UNCHANGED statics
  /\ UNCHANGED prog

ReadOrFail(m, o) == Read(m, o) \/ (m = NONE /\ Fails)
WriteOrFail(m, o) == Write(m, o) \/ ((m = NONE \/ m.decl.k = "const") /\ Fails)

Access(x, this) ==
  \/ x.s.form = "get" /\ Read(MemberNamed(prog, x.in, x.s.id), this.o)
  \/ x.s.form = "set" /\ Write(MemberNamed(prog, x.in, x.s.id), this.o)
  \/ x.s.form = "get of class" /\ ReadOrFail(StaticNamed(prog, x.s.of, x.s.id), NONE)
  \/ x.s.form = "set of class" /\ WriteOrFail(StaticNamed(prog, x.s.of, x.s.id), NONE)
  \/ \E o \in Objects :
       LET m == FieldNamed(prog, heap[o].cls, x.s.id)
       IN \/ x.s.form = "get in object" /\ ReadOrFail(m, o)
          \/ x.s.form = "set in object" /\ WriteOrFail(m, o)

---------------------------------------------------------------------------
(* Calls.                                                                  *)

\* Method m runs with n arguments and this = o.  Native ones: the constructor
\* of Exception stores its argument, msg returns it.
Enter(m, n, o) ==
  IF m = NONE \/ m.decl.args # n THEN Fails
  ELSE IF m.in = "Exception" /\ m.decl.id = "Exception"
  THEN /\ last' = Done
       /\ \E v \in Values : heap' = [heap EXCEPT ![o].val[<<"Exception", "text">>] = v]
       /\ UNCHANGED <<prog, statics>>
  ELSE IF m.in = "Exception" /\ m.decl.id = "msg"
  THEN Read(FieldNamed(prog, "Exception", "text"), o)
  ELSE /\ last' = Entered(<<m.in, m.decl.id>>, o)
       /\ UNCHANGED <<prog, heap, statics>>

Call(x, this) ==
  LET parent == Named(prog, x.in).parent
  IN \/ /\ x.s.form = "call"
        /\ Enter(MethodNamed(prog, this.cls, x.s.id, x.static), x.s.args, this.o)
     \/ /\ x.s.form = "super"
        /\ Enter(MethodNamed(prog, parent, x.s.id, x.static), x.s.args, this.o)
     \/ x.s.form = "super constructor" /\ Enter(Constructor(prog, parent), x.s.args, this.o)
     \/ /\ x.s.form = "call of class"
        /\ Enter(MethodNamed(prog, x.s.of, x.s.id, TRUE), x.s.args, NONE)
     \/ /\ x.s.form = "call in object"
        /\ \E o \in Objects : Enter(MethodNamed(prog, heap[o].cls, x.s.id, FALSE), x.s.args, o)

\* An object is created and the constructor of its own class is entered.
Create(x) ==
  LET c == x.s.of
      fresh == [cls |-> c, val |-> [f \in Fields(prog, c) |-> NULL]]
      cons == Constructor(prog, c)
  IN /\ x.s.form = "new"
     /\ Len(heap) < MaxObjs
     /\ CASE cons = NONE -> last' = Done /\ heap' = Append(heap, fresh)
          [] cons # NONE /\ cons.decl.args # x.s.args ->
               last' = Error /\ heap' = Append(heap, fresh)
          [] cons # NONE /\ cons.decl.args = x.s.args /\ c = "Exception" ->
               /\ last' = Done
               /\ \E v \in Values : heap' = Append(heap, [fresh EXCEPT !.val[<<c, "text">>] = v])
          [] OTHER -> last' = Entered(<<c, c>>, Len(heap) + 1) /\ heap' = Append(heap, fresh)
     /\ UNCHANGED <<prog, statics>>

---------------------------------------------------------------------------
Init ==
  /\ prog = <<>>
  /\ heap = <<>>
  /\ statics = <<>>
  /\ last = Done

Start ==
  /\ prog = <<>>
  /\ prog' \in Programs
  /\ \E left \in [Statics(prog') -> Leftovers] : statics' = InitialStatics(prog', left)
  /\ UNCHANGED <<heap, last>>

Execute ==
  \E x \in SitesOf(prog) : \E this \in MayRun(x) :
    Access(x, this) \/ Call(x, this) \/ Create(x)

Next == Start \/ Execute

Spec == Init /\ [][Next]_vars
=============================================================================
