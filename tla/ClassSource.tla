---------------------------- MODULE ClassSource ----------------------------
(***************************************************************************)
(* Programs as sequences of class declarations, and what the names in them *)
(* mean: the reference that the compiler's addresses and the lookups of the*)
(* virtual machine are checked against.                                    *)
(*                                                                         *)
(* The body of a method is the list of its accesses to members and of its  *)
(* calls (sites); what happens between them is left open.                  *)
(***************************************************************************)
EXTENDS Integers, Sequences, SequencesExt

CONSTANT NONE     \* no class, no symbol, no method

ClassDecl(name, parent, body) == [name |-> name, parent |-> parent, body |-> body]

Var(id) == [k |-> "var", static |-> FALSE, id |-> id]
StaticVar(id) == [k |-> "var", static |-> TRUE, id |-> id]
Konst(id, v) == [k |-> "const", static |-> TRUE, id |-> id, v |-> v]
Method(id, static, args, sites) ==
  [k |-> "method", static |-> static, id |-> id, args |-> args, sites |-> sites]

\* Sites.  of is the class named in front of the dot, args the number of
\* arguments.
Site(form, of, id, args) == [form |-> form, of |-> of, id |-> id, args |-> args]
Get(id) == Site("get", NONE, id, 0)               \* x
Set(id) == Site("set", NONE, id, 0)               \* x = v
GetOf(c, id) == Site("get of class", c, id, 0)    \* C.x
SetOf(c, id) == Site("set of class", c, id, 0)
GetIn(id) == Site("get in object", NONE, id, 0)   \* o.x for a variable o
SetIn(id) == Site("set in object", NONE, id, 0)
Self(id, n) == Site("call", NONE, id, n)          \* m()
Super(id, n) == Site("super", NONE, id, n)        \* super.m()
SuperNew(n) == Site("super constructor", NONE, NONE, n)    \* super()
CallOf(c, id, n) == Site("call of class", c, id, n)   \* C.m()
CallIn(id, n) == Site("call in object", NONE, id, n)  \* o.m()
New(c, n) == Site("new", c, NONE, n)

---------------------------------------------------------------------------
\* The native class Exception: a message, set by the constructor.
Exception ==
  ClassDecl("Exception", NONE, << Var("text"), Method("msg", FALSE, 0, <<>>),
                                  Method("type", FALSE, 0, <<>>),
                                  Method("Exception", FALSE, 1, <<>>) >>)

Classes(prog) == Append(prog, Exception)
Names(prog) == {Classes(prog)[i].name : i \in DOMAIN Classes(prog)}
Named(prog, c) ==
  Classes(prog)[CHOOSE i \in DOMAIN Classes(prog) : Classes(prog)[i].name = c]

\* A class and its ancestors, the nearest first.
Lineage(prog, c) ==
  LET L[k \in Names(prog) \cup {NONE}] ==
        IF k = NONE THEN <<>> ELSE <<k>> \o L[Named(prog, k).parent]
  IN L[c]

\* A parent is the native class or is declared before the class.
ParentsFirst(prog) ==
  \A i \in DOMAIN prog :
    /\ prog[i].name \notin {"", "Exception"}
    /\ \/ prog[i].parent \in {NONE, "Exception"}
       \/ \E j \in 1..(i - 1) : prog[j].name = prog[i].parent

Body(prog, c) == ToSet(Named(prog, c).body)

\* The declaration, with its class, that the name resolves to: the first class
\* of the lineage that declares one of the kind Is.
Nearest(prog, c, Is(_)) ==
  LET in == SelectSeq(Lineage(prog, c), LAMBDA k : \E d \in Body(prog, k) : Is(d))
  IN IF in = <<>> THEN NONE
     ELSE [in |-> in[1], decl |-> CHOOSE d \in Body(prog, in[1]) : Is(d)]

\* A name in a method of class c; static and instance members share a scope.
MemberNamed(prog, c, id) == Nearest(prog, c, LAMBDA d : d.id = id /\ d.k # "method")

\* A name behind a class.
StaticNamed(prog, c, id) == Nearest(prog, c, LAMBDA d : d.id = id /\ d.k # "method" /\ d.static)

\* A name behind an object of class c.
FieldNamed(prog, c, id) == Nearest(prog, c, LAMBDA d : d.id = id /\ d.k = "var" /\ ~d.static)

\* The method that a call of id on class c runs.
MethodNamed(prog, c, id, static) ==
  Nearest(prog, c, LAMBDA d : d.id = id /\ d.k = "method" /\ d.static = static)

Constructor(prog, c) ==
  LET own == {d \in Body(prog, c) : d.k = "method" /\ d.id = c /\ ~d.static}
  IN IF own = {} THEN NONE ELSE [in |-> c, decl |-> CHOOSE d \in own : TRUE]

\* The variables of an object of class c, each with the class that declares it.
Fields(prog, c) ==
  UNION {{<<k, d.id>> : d \in {e \in Body(prog, k) : e.k = "var" /\ ~e.static}} :
           k \in ToSet(Lineage(prog, c))}

\* The static members of the program.
StaticDecls(prog, k) == {d \in Body(prog, k) : d.static /\ d.k # "method"}
Statics(prog) == UNION {{<<k, d.id>> : d \in StaticDecls(prog, k)} : k \in Names(prog)}

\* The sites of the program, each with the class and the method it stands in.
Methods(prog, k) == {d \in Body(prog, k) : d.k = "method"}
SitesOf(prog) ==
  UNION {UNION {{[in |-> k, m |-> d.id, static |-> d.static, s |-> s] : s \in ToSet(d.sites)} :
                  d \in Methods(prog, k)} :
           k \in Names(prog)}
=============================================================================
