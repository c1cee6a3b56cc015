----------------------------- MODULE ClassTable -----------------------------
(***************************************************************************)
(* The compiler's symbol tables and constant table: what a declaration adds*)
(* (tabsym.cpp), what a name in a method resolves to where it is read      *)
(* (parser.cpp), and the instruction it becomes (strom.cpp, bcout.cpp).    *)
(*                                                                         *)
(* A table of classes lists the latest declared class first; so do the     *)
(* lists of its members and methods.                                       *)
(***************************************************************************)
EXTENDS ClassSource

CLASS_UNKNOWN == "CLASS_UNKNOWN"    \* the parent is not declared yet, or native

First(s, Is(_)) ==
  LET i == SelectInSeq(s, Is) IN IF i = 0 THEN NONE ELSE s[i]

---------------------------------------------------------------------------
(* The constant table.  Item i is const_table[i]; nil, the item at 0, is   *)
(* not listed.  cls is the position of a name, 0 for none.                 *)

IntItem(v) == [t |-> "int", v |-> v]
SymItem(str) == [t |-> "sym", str |-> str, cls |-> 0]

Interned(ct, Is(_), item) ==
  LET found == {i \in DOMAIN ct : Is(ct[i])}
  IN IF found = {} THEN [ct |-> Append(ct, item), at |-> Len(ct) + 1]
     ELSE [ct |-> ct, at |-> CHOOSE i \in found : \A j \in found : i <= j]

bco_int(ct, v) == Interned(ct, LAMBDA i : i.t = "int" /\ i.v = v, IntItem(v))
bco_sym(ct, str) == Interned(ct, LAMBDA i : i.t = "sym" /\ i.str = str, SymItem(str))
bco_new_sym(ct, str) == Interned(ct, LAMBDA i : FALSE, SymItem(str))

---------------------------------------------------------------------------
(* Symbol tables.                                                          *)

hledejClass(tab, id) == First(tab, LAMBDA c : c.className = id)

\* The class and the ancestors the compiler knows, the nearest first.
Known(tab, ce) ==
  LET K[c \in ToSet(tab) \cup {NONE}] ==
        IF c = NONE THEN <<>> ELSE <<c>> \o K[hledejClass(tab, c.parent)]
  IN K[ce]

hledejMember(tab, id, ce) ==
  LET line == Known(tab, ce)
  IN First(FlattenSeq([i \in DOMAIN line |-> line[i].syms]), LAMBDA p : p.ident = id)

\* Constructors are not among the methods.
hledejMethod(tab, id, ce) ==
  LET line == Known(tab, ce)
  IN First(FlattenSeq([i \in DOMAIN line |-> line[i].methods]), LAMBDA m : m.methodName = id)

ClassEnv_AddressesFromZero(tab, name, parName) ==
  LET par == hledejClass(tab, parName)
  IN [className |-> name, parentName |-> parName,
      parent |-> IF parName = NONE THEN NONE ELSE IF par = NONE THEN CLASS_UNKNOWN ELSE parName,
      class_addr_next |-> 0, obj_addr_next |-> 0,
      syms |-> <<>>, methods |-> <<>>, constructor |-> NONE, static_init |-> NONE]

\* The addresses of a class go on where those of its parent end, if the parent
\* is known.
ClassEnv(tab, name, parName) ==
  LET par == hledejClass(tab, parName)
  IN [className |-> name, parentName |-> parName,
      parent |-> IF parName = NONE THEN NONE ELSE IF par = NONE THEN CLASS_UNKNOWN ELSE parName,
      class_addr_next |-> IF par = NONE THEN 0 ELSE par.class_addr_next,
      obj_addr_next |-> IF par = NONE THEN 0 ELSE par.obj_addr_next,
      syms |-> <<>>, methods |-> <<>>, constructor |-> NONE, static_init |-> NONE]

PrvekTab(id, druh, sc, addr, const_ptr) ==
  [ident |-> id, druh |-> druh, sc |-> sc, addr |-> addr, const_ptr |-> const_ptr]

Declares(ce, id) == \E i \in DOMAIN ce.syms : ce.syms[i].ident = id

deklProm(ce, id, isStatic) ==
  IF isStatic
  THEN [ce EXCEPT !.syms = <<PrvekTab(id, "IdProm", "SC_CLASS", ce.class_addr_next, 0)>> \o @,
                  !.class_addr_next = @ + 1]
  ELSE [ce EXCEPT !.syms = <<PrvekTab(id, "IdProm", "SC_INSTANCE", ce.obj_addr_next, 0)>> \o @,
                  !.obj_addr_next = @ + 1]

deklKonst(ce, id, const_ptr) ==
  [ce EXCEPT !.syms = <<PrvekTab(id, "IdConst", "SC_CLASS", ce.class_addr_next, const_ptr)>> \o @,
             !.class_addr_next = @ + 1]

\* mth is the number of the method in the order of the text.
MethodEnv(d, mth) == [methodName |-> d.id, isStatic |-> d.static, args |-> d.args, mth |-> mth]

SecondMethod(ce, d) ==
  IF d.id # ce.className THEN \E i \in DOMAIN ce.methods : ce.methods[i].methodName = d.id
  ELSE IF d.static THEN ce.static_init # NONE ELSE ce.constructor # NONE

deklMethod(ce, d, mth) ==
  IF d.id # ce.className THEN [ce EXCEPT !.methods = <<MethodEnv(d, mth)>> \o @]
  ELSE IF d.static THEN [ce EXCEPT !.static_init = MethodEnv(d, mth)]
  ELSE [ce EXCEPT !.constructor = MethodEnv(d, mth)]

---------------------------------------------------------------------------
(* A name in a method, resolved where the parser meets it.  cls is the name*)
(* of the class in front of it; the operand is a name, an address or, in a *)
(* constant, its place in the constant table.                              *)

Ref(op, cls, name, num) == [op |-> op, cls |-> cls, name |-> name, num |-> num]
Chyba == Ref("Chyba", NONE, NONE, 0)

\* Member p of the class itself, or of class cls if that is not NONE.  A
\* constant is put in place of its name (and the optimizer drops the class).
VarOrConst(p, cls) ==
  IF p.druh = "IdConst" THEN Ref("const", NONE, NONE, p.const_ptr)
  ELSE IF cls # NONE THEN Ref("LVBI_CVE", cls, NONE, p.addr)
  ELSE Ref(IF p.sc = "SC_CLASS" THEN "LVBI_CV" ELSE "LVBI_IV", NONE, NONE, p.addr)

LValue(p, cls) ==
  IF cls # NONE THEN Ref("LABI_CVE", cls, NONE, p.addr)
  ELSE Ref(IF p.sc = "SC_CLASS" THEN "LABI_CV" ELSE "LABI_IV", NONE, NONE, p.addr)

\* x, in a method of class ce.  A name that is not declared is a symbol.
OwnMember(tab, ce, isStatic, s) ==
  LET p == hledejMember(tab, s.id, ce)
  IN IF p = NONE THEN (IF s.form = "get" THEN Ref("symbol", NONE, s.id, 0) ELSE Chyba)
     ELSE IF s.form = "set" /\ p.druh # "IdProm" THEN Chyba
     ELSE IF isStatic /\ p.sc = "SC_INSTANCE" THEN Chyba
     ELSE IF s.form = "get" THEN VarOrConst(p, NONE) ELSE LValue(p, NONE)

\* C.x: by address if C is declared, by name if it is not.
ClassMember(tab, s) ==
  LET c == hledejClass(tab, s.of)
      p == hledejMember(tab, s.id, c)
  IN IF c = NONE
     THEN Ref(IF s.form = "get of class" THEN "LVBS_CVE" ELSE "LABS_CVE", s.of, s.id, 0)
     ELSE IF p = NONE \/ p.sc # "SC_CLASS" THEN Chyba
     ELSE IF s.form = "get of class" THEN VarOrConst(p, s.of)
     ELSE IF p.druh # "IdProm" THEN Chyba ELSE LValue(p, s.of)

OwnMethod(tab, ce, isStatic, s) ==
  LET m == hledejMethod(tab, s.id, ce)
  IN IF m # NONE /\ isStatic /\ ~m.isStatic THEN Chyba ELSE Ref("CALL", NONE, s.id, 0)

ParentMethod(tab, ce, isStatic, s) ==
  IF ce.parent = NONE THEN Chyba
  ELSE LET r == OwnMethod(tab, hledejClass(tab, ce.parent), isStatic, s)
       IN IF r = Chyba THEN Chyba ELSE Ref("CALLS", ce.parentName, s.id, 0)

ClassMethod(tab, s) ==
  LET m == hledejMethod(tab, s.id, hledejClass(tab, s.of))
  IN IF m # NONE /\ ~m.isStatic THEN Chyba ELSE Ref("CALLE", s.of, s.id, 0)

ZbIdent(tab, ce, isStatic, s) ==
  CASE s.form \in {"get", "set"} -> OwnMember(tab, ce, isStatic, s)
    [] s.form \in {"get of class", "set of class"} -> ClassMember(tab, s)
    [] s.form = "get in object" -> Ref("LVBS_IVE", NONE, s.id, 0)
    [] s.form = "set in object" -> Ref("LABS_IVE", NONE, s.id, 0)
    [] s.form = "call" -> OwnMethod(tab, ce, isStatic, s)
    [] s.form = "super" -> ParentMethod(tab, ce, isStatic, s)
    [] s.form = "super constructor" ->
         IF ce.parent = NONE THEN Chyba ELSE Ref("CALL", NONE, ce.parentName, 0)
    [] s.form = "call of class" -> ClassMethod(tab, s)
    [] s.form = "call in object" -> Ref("CALLE", NONE, s.id, 0)
    [] s.form = "new" -> Ref("NEW", NONE, s.of, 0)

---------------------------------------------------------------------------
(* Instructions: the operand arg, and cls, that of the LD_CLASS in front   *)
(* of it, 0 if there is none.                                              *)

Instr(op, cls, arg) == [op |-> op, cls |-> cls, arg |-> arg]

CallsTranslate_OneParent(r, ct) ==
  LET m == bco_sym(ct, r.name)
      par == bco_sym(m.ct, r.cls)
  IN [ct |-> [par.ct EXCEPT ![m.at].cls = par.at], instr |-> Instr("CALLS", 0, m.at)]

\* A method's name keeps the name of the parent it is looked up in; the same
\* name called on another parent gets an item of its own.
CallsTranslate(r, ct) ==
  LET named == bco_sym(ct, r.name)
      saved == named.ct[named.at].cls
      m == IF saved # 0 /\ named.ct[saved].str # r.cls THEN bco_new_sym(ct, r.name) ELSE named
      par == bco_sym(m.ct, r.cls)
  IN [ct |-> [par.ct EXCEPT ![m.at].cls = par.at], instr |-> Instr("CALLS", 0, m.at)]

\* The instruction of a reference, and the constant table with its names.
Translate(r, ct) ==
  LET class == IF r.cls = NONE THEN [ct |-> ct, at |-> 0] ELSE bco_sym(ct, r.cls)
      name == bco_sym(class.ct, r.name)
  IN CASE r.op = "CALLS" -> CallsTranslate(r, ct)
       [] r.op = "symbol" -> [ct |-> name.ct, instr |-> Instr("LVBI_C", 0, name.at)]
       [] r.op = "const" -> [ct |-> ct, instr |-> Instr("LVBI_C", 0, r.num)]
       [] r.op \notin {"CALLS", "symbol", "const"} /\ r.name # NONE ->
            [ct |-> name.ct, instr |-> Instr(r.op, class.at, name.at)]
       [] r.op \notin {"CALLS", "symbol", "const"} /\ r.name = NONE ->
            [ct |-> class.ct, instr |-> Instr(r.op, class.at, r.num)]
=============================================================================
