------------------------------ MODULE Classes ------------------------------
(***************************************************************************)
(* Classes from the program's text to the running machine: the compiler    *)
(* fills its tables and writes them to a file, the virtual machine loads   *)
(* the file and links it, and then executes the sites of the methods: reads*)
(* and writes of members by address or by name, and calls through lookup   *)
(* and inline caches.                                                      *)
(*                                                                         *)
(* Left out: the operand stack, locals and arguments (Interp models them), *)
(* the other native classes, the growth of the tables.                     *)
(***************************************************************************)
EXTENDS ClassTable

CONSTANTS
  Programs,      \* the programs that are compiled
  NULL,          \* the value of a variable of an object that was never set
  Leftovers,     \* the values that uninitialised memory may hold
  Values,        \* the values that are stored
  MaxObjs        \* a bound: the objects that are created

ASSUME NoneAssumption == NONE \notin Nat

VARIABLES
  prog,          \* the program
  phase,         \* "declare" and "translate" in the compiler; "load", "builtin",
                 \* "parents", "sizes" and "consts" before the machine can "run";
                 \* "rejected" after Chyba, "error" after vm_error
  todo,          \* the declarations not read yet
  TabClass,      \* the compiler's classes
  methods,       \* the methods read, with the references in their bodies
  entrypoint,    \* where the code of each method begins
  const_table,
  code,          \* the bytecode: one item per site, and a RET after each method
  file,          \* the file, token by token
  classes_g,     \* the classes of the virtual machine
  svalue,        \* the values of their static members: syms_static[j].value
  objs,          \* the objects: class, offset and cells
  cache,         \* the inline cache of each item of the code
  last           \* what the last site did

compiler == <<todo, TabClass, methods, entrypoint, code>>
machine == <<classes_g, svalue, objs, cache, last>>
vars == <<prog, phase, const_table, file, compiler, machine>>

EMPTY == [cls |-> 0]

\* o is the object that was read or entered, NONE if it was a class; m is where
\* the entered code begins.
Value(v, o) == [r |-> "value", v |-> v, o |-> o]
Entered(m, o) == [r |-> "enter", m |-> <<code[m.bc_addr].in, code[m.bc_addr].m>>, o |-> o]
Done == [r |-> "done"]
Error == [r |-> "error"]

Init ==
  /\ prog \in Programs
  /\ phase = "declare"
  /\ todo = FlattenSeq([i \in DOMAIN prog |->
       <<[k |-> "class", id |-> prog[i].name, parent |-> prog[i].parent]>> \o prog[i].body])
  /\ TabClass = <<>> /\ methods = <<>> /\ entrypoint = <<>> /\ code = <<>>
  /\ const_table = <<>>
  /\ file = <<>>
  /\ classes_g = <<>> /\ svalue = <<>> /\ objs = <<>> /\ cache = <<>>
  /\ last = Done

---------------------------------------------------------------------------
(* The compiler: declarations, in the order of the text.                   *)

Rejected == phase' = "rejected" /\ UNCHANGED <<TabClass, methods, const_table>>

\* The class being read is the latest of the table.
Declared(ce) == TabClass' = <<ce>> \o Tail(TabClass)

Trida(d) ==
  /\ d.k = "class"
  /\ IF hledejClass(TabClass, d.id) # NONE THEN Rejected
     ELSE /\ TabClass' = <<ClassEnv(TabClass, d.id, d.parent)>> \o TabClass
          /\ UNCHANGED <<phase, methods, const_table>>

DeklProm(d) ==
  /\ d.k = "var"
  /\ IF Declares(TabClass[1], d.id) THEN Rejected
     ELSE Declared(deklProm(TabClass[1], d.id, d.static)) /\ UNCHANGED <<phase, methods, const_table>>

DeklKonst(d) ==
  /\ d.k = "const"
  /\ IF Declares(TabClass[1], d.id) \/ ~d.static THEN Rejected
     ELSE LET ct == bco_int(const_table, d.v)
          IN /\ Declared(deklKonst(TabClass[1], d.id, ct.at))
             /\ const_table' = ct.ct
             /\ UNCHANGED <<phase, methods>>

\* The references in the body are resolved with the method itself declared.
Metoda(d) ==
  /\ d.k = "method"
  /\ LET ce == deklMethod(TabClass[1], d, Len(methods) + 1)
         tab == <<ce>> \o Tail(TabClass)
         refs == [s \in DOMAIN d.sites |-> ZbIdent(tab, ce, d.static, d.sites[s])]
     IN IF SecondMethod(TabClass[1], d) \/ \E s \in DOMAIN refs : refs[s] = Chyba THEN Rejected
        ELSE /\ TabClass' = tab
             /\ methods' = Append(methods, [in |-> ce.className, m |-> d.id, static |-> d.static,
                                            sites |-> d.sites, refs |-> refs])
             /\ UNCHANGED <<phase, const_table>>

Declare ==
  /\ phase = "declare" /\ todo # <<>>
  /\ LET d == Head(todo) IN Trida(d) \/ DeklProm(d) \/ DeklKonst(d) \/ Metoda(d)
  /\ todo' = Tail(todo)
  /\ UNCHANGED <<prog, entrypoint, code, file, machine>>

---------------------------------------------------------------------------
(* The compiler: code and file.                                            *)

\* in, m, static and s are not in the bytecode: they say whose site it is.
Item(mth, s, instr) ==
  [in |-> mth.in, m |-> mth.m, static |-> mth.static, s |-> s, instr |-> instr]

\* The next method: its references in order, then the return.
MethodTranslate ==
  /\ phase \in {"declare", "translate"} /\ todo = <<>>
  /\ Len(entrypoint) < Len(methods)
  /\ LET mth == methods[Len(entrypoint) + 1]
         step(acc, i) ==
           LET t == Translate(mth.refs[i], acc.ct)
           IN [ct |-> t.ct, code |-> Append(acc.code, Item(mth, mth.sites[i], t.instr))]
         body == FoldLeftDomain(step, [ct |-> const_table, code |-> code], mth.refs)
     IN /\ const_table' = body.ct
        /\ code' = Append(body.code, Item(mth, NONE, Instr("RET", 0, 0)))
  /\ entrypoint' = Append(entrypoint, Len(code) + 1)
  /\ phase' = "translate"
  /\ UNCHANGED <<prog, todo, TabClass, methods, file, machine>>

KEK_MAGIC == "0x42666CEC"

\* Each symbol with its address and constant, after their number.
classout_prvektab_ll(syms) ==
  <<Len(syms)>> \o FlattenSeq([i \in DOMAIN syms |->
                     <<syms[i].ident, syms[i].addr, syms[i].const_ptr>>])

classout_method(me) == <<me.methodName, me.args, entrypoint[me.mth], me.isStatic>>
classout_methods(ms) == <<Len(ms)>> \o FlattenSeq([i \in DOMAIN ms |-> classout_method(ms[i])])
classout_optional(me) == IF me = NONE THEN <<FALSE>> ELSE <<TRUE>> \o classout_method(me)

\* The static symbols and those of the objects go into lists of their own.
Divided(syms, sc) ==
  LET D[i \in 0..Len(syms)] ==
        IF i = 0 THEN <<>>
        ELSE IF syms[i].sc = sc THEN Append(D[i - 1], syms[i]) ELSE D[i - 1]
  IN D[Len(syms)]

classout_class(ce) ==
  <<ce.className, IF ce.parent # NONE THEN ce.parentName ELSE "">>
  \o classout_prvektab_ll(Divided(ce.syms, "SC_CLASS"))
  \o classout_prvektab_ll(Divided(ce.syms, "SC_INSTANCE"))
  \o classout_optional(ce.static_init)
  \o classout_optional(ce.constructor)
  \o classout_methods(ce.methods)

bcout_to_file ==
  /\ phase \in {"declare", "translate"} /\ todo = <<>> /\ Len(entrypoint) = Len(methods)
  /\ file' = <<KEK_MAGIC, Len(TabClass)>>
             \o FlattenSeq([i \in DOMAIN TabClass |-> classout_class(TabClass[i])])
             \o <<const_table, code>>
  /\ const_table' = <<>>
  /\ phase' = "load"
  /\ UNCHANGED <<prog, compiler, machine>>

---------------------------------------------------------------------------
(* The loader.  Each operator reads at position p of the file; end is the  *)
(* position behind what it read.                                           *)

kexe_load_syms_Unreversed(p) ==
  LET n == file[p]
      sym(i) == [name |-> file[p - 2 + 3 * i], addr |-> file[p - 1 + 3 * i],
                 const_ptr |-> file[p + 3 * i]]
  IN [syms |-> [i \in 1..n |-> sym(i)], end |-> p + 1 + 3 * n]

\* The symbols were written latest first; they are stored in declared order.
kexe_load_syms(p) ==
  LET n == file[p]
      sym(i) == [name |-> file[p + 1 + 3 * (n - i)], addr |-> file[p + 2 + 3 * (n - i)],
                 const_ptr |-> file[p + 3 + 3 * (n - i)]]
  IN [syms |-> [i \in 1..n |-> sym(i)], end |-> p + 1 + 3 * n]

kexe_load_method(p) ==
  [name |-> file[p], args_cnt |-> file[p + 1], bc_addr |-> file[p + 2],
   is_static |-> file[p + 3], is_native |-> FALSE]

kexe_load_methods(p) ==
  [methods |-> [i \in 1..file[p] |-> kexe_load_method(p + 1 + 4 * (i - 1))],
   end |-> p + 1 + 4 * file[p]]

Optional(p) ==
  IF file[p] THEN [method |-> kexe_load_method(p + 1), end |-> p + 5]
  ELSE [method |-> NONE, end |-> p + 1]

kexe_load_class(p) ==
  LET statics == kexe_load_syms(p + 2)
      instance == kexe_load_syms(statics.end)
      init == Optional(instance.end)
      constructor == Optional(init.end)
      ms == kexe_load_methods(constructor.end)
  IN [class |-> [name |-> file[p], parent_name |-> file[p + 1], parent |-> 0, native |-> FALSE,
                 syms_static |-> statics.syms, syms_instance |-> instance.syms,
                 static_init |-> init.method, constructor |-> constructor.method,
                 methods |-> ms.methods, total |-> -1, offset |-> -1],
      end |-> ms.end]

LoadClasses ==
  LET L[i \in 0..file[2]] ==
        IF i = 0 THEN [classes |-> <<>>, end |-> 3]
        ELSE LET before == L[i - 1]
                 c == kexe_load_class(before.end)
             IN [classes |-> Append(before.classes, c.class), end |-> c.end]
  IN L[file[2]]

\* The values of static symbols: that of its constant for a symbol with one.
\* The symbols come from malloc and kexe_load_sym sets no value, so any other
\* keeps what was in the memory before, given by left.
init_const_sym_pointers(syms, left, ct) ==
  [j \in DOMAIN syms |-> IF syms[j].const_ptr # 0 THEN ct[syms[j].const_ptr].v ELSE left[j]]

\* The static symbols of the loaded classes: class and position.
StaticSyms(cls) == UNION {{i} \X DOMAIN cls[i].syms_static : i \in DOMAIN cls}

kexe_load ==
  /\ phase = "load"
  /\ file[1] = KEK_MAGIC
  /\ LET loaded == LoadClasses
         ct == file[loaded.end]
     IN /\ classes_g' = loaded.classes
        /\ \E mem \in [StaticSyms(loaded.classes) -> Leftovers] :
             svalue' = [i \in DOMAIN loaded.classes |->
                         LET syms == loaded.classes[i].syms_static
                         IN init_const_sym_pointers(syms, [j \in DOMAIN syms |-> mem[<<i, j>>]], ct)]
        /\ const_table' = ct
        /\ cache' = [i \in DOMAIN file[loaded.end + 1] |-> EMPTY]
  /\ phase' = "builtin"
  /\ UNCHANGED <<prog, compiler, file, objs, last>>

---------------------------------------------------------------------------
(* Linking.  A class is its position in classes_g, 0 for none.             *)

vm_find_class(cls, name) == SelectInSeq(cls, LAMBDA c : c.name = name)

NativeMethod(name, args) ==
  [name |-> name, args_cnt |-> args, bc_addr |-> 0, is_static |-> FALSE, is_native |-> TRUE]

vm_init_builtin_classes ==
  /\ phase = "builtin"
  /\ classes_g' = Append(classes_g,
       [name |-> "Exception", parent_name |-> "", parent |-> 0, native |-> TRUE,
        syms_static |-> <<>>, syms_instance |-> <<>>, static_init |-> NONE,
        constructor |-> NativeMethod("Exception", 1),
        methods |-> <<NativeMethod("msg", 0), NativeMethod("type", 0)>>,
        total |-> 0, offset |-> -1])
  /\ svalue' = Append(svalue, <<>>)
  /\ phase' = "parents"
  /\ UNCHANGED <<prog, compiler, const_table, file, objs, cache, last>>

vm_init_parent_pointers ==
  /\ phase = "parents"
  /\ classes_g' = [i \in DOMAIN classes_g |->
       [classes_g[i] EXCEPT !.parent = vm_find_class(classes_g, classes_g[i].parent_name)]]
  /\ phase' = "sizes"
  /\ UNCHANGED <<prog, compiler, const_table, file, svalue, objs, cache, last>>

\* The nearest class of S, going up from c; 0 if there is none.
Ancestor(c, S) ==
  LET N[k \in DOMAIN classes_g \cup {0}] ==
        IF k = 0 \/ k \in S THEN k ELSE N[classes_g[k].parent]
  IN N[c]

calc_total_syms_cnt(c) ==
  LET T[k \in DOMAIN classes_g \cup {0}] ==
        IF k = 0 THEN 0 ELSE Len(classes_g[k].syms_instance) + T[classes_g[k].parent]
  IN T[c]

\* The variables of a native ancestor: one for Exception.
calc_syms_offset(c) ==
  IF ~classes_g[c].native /\ Ancestor(c, {k \in DOMAIN classes_g : classes_g[k].native}) # 0
  THEN 1 ELSE 0

\* Sizes for the classes that have a parent only.
vm_calculate_udo_sizes_OfChildren ==
  /\ phase = "sizes"
  /\ classes_g' = [c \in DOMAIN classes_g |->
       IF classes_g[c].parent = 0 THEN classes_g[c]
       ELSE [classes_g[c] EXCEPT !.total = calc_total_syms_cnt(c), !.offset = calc_syms_offset(c)]]
  /\ phase' = "consts"
  /\ UNCHANGED <<prog, compiler, const_table, file, svalue, objs, cache, last>>

vm_calculate_udo_sizes ==
  /\ phase = "sizes"
  /\ classes_g' = [c \in DOMAIN classes_g |->
       [classes_g[c] EXCEPT !.total = calc_total_syms_cnt(c), !.offset = calc_syms_offset(c)]]
  /\ phase' = "consts"
  /\ UNCHANGED <<prog, compiler, const_table, file, svalue, objs, cache, last>>

\* The class of a symbol: the one of its own name, or of the name kept in it.
vm_init_const_table_elems ==
  /\ phase = "consts"
  /\ const_table' = [i \in DOMAIN const_table |->
       IF const_table[i].t # "sym" THEN const_table[i]
       ELSE LET k == const_table[i].cls
            IN [const_table[i] EXCEPT !.cls =
                  vm_find_class(classes_g, const_table[IF k # 0 THEN k ELSE i].str)]]
  /\ phase' = "run"
  /\ UNCHANGED <<prog, compiler, file, machine>>

---------------------------------------------------------------------------
(* Lookup.                                                                 *)

\* The class in the line of c, and the position there, of the static symbol
\* at address idx: the walk goes up until the symbols of a class begin at or
\* below it.
SYM_STATIC(c, idx) ==
  LET first(d) == classes_g[d].syms_static[1].addr
      k == Ancestor(c, {d \in DOMAIN classes_g : classes_g[d].syms_static # <<>> /\ first(d) <= idx})
  IN IF k = 0 THEN NONE ELSE <<k, idx - first(k) + 1>>

SymbolAt(syms, name) == SelectInSeq(syms, LAMBDA s : s.name = name)

vm_find_static_sym_in_class(c, name) ==
  LET at(d) == SymbolAt(classes_g[d].syms_static, name)
      k == Ancestor(c, {d \in DOMAIN classes_g : at(d) # 0})
  IN IF k = 0 THEN NONE ELSE <<k, at(k)>>

\* The address of the instance variable.
vm_find_instance_sym_in_class(c, name) ==
  LET at(d) == SymbolAt(classes_g[d].syms_instance, name)
      k == Ancestor(c, {d \in DOMAIN classes_g : at(d) # 0})
  IN IF k = 0 THEN NONE ELSE classes_g[k].syms_instance[at(k)].addr

\* The constructor counts whether the call is static or not.
vm_find_method_in_class(c, name, is_static) ==
  LET constructor(d) == classes_g[d].constructor # NONE /\ classes_g[d].constructor.name = name
      at(d) == SelectInSeq(classes_g[d].methods,
                           LAMBDA m : m.name = name /\ m.is_static = is_static)
      k == Ancestor(c, {d \in DOMAIN classes_g : constructor(d) \/ at(d) # 0})
  IN IF k = 0 THEN NONE
     ELSE IF constructor(k) THEN classes_g[k].constructor ELSE classes_g[k].methods[at(k)]

---------------------------------------------------------------------------
(* The machine: one site is executed, in a method whose this is an object  *)
(* or a class that may run it.                                             *)

INST_VAR(o, idx) == idx + objs[o].off + 1

MayRun(x) ==
  LET of(c) == Ancestor(c, {k \in DOMAIN classes_g : classes_g[k].name = x.in}) # 0
  IN IF x.static
     THEN {[cls |-> c, o |-> NONE] :
             c \in {d \in DOMAIN classes_g : IF x.m = x.in THEN classes_g[d].name = x.in ELSE of(d)}}
     ELSE {[cls |-> objs[o].cls, o |-> o] : o \in {q \in DOMAIN objs : of(objs[q].cls)}}

VmError == phase' = "error" /\ last' = Error /\ UNCHANGED <<svalue, objs, cache>>

Push(v, o) == last' = Value(v, o) /\ UNCHANGED <<phase, svalue, objs, cache>>

ReadCell(o, idx) == Push(objs[o].cells[INST_VAR(o, idx)], o)
WriteCell(o, idx) ==
  /\ \E v \in Values : objs' = [objs EXCEPT ![o].cells[INST_VAR(o, idx)] = v]
  /\ last' = Done
  /\ UNCHANGED <<phase, svalue, cache>>

\* at is where the static symbol was found, NONE if it was not.
ReadStatic(at) ==
  IF at = NONE THEN VmError ELSE Push(svalue[at[1]][at[2]], NONE)
WriteStatic(at) ==
  IF at = NONE \/ classes_g[at[1]].syms_static[at[2]].const_ptr # 0 THEN VmError
  ELSE /\ \E v \in Values : svalue' = [svalue EXCEPT ![at[1]][at[2]] = v]
       /\ last' = Done
       /\ UNCHANGED <<phase, objs, cache>>

\* The class that LD_CLASS pushes.
Loaded(x) == const_table[x.cls].cls
Name(x) == const_table[x.arg].str

\* The variable in the frame's object or class, by its address; in class C of
\* C.x, by its address or by its name; in any object, by its name.
LVBI_IV(x, this) == x.op = "LVBI_IV" /\ ReadCell(this.o, x.arg)
LABI_IV(x, this) == x.op = "LABI_IV" /\ WriteCell(this.o, x.arg)
LVBI_CV(x, this) == x.op = "LVBI_CV" /\ ReadStatic(SYM_STATIC(this.cls, x.arg))
LABI_CV(x, this) == x.op = "LABI_CV" /\ WriteStatic(SYM_STATIC(this.cls, x.arg))
LVBI_CVE(x) == x.op = "LVBI_CVE" /\ ReadStatic(SYM_STATIC(Loaded(x), x.arg))
LABI_CVE(x) == x.op = "LABI_CVE" /\ WriteStatic(SYM_STATIC(Loaded(x), x.arg))
LVBS_CVE(x) == x.op = "LVBS_CVE" /\ ReadStatic(vm_find_static_sym_in_class(Loaded(x), Name(x)))
LABS_CVE(x) == x.op = "LABS_CVE" /\ WriteStatic(vm_find_static_sym_in_class(Loaded(x), Name(x)))

LVBS_IVE(x) ==
  /\ x.op = "LVBS_IVE"
  /\ \E o \in DOMAIN objs :
       LET a == vm_find_instance_sym_in_class(objs[o].cls, Name(x))
       IN IF a = NONE THEN VmError ELSE ReadCell(o, a)

LABS_IVE(x) ==
  /\ x.op = "LABS_IVE"
  /\ \E o \in DOMAIN objs :
       LET a == vm_find_instance_sym_in_class(objs[o].cls, Name(x))
       IN IF a = NONE THEN VmError ELSE WriteCell(o, a)

LVBI_C(x) == x.op = "LVBI_C" /\ Push(const_table[x.arg].v, NONE)

Load(x, this) ==
  LVBI_C(x) \/ LVBI_IV(x, this) \/ LVBI_CV(x, this) \/ LVBI_CVE(x) \/ LVBS_CVE(x) \/ LVBS_IVE(x)
Store(x, this) ==
  LABI_IV(x, this) \/ LABI_CV(x, this) \/ LABI_CVE(x) \/ LABS_CVE(x) \/ LABS_IVE(x)

\* Method m is entered with this = o.  Native ones: the message of an
\* exception is in the first cell of the object (type, which makes a string of
\* the name of the class, is left out).
Enter(m, o) ==
  \/ /\ m.is_native /\ m.name = "Exception"
     /\ \E v \in Values : objs' = [objs EXCEPT ![o].cells[1] = v]
     /\ last' = Done
  \/ m.is_native /\ m.name = "msg" /\ last' = Value(objs[o].cells[1], o) /\ UNCHANGED objs
  \/ ~m.is_native /\ last' = Entered(m, o) /\ UNCHANGED objs

\* An inline cache that takes any class for the one it has seen.
CALLE_AnyClassHits(i, cls, o, n) ==
  LET hit == cache[i] # EMPTY
      m == IF hit THEN cache[i].mth
           ELSE vm_find_method_in_class(cls, Name(code[i].instr), o = NONE)
  IN IF ~hit /\ (m = NONE \/ m.args_cnt # n) THEN VmError
     ELSE /\ Enter(m, o)
          /\ cache' = [cache EXCEPT ![i] = [cls |-> cls, mth |-> m]]
          /\ UNCHANGED <<phase, svalue>>

\* A call of site i through its inline cache; n arguments were pushed.
CALLE(i, cls, o, n) ==
  LET hit == cache[i].cls = cls
      m == IF hit THEN cache[i].mth
           ELSE vm_find_method_in_class(cls, Name(code[i].instr), o = NONE)
  IN IF ~hit /\ (m = NONE \/ m.args_cnt # n) THEN VmError
     ELSE /\ Enter(m, o)
          /\ cache' = [cache EXCEPT ![i] = [cls |-> cls, mth |-> m]]
          /\ UNCHANGED <<phase, svalue>>

Call(i, x, this) ==
  LET n == code[i].s.args
  IN \/ x.op = "CALL" /\ CALLE(i, this.cls, this.o, n)
     \/ x.op = "CALLS" /\ CALLE(i, const_table[x.arg].cls, this.o, n)
     \/ x.op = "CALLE" /\ x.cls # 0 /\ CALLE(i, Loaded(x), NONE, n)
     \/ /\ x.op = "CALLE" /\ x.cls = 0
        /\ \E o \in DOMAIN objs : CALLE(i, objs[o].cls, o, n)

alloc_udo(c) ==
  LET k == classes_g[c]
      size == IF k.native THEN 1 ELSE k.total + k.offset
  IN [cls |-> c, off |-> IF k.native THEN 0 ELSE k.offset,
      cells |-> [j \in 1 .. IF size = 0 THEN 1 ELSE size |-> NULL]]

\* The constructor of the class itself is called, if it has one.
NewObject(i, x) ==
  LET c == const_table[x.arg].cls
      cons == classes_g[c].constructor
      with(v) == IF cons # NONE /\ cons.is_native
                 THEN [alloc_udo(c) EXCEPT !.cells[1] = v] ELSE alloc_udo(c)
  IN /\ x.op = "NEW" /\ Len(objs) < MaxObjs
     /\ IF cons # NONE /\ cons.args_cnt # code[i].s.args
        THEN /\ objs' = Append(objs, alloc_udo(c))
             /\ phase' = "error" /\ last' = Error
        ELSE /\ \E v \in Values : objs' = Append(objs, with(v))
             /\ last' = IF cons = NONE \/ cons.is_native THEN Done
                        ELSE Entered(cons, Len(objs) + 1)
             /\ UNCHANGED phase
     /\ UNCHANGED <<svalue, cache>>

Run ==
  /\ phase = "run"
  /\ \E i \in DOMAIN code : \E this \in MayRun(code[i]) :
       LET x == code[i].instr
       IN Load(x, this) \/ Store(x, this) \/ Call(i, x, this) \/ NewObject(i, x)
  /\ UNCHANGED <<prog, compiler, const_table, file, classes_g>>

Next ==
  \/ Declare \/ MethodTranslate \/ bcout_to_file
  \/ kexe_load \/ vm_init_builtin_classes \/ vm_init_parent_pointers
  \/ vm_calculate_udo_sizes \/ vm_init_const_table_elems
  \/ Run

Spec == Init /\ [][Next]_vars

---------------------------------------------------------------------------
(* Properties.                                                             *)

InMachine == phase \in {"run", "error"}
ClassIndex(c) == vm_find_class(classes_g, c)

\* The variables and the machine's tables keep their shape: every object is of
\* a class and has the cells of that class, and every class an allocation that
\* was computed.
TypeOK ==
  /\ phase \in {"declare", "translate", "load", "builtin", "parents", "sizes", "consts",
                "run", "rejected", "error"}
  /\ last.r \in {"value", "done", "enter", "error"}
  /\ Len(objs) <= MaxObjs
  /\ DOMAIN cache = {} \/ DOMAIN cache = DOMAIN code
  /\ \A o \in DOMAIN objs :
       /\ objs[o].cls \in DOMAIN classes_g
       /\ Range(objs[o].cells) \subseteq Values \cup {NULL}
  /\ InMachine => \A c \in DOMAIN classes_g :
                    classes_g[c].total >= 0 /\ classes_g[c].offset \in {0, 1}

\* The next address of a kind of members, and the addresses given to them.
Scopes == {"SC_CLASS", "SC_INSTANCE"}
NextAddr(ce, sc) == IF sc = "SC_CLASS" THEN ce.class_addr_next ELSE ce.obj_addr_next
Addresses(ce, sc) == {p.addr : p \in {q \in Range(ce.syms) : q.sc = sc}}

\* The position of the class that class i of the table was derived from: the
\* first of that name among those that were declared before.
ParentAt(tab, i) ==
  {k \in (i + 1)..Len(tab) :
     /\ tab[k].className = tab[i].parent
     /\ \A j \in (i + 1)..(k - 1) : tab[j].className # tab[i].parent}

\* Class i and its ancestors: the least set with i that is closed under parents.
Line(tab, i) ==
  {k \in DOMAIN tab : \A S \in SUBSET DOMAIN tab :
     i \in S /\ (\A j \in S : ParentAt(tab, j) \subseteq S) => k \in S}

FirstAddr(tab, i, sc) ==
  IF ParentAt(tab, i) = {} THEN 0
  ELSE NextAddr(tab[CHOOSE k \in ParentAt(tab, i) : TRUE], sc)

\* The addresses of a class's members go on where those of its parent end and
\* leave none out, so SYM_STATIC (vm.c:658) can subtract the first of them to
\* find a symbol; and no member has the address of another one of the class or
\* of an ancestor, whatever was declared in between.
AddressesApart ==
  \A i \in DOMAIN TabClass :
    /\ \A sc \in Scopes :
         Addresses(TabClass[i], sc)
         = FirstAddr(TabClass, i, sc)..(NextAddr(TabClass[i], sc) - 1)
    /\ \A k \in Line(TabClass, i) :
         \A p \in DOMAIN TabClass[i].syms, q \in DOMAIN TabClass[k].syms :
           LET x == TabClass[i].syms[p]
               y == TabClass[k].syms[q]
           IN x.sc = y.sc /\ x.addr = y.addr => k = i /\ p = q

\* What the machine has loaded is what the program declares: for each class its
\* parent, its static members in the order of the text, the constants among
\* them with their values, its variables in that order, and its methods with
\* their arguments, each entered at its own code.
LoadedAsDeclared ==
  phase \in {"builtin", "parents", "sizes", "consts"} =>
    \A i \in DOMAIN prog :
      LET c == classes_g[ClassIndex(prog[i].name)]
          static == SelectSeq(prog[i].body, LAMBDA d : d.k # "method" /\ d.static)
          own == SelectSeq(prog[i].body, LAMBDA d : d.k # "method" /\ ~d.static)
          declared == {d \in ToSet(prog[i].body) : d.k = "method"}
          loaded == ToSet(c.methods) \cup ({c.constructor, c.static_init} \ {NONE})
      IN /\ c.parent_name = IF prog[i].parent = NONE THEN "" ELSE prog[i].parent
         /\ [j \in DOMAIN c.syms_static |-> c.syms_static[j].name]
            = [j \in DOMAIN static |-> static[j].id]
         /\ \A j \in DOMAIN static :
              static[j].k = "const" => svalue[ClassIndex(c.name)][j] = static[j].v
         /\ [j \in DOMAIN c.syms_instance |-> c.syms_instance[j].name]
            = [j \in DOMAIN own |-> own[j].id]
         /\ {<<m.name, m.is_static, m.args_cnt>> : m \in loaded}
            = {<<d.id, d.static, d.args>> : d \in declared}
         /\ \A m \in loaded : code[m.bc_addr].in = c.name /\ code[m.bc_addr].m = m.name

\* The cell of variable f = <<class, name>> in an object with offset off.
CellOf(f, off) ==
  IF f = <<"Exception", "text">> THEN 1
  ELSE LET syms == classes_g[ClassIndex(f[1])].syms_instance
       IN syms[SymbolAt(syms, f[2])].addr + off + 1

\* No two variables of an object share a cell, those of its ancestors and of
\* the native part included, and all are inside the allocation.
SlotsApart ==
  InMachine =>
    \A c \in Names(prog) :
      LET new == alloc_udo(ClassIndex(c))
          cell(f) == CellOf(f, new.off)
      IN /\ \A f \in Fields(prog, c) : cell(f) \in DOMAIN new.cells
         /\ \A f, g \in Fields(prog, c) : f # g => cell(f) # cell(g)

\* Whether the call x pushes a class and not an object as this.
CallsClass(x) ==
  (x.instr.op = "CALLE" /\ x.instr.cls # 0) \/ (x.instr.op # "CALLE" /\ x.static)

\* A cached method is the one that a lookup in the cached class would find now,
\* and takes as many arguments as the site pushes: a hit skips both the lookup
\* and the comparison, and no cache is ever cleared.
CachesCurrent ==
  \A i \in DOMAIN cache : cache[i].cls # 0 =>
    LET m == cache[i].mth
    IN /\ m = vm_find_method_in_class(cache[i].cls, Name(code[i].instr), CallsClass(code[i]))
       /\ m # NONE /\ m.args_cnt = code[i].s.args

---------------------------------------------------------------------------
(* The object model: a class has its variables, an object the variables of *)
(* its line, whatever cells and tables they are in.                        *)

ObjectOf(o) ==
  LET c == classes_g[objs[o].cls].name
  IN [cls |-> c, val |-> [f \in Fields(prog, c) |-> objs[o].cells[CellOf(f, objs[o].off)]]]

StaticOf(s) ==
  LET c == ClassIndex(s[1]) IN svalue[c][SymbolAt(classes_g[c].syms_static, s[2])]

\* The program starts when it is linked.
Running == IF InMachine THEN prog ELSE <<>>

Abstract ==
  INSTANCE ObjectModel WITH
    prog <- Running,
    heap <- [o \in DOMAIN objs |-> ObjectOf(o)],
    statics <- [s \in Statics(Running) |-> StaticOf(s)]

\* Every site does to objects and classes what the names in the text say:
\* members by address or name, calls, overriding, super, and caches.
ImplementsObjectModel == Abstract!Spec
=============================================================================
