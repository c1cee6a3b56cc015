--------------------------- MODULE Classes_proofs ---------------------------
(***************************************************************************)
(* The inline caches, for any programs, values and numbers of objects: the *)
(* method kept behind a call is the one that a lookup would find now.      *)
(*                                                                         *)
(* Classes are linked before the first site runs and never change after;   *)
(* what a site looks up depends on the class, on the name in the constant  *)
(* table and on whether this is a class.  The last is the same whenever a  *)
(* site runs: a method is static or it is not, and a call through LD_CLASS *)
(* always pushes a class.  That is why an entry with the class alone in it *)
(* is enough.                                                              *)
(*                                                                         *)
(* The compiler's tables, for any programs: the addresses of a class begin *)
(* where those of its parent end.  The parent lies further down in the     *)
(* table and only its first class is ever changed, so the counters that    *)
(* ClassEnv copied are still those of the parent when the child is read.   *)
(***************************************************************************)
EXTENDS Classes, SequenceTheorems, LeastNumber, TLAPS

\* Until the machine runs, the caches are as the compiler leaves them.
Untouched == ~InMachine => \A i \in DOMAIN cache : cache[i] = EMPTY

IsSeq(f) == \E S : f \in Seq(S)

IInv == Untouched /\ CachesCurrent /\ IsSeq(objs)

\* What a cached call relies on.
Fixed == <<prog, compiler, const_table, file, classes_g>>

---------------------------------------------------------------------------
LEMMA LookupFixed ==
  ASSUME classes_g' = classes_g, NEW c, NEW name, NEW s
  PROVE  vm_find_method_in_class(c, name, s)' = vm_find_method_in_class(c, name, s)
  BY DEF vm_find_method_in_class, Ancestor, SelectInSeq

\* An object is no NONE, and an update or a new object leaves a sequence.
LEMMA ObjectsFacts ==
  ASSUME IsSeq(objs) PROVE NONE \notin DOMAIN objs
  BY NoneAssumption, LenProperties DEF IsSeq

LEMMA ObjectsUpdated ==
  ASSUME IsSeq(objs), NEW o, NEW e PROVE IsSeq([objs EXCEPT ![o] = e])
<1>1. PICK S : objs \in Seq(S)
  BY DEF IsSeq
<1>2. PICK n \in Nat : objs \in [1..n -> S]
  BY <1>1, SeqDef
<1>3. [objs EXCEPT ![o] = e] \in [1..n -> S \cup {e}]
  BY <1>2
<1>4. [objs EXCEPT ![o] = e] \in Seq(S \cup {e})
  BY <1>3, SeqDef, ZenonT(30)
<1> QED
  BY <1>4 DEF IsSeq

LEMMA ObjectsAppended ==
  ASSUME IsSeq(objs), NEW e PROVE IsSeq(Append(objs, e))
<1>1. PICK S : objs \in Seq(S)
  BY DEF IsSeq
<1>2. PICK T : T = S \cup {e}
  OBVIOUS
<1>3. objs \in Seq(T) /\ e \in T
  BY <1>1, <1>2, SeqMonotonic
<1>4. Append(objs, e) \in Seq(T)
  BY <1>3, AppendProperties
<1> QED
  BY <1>4 DEF IsSeq

\* Steps that change no cache and nothing that a cached call relies on.
LEMMA CacheKept ==
  ASSUME IInv, InMachine, InMachine', UNCHANGED Fixed, cache' = cache, IsSeq(objs')
  PROVE  IInv'
<1>1. classes_g' = classes_g /\ code' = code /\ const_table' = const_table
  BY DEF Fixed, compiler
<1>2. \A i : Name(code[i].instr)' = Name(code[i].instr) /\ CallsClass(code[i])' = CallsClass(code[i])
  BY <1>1 DEF Name, CallsClass
<1>3. CachesCurrent'
  <2> SUFFICES ASSUME NEW i \in DOMAIN cache, cache[i].cls # 0
               PROVE  /\ cache[i].mth = vm_find_method_in_class(cache[i].cls, Name(code[i].instr), CallsClass(code[i]))'
                      /\ cache[i].mth # NONE /\ cache[i].mth.args_cnt = code[i].s.args
    BY <1>1, <1>2 DEF CachesCurrent
  <2> QED
    BY <1>1, <1>2, LookupFixed DEF IInv, CachesCurrent
<1> QED
  BY <1>3 DEF IInv, Untouched

\* Whether this is a class is decided by the site.
LEMMA ThisFacts ==
  ASSUME IsSeq(objs), NEW x, NEW this \in MayRun(x)
  PROVE  /\ (this.o = NONE) <=> x.static
         /\ ~x.static => this.o \in DOMAIN objs
<1>1. NONE \notin DOMAIN objs
  BY ObjectsFacts
<1>2. CASE x.static
  <2>1. PICK c : this = [cls |-> c, o |-> NONE]
    BY <1>2 DEF MayRun
  <2> QED
    BY <1>2, <2>1
<1>3. CASE ~x.static
  <2>1. PICK q \in DOMAIN objs : this = [cls |-> objs[q].cls, o |-> q]
    BY <1>3 DEF MayRun
  <2> QED
    BY <1>1, <1>3, <2>1
<1> QED
  BY <1>2, <1>3

LEMMA EnterKeeps ==
  ASSUME IsSeq(objs), NEW m, NEW o, Enter(m, o)
  PROVE  IsSeq(objs')
<1>1. CASE objs' = objs
  BY <1>1
<1>2. ASSUME NEW v \in Values, objs' = [objs EXCEPT ![o].cells[1] = v]
      PROVE  IsSeq(objs')
  <2>1. objs' = [objs EXCEPT ![o] = [objs[o] EXCEPT !.cells[1] = v]]
    BY <1>2
  <2> QED
    BY <2>1, ObjectsUpdated
<1> QED
  BY <1>1, <1>2 DEF Enter

\* Reading and writing change no cache.
LEMMA LoadStep ==
  ASSUME IInv, phase = "run", UNCHANGED Fixed, NEW x, NEW this, Load(x, this)
  PROVE  IInv'
<1>1. UNCHANGED <<objs, cache>> /\ phase' \in {"run", "error"}
  BY DEF Load, LVBI_C, LVBI_IV, LVBI_CV, LVBI_CVE, LVBS_CVE, LVBS_IVE, ReadCell, ReadStatic, Push, VmError
<1> QED
  BY <1>1, CacheKept DEF IInv, InMachine

LEMMA StoreStep ==
  ASSUME IInv, phase = "run", UNCHANGED Fixed, NEW x, NEW this, Store(x, this)
  PROVE  IInv'
<1>1. ASSUME NEW o, NEW idx, WriteCell(o, idx)
      PROVE  IInv'
  <2>1. PICK v \in Values : objs' = [objs EXCEPT ![o].cells[INST_VAR(o, idx)] = v]
    BY <1>1 DEF WriteCell
  <2>2. objs' = [objs EXCEPT ![o] = [objs[o] EXCEPT !.cells[INST_VAR(o, idx)] = v]]
    BY <2>1
  <2>3. IsSeq(objs')
    BY <2>2, ObjectsUpdated DEF IInv
  <2>4. cache' = cache /\ phase' = phase
    BY <1>1 DEF WriteCell
  <2> QED
    BY <2>3, <2>4, CacheKept DEF InMachine
<1>2. ASSUME NEW at, WriteStatic(at)
      PROVE  IInv'
  <2>1. UNCHANGED <<objs, cache>> /\ phase' \in {"run", "error"}
    BY <1>2 DEF WriteStatic, VmError
  <2> QED
    BY <2>1, CacheKept DEF IInv, InMachine
<1>3. ASSUME VmError PROVE IInv'
  BY <1>3, CacheKept DEF VmError, IInv, InMachine
<1> QED
  BY <1>1, <1>2, <1>3 DEF Store, LABI_IV, LABI_CV, LABI_CVE, LABS_CVE, LABS_IVE

\* A call that hits runs what was cached; one that misses caches what it found.
LEMMA CachedCall ==
  ASSUME IInv, phase = "run", UNCHANGED Fixed, NEW i \in DOMAIN code, NEW cls, NEW o,
         (o = NONE) <=> CallsClass(code[i]), CALLE(i, cls, o, code[i].s.args)
  PROVE  IInv'
<1>1. CASE VmError
  BY <1>1, CacheKept DEF VmError, IInv, InMachine
<1>2. CASE ~VmError
  <2>1. PICK m : /\ m = IF cache[i].cls = cls THEN cache[i].mth
                        ELSE vm_find_method_in_class(cls, Name(code[i].instr), o = NONE)
                 /\ cache[i].cls = cls \/ ~(m = NONE \/ m.args_cnt # code[i].s.args)
                 /\ Enter(m, o) /\ cache' = [cache EXCEPT ![i] = [cls |-> cls, mth |-> m]]
                 /\ phase' = phase
    BY <1>2 DEF CALLE
  <2>2. (o = NONE) = CallsClass(code[i])
    BY DEF CallsClass
  <2>3. cls # 0 /\ i \in DOMAIN cache =>
          /\ m = vm_find_method_in_class(cls, Name(code[i].instr), CallsClass(code[i]))
          /\ m # NONE /\ m.args_cnt = code[i].s.args
    BY <2>1, <2>2 DEF IInv, CachesCurrent
  <2>4. classes_g' = classes_g /\ code' = code /\ const_table' = const_table
    BY DEF Fixed, compiler
  <2>5. \A j : Name(code[j].instr)' = Name(code[j].instr) /\ CallsClass(code[j])' = CallsClass(code[j])
    BY <2>4 DEF Name, CallsClass
  <2>6. ASSUME NEW j \in DOMAIN cache', cache'[j].cls # 0
        PROVE  /\ cache'[j].mth
                  = vm_find_method_in_class(cache'[j].cls, Name(code[j].instr), CallsClass(code[j]))
               /\ cache'[j].mth # NONE /\ cache'[j].mth.args_cnt = code[j].s.args
    <3>1. j \in DOMAIN cache
      BY <2>1, <2>6
    <3>2. CASE j = i
      BY <2>1, <2>3, <2>6, <3>1, <3>2
    <3>3. CASE j # i
      <4>1. cache'[j] = cache[j]
        BY <2>1, <3>1, <3>3
      <4> QED
        BY <2>6, <3>1, <4>1 DEF IInv, CachesCurrent
    <3> QED
      BY <3>2, <3>3
  <2>7. CachesCurrent'
    <3> SUFFICES ASSUME NEW j \in DOMAIN cache', NEW e, e = cache'[j], e.cls # 0
                 PROVE  /\ e.mth = vm_find_method_in_class(e.cls, Name(code[j].instr), CallsClass(code[j]))'
                        /\ e.mth # NONE /\ e.mth.args_cnt = code'[j].s.args
      BY DEF CachesCurrent
    <3>1. PICK n, s : n = Name(code[j].instr) /\ s = CallsClass(code[j])
      OBVIOUS
    <3>2. n = Name(code[j].instr)' /\ s = CallsClass(code[j])'
      BY <2>5, <3>1
    <3>3. vm_find_method_in_class(e.cls, n, s)' = vm_find_method_in_class(e.cls, n, s)
      BY <2>4, LookupFixed
    <3>4. e.mth = vm_find_method_in_class(e.cls, n, s)
          /\ e.mth # NONE /\ e.mth.args_cnt = code[j].s.args
      BY <2>6, <3>1
    <3> QED
      BY <2>4, <3>2, <3>3, <3>4
  <2>8. IsSeq(objs')
    BY <2>1, EnterKeeps DEF IInv
  <2> QED
    BY <2>1, <2>7, <2>8 DEF IInv, Untouched, InMachine
<1> QED
  BY <1>1, <1>2

LEMMA CallStep ==
  ASSUME IInv, phase = "run", UNCHANGED Fixed, NEW i \in DOMAIN code,
         NEW this \in MayRun(code[i]), Call(i, code[i].instr, this)
  PROVE  IInv'
<1>1. /\ (this.o = NONE) <=> code[i].static
      /\ NONE \notin DOMAIN objs
  BY ThisFacts, ObjectsFacts DEF IInv
<1>2. ASSUME code[i].instr.op \in {"CALL", "CALLS"}, NEW cls, CALLE(i, cls, this.o, code[i].s.args)
      PROVE  IInv'
  <2>1. (this.o = NONE) <=> CallsClass(code[i])
    BY <1>1, <1>2 DEF CallsClass
  <2> QED
    BY <1>2, <2>1, CachedCall
<1>3. ASSUME code[i].instr.op = "CALLE", code[i].instr.cls # 0, NEW cls,
             CALLE(i, cls, NONE, code[i].s.args)
      PROVE  IInv'
  <2>1. CallsClass(code[i])
    BY <1>3 DEF CallsClass
  <2> QED
    BY <1>3, <2>1, CachedCall
<1>4. ASSUME code[i].instr.op = "CALLE", code[i].instr.cls = 0, NEW o \in DOMAIN objs, NEW cls,
             CALLE(i, cls, o, code[i].s.args)
      PROVE  IInv'
  <2>1. ~CallsClass(code[i]) /\ o # NONE
    BY <1>1, <1>4 DEF CallsClass
  <2>2. (o = NONE) <=> CallsClass(code[i])
    BY <2>1
  <2>3. CALLE(i, cls, o, code[i].s.args)
    BY <1>4
  <2> QED
    BY <2>2, <2>3, CachedCall
<1> QED
  BY <1>2, <1>3, <1>4 DEF Call

LEMMA NewStep ==
  ASSUME IInv, phase = "run", UNCHANGED Fixed, NEW i, NEW x, NewObject(i, x)
  PROVE  IInv'
<1>1. cache' = cache /\ phase' \in {"run", "error"}
  BY DEF NewObject
<1>2. PICK e : objs' = Append(objs, e)
  BY DEF NewObject
<1>3. IsSeq(objs')
  BY <1>2, ObjectsAppended DEF IInv
<1> QED
  BY <1>1, <1>3, CacheKept DEF InMachine

LEMMA RunStep ==
  ASSUME IInv, Run PROVE IInv'
<1>1. phase = "run" /\ UNCHANGED Fixed
  BY DEF Run, Fixed
<1>2. PICK i \in DOMAIN code : \E this \in MayRun(code[i]) :
        \/ Load(code[i].instr, this) \/ Store(code[i].instr, this)
        \/ Call(i, code[i].instr, this) \/ NewObject(i, code[i].instr)
  BY DEF Run
<1>3. PICK this \in MayRun(code[i]) :
        \/ Load(code[i].instr, this) \/ Store(code[i].instr, this)
        \/ Call(i, code[i].instr, this) \/ NewObject(i, code[i].instr)
  BY <1>2
<1> QED
  BY <1>1, <1>3, LoadStep, StoreStep, CallStep, NewStep

\* A cache with nothing in it is current: the compiler and the linker leave
\* them so.
LEMMA CachesEmpty ==
  ASSUME IsSeq(objs'), \A i \in DOMAIN cache' : cache'[i] = EMPTY PROVE IInv'
  BY DEF IInv, Untouched, CachesCurrent, EMPTY

LEMMA BeforeRunning ==
  ASSUME IInv, Next, ~Run PROVE IInv'
<1>1. objs' = objs /\ ~InMachine
  BY DEF Next, Declare, MethodTranslate, bcout_to_file, kexe_load, vm_init_builtin_classes,
         vm_init_parent_pointers, vm_calculate_udo_sizes, vm_init_const_table_elems, machine, InMachine
<1>2. CASE cache' = cache
  BY <1>1, <1>2, CachesEmpty DEF IInv, Untouched
<1>3. CASE kexe_load
  BY <1>1, <1>3, CachesEmpty DEF kexe_load, IInv
<1> QED
  BY <1>2, <1>3 DEF Next, Declare, MethodTranslate, bcout_to_file, vm_init_builtin_classes,
                    vm_init_parent_pointers, vm_calculate_udo_sizes, vm_init_const_table_elems, machine

LEMMA Inductive ==
  Spec => []IInv
<1>1. Init => IInv
  BY EmptySeq DEF Init, IInv, Untouched, CachesCurrent, IsSeq
<1>2. IInv /\ [Next]_vars => IInv'
  <2> SUFFICES ASSUME IInv, [Next]_vars PROVE IInv'
    OBVIOUS
  <2>1. CASE UNCHANGED vars
    <3>1. UNCHANGED <<Fixed, phase, objs, cache>>
      BY <2>1 DEF vars, compiler, machine, Fixed
    <3>2. CASE InMachine
      BY <3>1, <3>2, CacheKept DEF IInv, InMachine, IsSeq
    <3>3. CASE ~InMachine
      BY <3>1, <3>3, CachesEmpty DEF IInv, Untouched, IsSeq
    <3> QED
      BY <3>2, <3>3
  <2> QED
    BY <2>1, RunStep, BeforeRunning
<1> QED
  BY <1>1, <1>2, PTL DEF Spec

---------------------------------------------------------------------------
\* CachesCurrent, for every program: a call that hits its inline cache runs the
\* method that the lookup it skips would have found, with the number of
\* arguments that the comparison it skips would have wanted.
THEOREM CachedIsCurrent ==
  Spec => []CachesCurrent
<1>1. IInv => CachesCurrent
  BY DEF IInv
<1> QED
  BY <1>1, Inductive, PTL

---------------------------------------------------------------------------
(* The compiler's tables.                                                  *)

\* What the parser makes of a text: classes with a name, which hold members.
IsProgram(p) ==
  \E Ids, Parents, Members :
    /\ p \in Seq([name : Ids, parent : Parents, body : Seq(Members)])
    /\ NONE \notin Ids /\ CLASS_UNKNOWN \notin Ids
    /\ \A d \in Members : d.k # "class"

Before(c, s) == <<c>> \o s

LEMMA SeqFacts ==
  ASSUME NEW s, IsSeq(s)
  PROVE  Len(s) \in Nat /\ DOMAIN s = 1..Len(s) /\ (s # <<>> => 1 \in DOMAIN s)
<1>1. PICK S : s \in Seq(S)
  BY DEF IsSeq
<1> QED
  BY <1>1, LenProperties, EmptySeq

\* A new class, or symbol, moves all others one place down.
LEMMA Prepended ==
  ASSUME NEW s, IsSeq(s), NEW c, NEW t, t = Before(c, s)
  PROVE  /\ IsSeq(t) /\ t # <<>>
         /\ Len(t) = Len(s) + 1 /\ DOMAIN t = 1..(Len(s) + 1)
         /\ t[1] = c /\ \A i \in DOMAIN s : t[i + 1] = s[i]
<1>1. PICK S : s \in Seq(S)
  BY DEF IsSeq
<1>2. PICK U : U = S \cup {c}
  OBVIOUS
<1>3. s \in Seq(U) /\ <<c>> \in Seq(U)
  BY <1>1, <1>2, SeqMonotonic
<1>4. PICK n \in Nat : n = Len(s) /\ DOMAIN s = 1..n
  BY <1>3, LenProperties
<1>5. Len(<<c>>) = 1
  OBVIOUS
<1>6. t \in Seq(U) /\ Len(t) = 1 + n
      /\ \A i \in 1..(1 + n) : t[i] = IF i <= 1 THEN <<c>>[i] ELSE s[i - 1]
  BY <1>3, <1>4, <1>5, ConcatProperties DEF Before
<1>7. t[1] = c
  BY <1>6
<1>8. ASSUME NEW i \in 1..n PROVE t[i + 1] = s[i]
  <2>1. i + 1 \in 1..(1 + n) /\ ~(i + 1 <= 1) /\ (i + 1) - 1 = i
    BY <1>4
  <2> QED
    BY <1>6, <2>1
<1>9. DOMAIN t = 1..(n + 1) /\ Len(t) = n + 1
  BY <1>6, LenProperties
<1>10. t # <<>>
  <2>1. Len(<<>>) = 0 /\ Len(t) # 0
    BY <1>4, <1>9, EmptySeq
  <2> QED
    BY <2>1
<1>11. IsSeq(t)
  BY <1>6 DEF IsSeq
<1> QED
  BY <1>4, <1>7, <1>8, <1>9, <1>10, <1>11

\* A member changes the class that is being read, and no other.
LEMMA Replaced ==
  ASSUME NEW s, IsSeq(s), s # <<>>, NEW c, NEW t, t = Before(c, Tail(s))
  PROVE  /\ IsSeq(t) /\ t # <<>> /\ Len(t) = Len(s) /\ DOMAIN t = DOMAIN s
         /\ t[1] = c /\ \A i \in DOMAIN s \ {1} : t[i] = s[i]
<1>1. PICK S : s \in Seq(S)
  BY DEF IsSeq
<1>2. PICK n \in Nat : n = Len(s) /\ DOMAIN s = 1..n /\ n >= 1
  BY <1>1, LenProperties, EmptySeq
<1>3. PICK r : r = Tail(s)
  OBVIOUS
<1>4. /\ r \in Seq(S) /\ Len(r) = n - 1
      /\ \A i \in 1..(n - 1) : r[i] = s[i + 1]
  BY <1>1, <1>2, <1>3, HeadTailProperties
<1>5. IsSeq(r) /\ DOMAIN r = 1..(n - 1)
  BY <1>2, <1>4, LenProperties DEF IsSeq
<1>6. /\ IsSeq(t) /\ t # <<>> /\ Len(t) = n /\ DOMAIN t = 1..n
      /\ t[1] = c /\ \A i \in 1..(n - 1) : t[i + 1] = r[i]
  <2>1. t = Before(c, r)
    BY <1>3
  <2>2. /\ IsSeq(t) /\ t # <<>> /\ Len(t) = Len(r) + 1 /\ DOMAIN t = 1..(Len(r) + 1)
        /\ t[1] = c /\ \A i \in DOMAIN r : t[i + 1] = r[i]
    BY <1>5, <2>1, Prepended
  <2>3. Len(r) + 1 = n
    BY <1>2, <1>4
  <2> QED
    BY <1>5, <2>2, <2>3
<1>7. ASSUME NEW i \in DOMAIN s \ {1} PROVE t[i] = s[i]
  <2>1. i - 1 \in 1..(n - 1) /\ (i - 1) + 1 = i
    BY <1>2
  <2> QED
    BY <1>4, <1>6, <2>1
<1> QED
  BY <1>2, <1>6, <1>7

\* The declarations of all classes, one after the other, begin with the first
\* of the first class.
LEMMA Flattened ==
  ASSUME NEW E, NEW s \in Seq(Seq(E))
  PROVE  /\ FlattenSeq(s) \in Seq(E)
         /\ s # <<>> /\ s[1] # <<>> => FlattenSeq(s)[1] = s[1][1]
<1>0. PICK N \in Nat : N = Len(s) /\ DOMAIN s = 1..N
  BY LenProperties
<1>1. CASE N = 0
  <2>1. s = <<>>
    BY <1>0, <1>1, EmptySeq
  <2>2. FlattenSeq(s) = s
    BY <1>0, <1>1 DEF FlattenSeq
  <2> QED
    BY <2>1, <2>2, EmptySeq
<1>2. CASE N # 0
  <2> DEFINE Is(f, k) == f = [i \in 1..k |-> IF i = 1 THEN s[i] ELSE f[i - 1] \o s[i]]
             T == {k \in Nat : \E f : Is(f, k)}
  <2>1. 0 \in T
    <3>1. PICK f : f = [i \in 1..0 |-> {}]
      OBVIOUS
    <3>2. f = [i \in 1..0 |-> IF i = 1 THEN s[i] ELSE f[i - 1] \o s[i]]
      BY <3>1
    <3> QED
      BY <3>2
  <2>2. ASSUME NEW k \in T PROVE k + 1 \in T
    <3>1. PICK f : f = [i \in 1..k |-> IF i = 1 THEN s[i] ELSE f[i - 1] \o s[i]]
      OBVIOUS
    <3>2. PICK g : g = [i \in 1..(k + 1) |->
                         IF i <= k THEN f[i] ELSE IF i = 1 THEN s[i] ELSE f[k] \o s[i]]
      OBVIOUS
    <3>3. ASSUME NEW i \in 1..(k + 1)
          PROVE  g[i] = IF i = 1 THEN s[i] ELSE g[i - 1] \o s[i]
      <4>1. CASE i <= k /\ i = 1
        <5>1. i \in 1..k
          BY <4>1
        <5> QED
          BY <3>1, <3>2, <4>1, <5>1
      <4>2. CASE i <= k /\ i # 1
        <5>1. i \in 1..k /\ i - 1 \in 1..k /\ i - 1 \in 1..(k + 1) /\ i - 1 <= k
          BY <4>2
        <5>2. g[i] = f[i] /\ g[i - 1] = f[i - 1]
          BY <3>2, <4>2, <5>1
        <5>3. f[i] = f[i - 1] \o s[i]
          BY <3>1, <4>2, <5>1
        <5> QED
          BY <4>2, <5>2, <5>3
      <4>3. CASE ~(i <= k) /\ i = 1
        BY <3>2, <4>3
      <4>4. CASE ~(i <= k) /\ i # 1
        <5>1. i = k + 1 /\ i - 1 = k /\ k \in 1..(k + 1) /\ k <= k
          BY <4>4
        <5>2. g[k] = f[k]
          BY <3>2, <5>1
        <5>3. g[i] = f[k] \o s[i]
          BY <3>2, <4>4
        <5> QED
          BY <4>4, <5>1, <5>2, <5>3
      <4> QED
        BY <4>1, <4>2, <4>3, <4>4
    <3>4. g = [i \in 1..(k + 1) |-> IF i = 1 THEN s[i] ELSE g[i - 1] \o s[i]]
      BY <3>2, <3>3
    <3>5. Is(g, k + 1)
      BY <3>4
    <3>6. k + 1 \in Nat /\ \E h : Is(h, k + 1)
      <4> HIDE DEF Is
      <4> QED
        BY <3>5
    <3> QED
      BY <3>6
  <2>3. \E f : Is(f, N)
    <3>1. T = Nat
      <4> HIDE DEF T
      <4>1. T \in SUBSET Nat
        BY DEF T
      <4> QED
        BY <2>1, <2>2, <4>1, Climb
    <3> QED
      BY <3>1
  <2> HIDE DEF T
  <2>4. PICK f : /\ f = [i \in 1..N |-> IF i = 1 THEN s[i] ELSE f[i - 1] \o s[i]]
                 /\ FlattenSeq(s) = f[N]
    <3>1. PICK f : f = (CHOOSE h : h = [i \in 1..Len(s) |-> IF i = 1 THEN s[i] ELSE h[i - 1] \o s[i]])
      OBVIOUS
    <3>2. f = [i \in 1..N |-> IF i = 1 THEN s[i] ELSE f[i - 1] \o s[i]]
      BY <1>0, <2>3, <3>1
    <3>3. FlattenSeq(s) = f[N]
      BY <1>0, <1>2, <3>1 DEF FlattenSeq
    <3> QED
      BY <3>2, <3>3
  <2> DEFINE U == {k \in Nat : k + 1 <= N =>
                     /\ f[k + 1] \in Seq(E)
                     /\ s[1] # <<>> => f[k + 1] # <<>> /\ f[k + 1][1] = s[1][1]}
  <2>5. 0 \in U
    <3>1. 1 \in 1..N /\ 1 \in DOMAIN s /\ 0 + 1 = 1
      BY <1>0, <1>2
    <3>2. f[1] = s[1] /\ s[1] \in Seq(E)
      BY <2>4, <3>1, ElementOfSeq, <1>0
    <3> QED
      BY <3>1, <3>2
  <2>6. ASSUME NEW k \in U PROVE k + 1 \in U
    <3>1. SUFFICES ASSUME k + 2 <= N
                   PROVE  /\ f[k + 2] \in Seq(E)
                          /\ s[1] # <<>> => f[k + 2] # <<>> /\ f[k + 2][1] = s[1][1]
      BY (k + 1) + 1 = k + 2
    <3>2. k + 2 \in 1..N /\ k + 2 # 1 /\ (k + 2) - 1 = k + 1 /\ k + 1 <= N
      BY <1>0, <3>1
    <3>3. PICK a, b : a = f[k + 1] /\ b = s[k + 2]
      OBVIOUS
    <3>4. f[k + 2] = a \o b
      BY <2>4, <3>2, <3>3
    <3>5. a \in Seq(E) /\ (s[1] # <<>> => a # <<>> /\ a[1] = s[1][1])
      BY <3>2, <3>3
    <3>6. b \in Seq(E)
      BY <1>0, <3>2, <3>3, ElementOfSeq
    <3>7. a \o b \in Seq(E)
      BY <3>5, <3>6, ConcatProperties
    <3>8. ASSUME a # <<>> PROVE a \o b # <<>> /\ (a \o b)[1] = a[1]
      <4>1. PICK m \in Nat, n \in Nat : m = Len(a) /\ n = Len(b) /\ m >= 1
        BY <3>5, <3>6, <3>8, LenProperties, EmptySeq
      <4>2. Len(a \o b) = m + n /\ (a \o b)[1] = a[1]
        BY <3>5, <3>6, <4>1, ConcatProperties
      <4>3. Len(<<>>) = 0 /\ m + n # 0
        BY <4>1, EmptySeq
      <4> QED
        BY <4>2, <4>3
    <3> QED
      BY <3>4, <3>5, <3>7, <3>8
  <2>7. U = Nat
    <3> HIDE DEF U
    <3>1. U \in SUBSET Nat
      BY DEF U
    <3> QED
      BY <2>5, <2>6, <3>1, Climb
  <2>8. N - 1 \in Nat /\ (N - 1) + 1 = N
    BY <1>0, <1>2
  <2>9. N - 1 \in U
    BY <2>7, <2>8
  <2>10. f[N] \in Seq(E) /\ (s[1] # <<>> => f[N][1] = s[1][1])
    BY <1>0, <2>8, <2>9
  <2> QED
    BY <2>4, <2>10
<1> QED
  BY <1>1, <1>2

---------------------------------------------------------------------------
\* The addresses from a on are all given to members of kind sc, up to the next.
Fill(c, sc, a) ==
  /\ a \in Nat /\ NextAddr(c, sc) \in Nat /\ a <= NextAddr(c, sc)
  /\ Addresses(c, sc) = a..(NextAddr(c, sc) - 1)

SymsOK(c) ==
  /\ IsSeq(c.syms)
  /\ \A p \in DOMAIN c.syms : c.syms[p].sc \in Scopes
  /\ \A p, q \in DOMAIN c.syms :
       c.syms[p].sc = c.syms[q].sc /\ c.syms[p].addr = c.syms[q].addr => p = q

IsClass(c) ==
  /\ c = [className |-> c.className, parentName |-> c.parentName, parent |-> c.parent,
          class_addr_next |-> c.class_addr_next, obj_addr_next |-> c.obj_addr_next,
          syms |-> c.syms, methods |-> c.methods,
          constructor |-> c.constructor, static_init |-> c.static_init]
  /\ c.className \notin {NONE, CLASS_UNKNOWN}

\* A class begins where its parent ends; the parent is complete, so it stays so.
TabOK(tab) ==
  /\ IsSeq(tab)
  /\ \A i \in DOMAIN tab :
       /\ IsClass(tab[i]) /\ SymsOK(tab[i])
       /\ \A sc \in Scopes : Fill(tab[i], sc, FirstAddr(tab, i, sc))

LEMMA ParentFacts ==
  ASSUME NEW tab, IsSeq(tab), NEW i \in DOMAIN tab, NEW k \in ParentAt(tab, i)
  PROVE  /\ k \in DOMAIN tab /\ k \in Nat /\ i \in Nat /\ i < k
         /\ ParentAt(tab, i) = {k}
         /\ \A sc : FirstAddr(tab, i, sc) = NextAddr(tab[k], sc)
<1>1. PICK n \in Nat : n = Len(tab) /\ DOMAIN tab = 1..n
  BY SeqFacts
<1>2. /\ k \in (i + 1)..n /\ tab[k].className = tab[i].parent
      /\ \A j \in (i + 1)..(k - 1) : tab[j].className # tab[i].parent
  BY <1>1 DEF ParentAt
<1>3. i \in Nat /\ k \in Nat /\ k \in 1..n /\ i < k
  BY <1>1, <1>2
<1>4. ASSUME NEW l \in ParentAt(tab, i) PROVE l = k
  <2>1. /\ l \in (i + 1)..n /\ tab[l].className = tab[i].parent
        /\ \A j \in (i + 1)..(l - 1) : tab[j].className # tab[i].parent
    BY <1>1 DEF ParentAt
  <2>2. ~(l < k)
    <3>1. l < k => l \in (i + 1)..(k - 1)
      BY <1>3, <2>1
    <3> QED
      BY <1>2, <2>1, <3>1
  <2>3. ~(k < l)
    <3>1. k < l => k \in (i + 1)..(l - 1)
      BY <1>2, <1>3, <2>1
    <3> QED
      BY <1>2, <2>1, <3>1
  <2> QED
    BY <1>3, <2>1, <2>2, <2>3
<1>5. ParentAt(tab, i) = {k}
  BY <1>4
<1>6. (CHOOSE l \in ParentAt(tab, i) : TRUE) = k
  BY <1>4
<1>7. \A sc : FirstAddr(tab, i, sc) = NextAddr(tab[k], sc)
  BY <1>5, <1>6 DEF FirstAddr
<1> QED
  BY <1>1, <1>3, <1>5, <1>7

\* A table is sound if every class of it is one of a sound table with the same
\* first addresses.
LEMMA Same ==
  ASSUME NEW tab, TabOK(tab), NEW i \in DOMAIN tab, NEW t, NEW j, t[j] = tab[i],
         \A sc : FirstAddr(t, j, sc) = FirstAddr(tab, i, sc)
  PROVE  /\ IsClass(t[j]) /\ SymsOK(t[j])
         /\ \A sc \in Scopes : Fill(t[j], sc, FirstAddr(t, j, sc))
  BY DEF TabOK

\* hledejClass finds the first class of a name.
LEMMA Found ==
  ASSUME NEW tab, IsSeq(tab), NEW id
  PROVE  \/ hledejClass(tab, id) = NONE /\ \A i \in DOMAIN tab : tab[i].className # id
         \/ \E x \in DOMAIN tab :
              /\ hledejClass(tab, id) = tab[x] /\ tab[x].className = id
              /\ \A j \in 1..(x - 1) : tab[j].className # id
<1>1. PICK n \in Nat : n = Len(tab) /\ DOMAIN tab = 1..n
  BY SeqFacts
<1>2. PICK I : I = {i \in 1..n : tab[i].className = id}
  OBVIOUS
<1>3. hledejClass(tab, id) = LET i == IF I # {} THEN Min(I) ELSE 0
                             IN IF i = 0 THEN NONE ELSE tab[i]
  BY <1>1, <1>2 DEF hledejClass, First, SelectInSeq
<1>4. CASE I = {}
  BY <1>1, <1>2, <1>3, <1>4
<1>5. CASE I # {}
  <2>1. \E x \in I : \A y \in I : x <= y
    <3>1. I \in SUBSET Nat
      BY <1>2
    <3> QED
      BY <1>5, <3>1, Least
  <2>2. PICK x : x = Min(I)
    OBVIOUS
  <2>3. x \in I /\ \A y \in I : x <= y
    BY <2>1, <2>2 DEF Min
  <2>4. x \in 1..n /\ tab[x].className = id /\ x # 0
    BY <1>2, <2>3
  <2>5. ASSUME NEW j \in 1..(x - 1) PROVE tab[j].className # id
    <3>1. j \in 1..n /\ ~(x <= j)
      BY <2>4
    <3> QED
      BY <1>2, <2>3, <3>1
  <2>6. hledejClass(tab, id) = tab[x]
    BY <1>3, <1>5, <2>2, <2>4
  <2> QED
    BY <1>1, <2>4, <2>5, <2>6
<1> QED
  BY <1>4, <1>5

\* A class at the front of the table: the others keep their parents.
LEMMA ParentsMoved ==
  ASSUME NEW tab, IsSeq(tab), NEW c, NEW t, t = Before(c, tab), NEW i \in DOMAIN tab
  PROVE  \A sc : FirstAddr(t, i + 1, sc) = FirstAddr(tab, i, sc)
<1>1. PICK n \in Nat : n = Len(tab) /\ DOMAIN tab = 1..n
  BY SeqFacts
<1>2. /\ IsSeq(t) /\ Len(t) = n + 1 /\ DOMAIN t = 1..(n + 1)
      /\ \A j \in 1..n : t[j + 1] = tab[j]
  BY <1>1, Prepended
<1>3. i \in 1..n /\ i + 1 \in DOMAIN t /\ t[i + 1] = tab[i]
  BY <1>1, <1>2
<1>4. ASSUME NEW k \in ParentAt(tab, i) PROVE k + 1 \in ParentAt(t, i + 1)
  <2>1. /\ k \in (i + 1)..n /\ tab[k].className = tab[i].parent
        /\ \A j \in (i + 1)..(k - 1) : tab[j].className # tab[i].parent
    BY <1>1 DEF ParentAt
  <2>2. k \in 1..n /\ k + 1 \in ((i + 1) + 1)..(n + 1) /\ t[k + 1] = tab[k]
    BY <1>2, <1>3, <2>1
  <2>3. ASSUME NEW j \in ((i + 1) + 1)..((k + 1) - 1) PROVE t[j].className # t[i + 1].parent
    <3>1. j - 1 \in (i + 1)..(k - 1) /\ j - 1 \in 1..n /\ (j - 1) + 1 = j
      BY <1>3, <2>1
    <3>2. t[j] = tab[j - 1]
      BY <1>2, <3>1
    <3> QED
      BY <1>3, <2>1, <3>1, <3>2
  <2> QED
    BY <1>2, <1>3, <2>1, <2>2, <2>3 DEF ParentAt
<1>5. ASSUME NEW l \in ParentAt(t, i + 1) PROVE l - 1 \in ParentAt(tab, i)
  <2>1. /\ l \in ((i + 1) + 1)..(n + 1) /\ t[l].className = t[i + 1].parent
        /\ \A j \in ((i + 1) + 1)..(l - 1) : t[j].className # t[i + 1].parent
    BY <1>2 DEF ParentAt
  <2>2. l - 1 \in 1..n /\ l - 1 \in (i + 1)..n /\ (l - 1) + 1 = l
    BY <1>3, <2>1
  <2>3. t[l] = tab[l - 1]
    BY <1>2, <2>2
  <2>4. ASSUME NEW j \in (i + 1)..((l - 1) - 1) PROVE tab[j].className # tab[i].parent
    <3>1. j \in 1..n /\ j + 1 \in ((i + 1) + 1)..(l - 1)
      BY <1>3, <2>1
    <3>2. t[j + 1] = tab[j]
      BY <1>2, <3>1
    <3> QED
      BY <1>3, <2>1, <3>1, <3>2
  <2> QED
    BY <1>1, <1>3, <2>1, <2>2, <2>3, <2>4 DEF ParentAt
<1>6. CASE ParentAt(tab, i) = {}
  <2>1. ParentAt(t, i + 1) = {}
    BY <1>5, <1>6
  <2> QED
    BY <1>6, <2>1 DEF FirstAddr
<1>7. ASSUME NEW k \in ParentAt(tab, i) PROVE \A sc : FirstAddr(t, i + 1, sc) = FirstAddr(tab, i, sc)
  <2>1. k \in 1..n /\ k + 1 \in ParentAt(t, i + 1)
    BY <1>1, <1>4, <1>7, ParentFacts
  <2>2. \A sc : FirstAddr(tab, i, sc) = NextAddr(tab[k], sc)
    BY ParentFacts
  <2>3. \A sc : FirstAddr(t, i + 1, sc) = NextAddr(t[k + 1], sc)
    <3>1. PICK j \in DOMAIN t : j = i + 1
      BY <1>3
    <3>2. PICK l \in ParentAt(t, j) : l = k + 1
      BY <2>1, <3>1
    <3>3. \A sc : FirstAddr(t, j, sc) = NextAddr(t[l], sc)
      BY <1>2, ParentFacts
    <3> QED
      BY <3>1, <3>2, <3>3
  <2> QED
    BY <1>2, <2>1, <2>2, <2>3
<1> QED
  BY <1>6, <1>7

\* A new class goes on where its parent ends.
LEMMA NewClass ==
  ASSUME NEW tab, TabOK(tab), NEW name, name \notin {NONE, CLASS_UNKNOWN}, NEW par
  PROVE  TabOK(Before(ClassEnv(tab, name, par), tab))
<1>1. PICK c : c = ClassEnv(tab, name, par)
  OBVIOUS
<1>2. PICK t : t = Before(c, tab)
  OBVIOUS
<1>3. PICK n \in Nat : n = Len(tab) /\ DOMAIN tab = 1..n
  BY SeqFacts DEF TabOK
<1>4. /\ IsSeq(t) /\ Len(t) = n + 1 /\ DOMAIN t = 1..(n + 1) /\ t[1] = c
      /\ \A j \in 1..n : t[j + 1] = tab[j]
  BY <1>2, <1>3, Prepended DEF TabOK
<1>5. c.className = name /\ c.syms = <<>> /\ IsClass(c)
  BY <1>1 DEF ClassEnv, IsClass
<1>6. SymsOK(c) /\ \A sc : Addresses(c, sc) = {}
  <2>1. IsSeq(<<>>) /\ DOMAIN <<>> = {}
    BY EmptySeq DEF IsSeq
  <2> QED
    BY <1>5, <2>1 DEF SymsOK, Addresses, Range
<1>7. \A sc \in Scopes : NextAddr(c, sc) \in Nat /\ FirstAddr(t, 1, sc) = NextAddr(c, sc)
  <2>1. PICK p : p = hledejClass(tab, par)
    OBVIOUS
  <2>2. CASE p = NONE
    <3>1. c.class_addr_next = 0 /\ c.obj_addr_next = 0 /\ c.parent \in {NONE, CLASS_UNKNOWN}
      BY <1>1, <2>1, <2>2 DEF ClassEnv
    <3>2. \A k \in 1..n : tab[k].className \notin {NONE, CLASS_UNKNOWN}
      BY <1>3 DEF TabOK, IsClass
    <3>3. ASSUME NEW k \in ParentAt(t, 1) PROVE FALSE
      <4>1. k \in 2..(n + 1) /\ t[k].className = c.parent
        BY <1>4 DEF ParentAt
      <4>2. k - 1 \in 1..n /\ (k - 1) + 1 = k
        BY <4>1
      <4>3. t[k] = tab[k - 1]
        BY <1>4, <4>2
      <4> QED
        BY <3>1, <3>2, <4>1, <4>2, <4>3
    <3> QED
      BY <3>1, <3>3 DEF FirstAddr, NextAddr
  <2>3. CASE p # NONE
    <3>1. PICK x \in 1..n : /\ p = tab[x] /\ tab[x].className = par
                            /\ \A j \in 1..(x - 1) : tab[j].className # par
      BY <1>3, <2>1, <2>3, Found DEF TabOK
    <3>2. par # NONE
      BY <1>3, <3>1 DEF TabOK, IsClass
    <3>3. /\ c.parent = par /\ c.class_addr_next = p.class_addr_next
          /\ c.obj_addr_next = p.obj_addr_next
      BY <1>1, <2>1, <2>3, <3>2 DEF ClassEnv
    <3>4. x + 1 \in ParentAt(t, 1)
      <4>1. x + 1 \in 2..(n + 1) /\ 1 + 1 = 2 /\ t[x + 1] = tab[x]
        BY <1>4
      <4>2. ASSUME NEW j \in 2..((x + 1) - 1) PROVE t[j].className # t[1].parent
        <5>1. j - 1 \in 1..(x - 1) /\ j - 1 \in 1..n /\ (j - 1) + 1 = j
          OBVIOUS
        <5>2. t[j] = tab[j - 1]
          BY <1>4, <5>1
        <5> QED
          BY <1>4, <3>1, <3>3, <5>1, <5>2
      <4> QED
        BY <1>4, <3>1, <3>3, <4>1, <4>2 DEF ParentAt
    <3>5. 1 \in DOMAIN t /\ t[x + 1] = p
      BY <1>4, <3>1
    <3>6. \A sc : FirstAddr(t, 1, sc) = NextAddr(p, sc)
      BY <1>4, <3>4, <3>5, ParentFacts
    <3>7. \A sc : NextAddr(c, sc) = NextAddr(p, sc)
      BY <3>3 DEF NextAddr
    <3>8. \A sc \in Scopes : NextAddr(p, sc) \in Nat
      BY <1>3, <3>1 DEF TabOK, Fill
    <3> QED
      BY <3>6, <3>7, <3>8
  <2> QED
    BY <2>2, <2>3
<1>8. \A sc \in Scopes : Fill(c, sc, FirstAddr(t, 1, sc))
  <2> SUFFICES ASSUME NEW sc \in Scopes PROVE Fill(c, sc, FirstAddr(t, 1, sc))
    OBVIOUS
  <2>1. PICK a \in Nat : a = NextAddr(c, sc) /\ a = FirstAddr(t, 1, sc)
    BY <1>7
  <2>2. a..(a - 1) = {} /\ a <= a
    OBVIOUS
  <2> QED
    BY <1>6, <2>1, <2>2 DEF Fill
<1>9. ASSUME NEW i \in DOMAIN t
      PROVE  IsClass(t[i]) /\ SymsOK(t[i]) /\ \A sc \in Scopes : Fill(t[i], sc, FirstAddr(t, i, sc))
  <2>1. CASE i = 1
    BY <1>4, <1>5, <1>6, <1>8, <2>1
  <2>2. CASE i # 1
    <3>1. i - 1 \in 1..n /\ (i - 1) + 1 = i
      BY <1>4, <2>2
    <3>2. t[i] = tab[i - 1]
      BY <1>4, <3>1
    <3>3. \A sc : FirstAddr(t, i, sc) = FirstAddr(tab, i - 1, sc)
      <4>1. PICK j \in DOMAIN tab : j = i - 1 /\ j + 1 = i
        BY <1>3, <3>1
      <4> QED
        <5>1. IsSeq(tab)
          BY DEF TabOK
        <5>2. \A sc : FirstAddr(t, j + 1, sc) = FirstAddr(tab, j, sc)
          BY <1>2, <5>1, ParentsMoved
        <5> QED
          BY <4>1, <5>2
    <3> QED
      BY <1>3, <3>1, <3>2, <3>3, Same
  <2> QED
    BY <2>1, <2>2
<1> QED
  BY <1>1, <1>2, <1>4, <1>9 DEF TabOK

\* The class that is being read gets another member or method: all keep their
\* parents, and a parent has been read.
LEMMA Restated ==
  ASSUME NEW tab, TabOK(tab), tab # <<>>, NEW c, NEW t, t = Before(c, Tail(tab)),
         IsClass(c), SymsOK(c), c.className = tab[1].className, c.parent = tab[1].parent,
         \A sc \in Scopes : Fill(c, sc, FirstAddr(tab, 1, sc))
  PROVE  TabOK(t)
<1>1. PICK n \in Nat : n = Len(tab) /\ DOMAIN tab = 1..n /\ 1 \in 1..n
  BY SeqFacts DEF TabOK
<1>2. /\ IsSeq(t) /\ Len(t) = n /\ DOMAIN t = 1..n /\ t[1] = c
      /\ \A i \in 1..n \ {1} : t[i] = tab[i]
  BY <1>1, Replaced DEF TabOK
<1>3. \A i \in 1..n : t[i].className = tab[i].className /\ t[i].parent = tab[i].parent
  BY <1>2
<1>4. ASSUME NEW i \in 1..n PROVE ParentAt(t, i) = ParentAt(tab, i)
  <2>1. \A k \in (i + 1)..n : k \in 1..n /\ \A j \in (i + 1)..(k - 1) : j \in 1..n
    BY <1>1
  <2> QED
    BY <1>1, <1>2, <1>3, <1>4, <2>1 DEF ParentAt
<1>5. ASSUME NEW i \in 1..n PROVE \A sc : FirstAddr(t, i, sc) = FirstAddr(tab, i, sc)
  <2>1. CASE ParentAt(tab, i) = {}
    BY <1>4, <2>1 DEF FirstAddr
  <2>2. ASSUME NEW k \in ParentAt(tab, i) PROVE \A sc : FirstAddr(t, i, sc) = FirstAddr(tab, i, sc)
    <3>1. k \in 1..n /\ k # 1
      <4>1. k \in DOMAIN tab /\ k \in Nat /\ i \in Nat /\ i < k
        BY <1>1, <2>2, ParentFacts DEF TabOK
      <4> QED
        BY <1>1, <4>1
    <3>2. \A sc : FirstAddr(tab, i, sc) = NextAddr(tab[k], sc)
      BY <1>1, <2>2, ParentFacts DEF TabOK
    <3>3. \A sc : FirstAddr(t, i, sc) = NextAddr(t[k], sc)
      BY <1>2, <1>4, <2>2, ParentFacts
    <3> QED
      BY <1>2, <3>1, <3>2, <3>3
  <2> QED
    BY <2>1, <2>2
<1>6. ASSUME NEW i \in 1..n
      PROVE  IsClass(t[i]) /\ SymsOK(t[i]) /\ \A sc \in Scopes : Fill(t[i], sc, FirstAddr(t, i, sc))
  <2>1. CASE i = 1
    BY <1>2, <1>5, <2>1
  <2>2. CASE i # 1
    BY <1>1, <1>2, <1>5, <2>2, Same
  <2> QED
    BY <2>1, <2>2
<1> QED
  BY <1>2, <1>6 DEF TabOK

\* A member takes the next address, which nobody has.
LEMMA NewMember ==
  ASSUME NEW tab, TabOK(tab), tab # <<>>, NEW c, NEW sc \in Scopes, NEW sym,
         sym.sc = sc, sym.addr = NextAddr(tab[1], sc),
         IsClass(c), c.className = tab[1].className, c.parent = tab[1].parent,
         c.syms = Before(sym, tab[1].syms),
         NextAddr(c, sc) = NextAddr(tab[1], sc) + 1,
         \A s \in Scopes \ {sc} : NextAddr(c, s) = NextAddr(tab[1], s)
  PROVE  TabOK(Before(c, Tail(tab)))
<1>1. 1 \in DOMAIN tab
  BY SeqFacts DEF TabOK
<1>2. PICK old : old = tab[1].syms
  OBVIOUS
<1>3. /\ IsSeq(old) /\ SymsOK(tab[1])
      /\ \A s \in Scopes : Fill(tab[1], s, FirstAddr(tab, 1, s))
  BY <1>1, <1>2 DEF TabOK, SymsOK
<1>4. PICK new : new = c.syms
  OBVIOUS
<1>5. PICK m \in Nat : m = Len(old) /\ DOMAIN old = 1..m
  BY <1>3, SeqFacts
<1>6. /\ IsSeq(new) /\ DOMAIN new = 1..(m + 1) /\ new[1] = sym
      /\ \A p \in 1..m : new[p + 1] = old[p]
  BY <1>2, <1>3, <1>4, <1>5, Prepended
<1>7. \A q \in 1..(m + 1) : q = 1 \/ (q - 1 \in 1..m /\ (q - 1) + 1 = q /\ new[q] = old[q - 1])
  <2> SUFFICES ASSUME NEW q \in 1..(m + 1), q # 1
               PROVE  q - 1 \in 1..m /\ (q - 1) + 1 = q /\ new[q] = old[q - 1]
    OBVIOUS
  <2>1. q - 1 \in 1..m /\ (q - 1) + 1 = q
    OBVIOUS
  <2> QED
    BY <1>6, <2>1
<1>8. \A s : Addresses(tab[1], s) = {old[p].addr : p \in {q \in 1..m : old[q].sc = s}}
  BY <1>2, <1>5 DEF Addresses, Range
<1>9. \A s : Addresses(c, s) = {new[p].addr : p \in {q \in 1..(m + 1) : new[q].sc = s}}
  BY <1>4, <1>6 DEF Addresses, Range
<1>10. \A s \in Scopes \ {sc} : Addresses(c, s) = Addresses(tab[1], s)
  <2> SUFFICES ASSUME NEW s \in Scopes \ {sc} PROVE Addresses(c, s) = Addresses(tab[1], s)
    OBVIOUS
  <2>1. ASSUME NEW p \in 1..m, old[p].sc = s
        PROVE  \E q \in 1..(m + 1) : new[q].sc = s /\ new[q].addr = old[p].addr
    <3>1. p + 1 \in 1..(m + 1) /\ new[p + 1] = old[p]
      BY <1>6
    <3> QED
      BY <2>1, <3>1
  <2>2. ASSUME NEW q \in 1..(m + 1), new[q].sc = s
        PROVE  \E p \in 1..m : old[p].sc = s /\ old[p].addr = new[q].addr
    BY <1>6, <1>7, <2>2
  <2>3. Addresses(tab[1], s) \subseteq Addresses(c, s)
    BY <1>8, <1>9, <2>1
  <2>4. Addresses(c, s) \subseteq Addresses(tab[1], s)
    BY <1>8, <1>9, <2>2
  <2> QED
    BY <2>3, <2>4
<1>11. Addresses(c, sc) = Addresses(tab[1], sc) \cup {sym.addr}
  <2>1. ASSUME NEW p \in 1..m, old[p].sc = sc
        PROVE  \E q \in 1..(m + 1) : new[q].sc = sc /\ new[q].addr = old[p].addr
    <3>1. p + 1 \in 1..(m + 1) /\ new[p + 1] = old[p]
      BY <1>6
    <3> QED
      BY <2>1, <3>1
  <2>2. ASSUME NEW q \in 1..(m + 1), new[q].sc = sc
        PROVE  \/ new[q].addr = sym.addr
               \/ \E p \in 1..m : old[p].sc = sc /\ old[p].addr = new[q].addr
    BY <1>6, <1>7, <2>2
  <2>3. 1 \in 1..(m + 1) /\ new[1].sc = sc /\ new[1].addr = sym.addr
    BY <1>6
  <2> QED
    BY <1>8, <1>9, <2>1, <2>2, <2>3
<1>12. \A s \in Scopes : Fill(c, s, FirstAddr(tab, 1, s))
  <2>1. ASSUME NEW s \in Scopes \ {sc} PROVE Fill(c, s, FirstAddr(tab, 1, s))
    BY <1>3, <1>10 DEF Fill
  <2>2. Fill(c, sc, FirstAddr(tab, 1, sc))
    <3>1. PICK a \in Nat, b \in Nat : /\ a = FirstAddr(tab, 1, sc) /\ b = NextAddr(tab[1], sc)
                                      /\ a <= b /\ Addresses(tab[1], sc) = a..(b - 1)
      BY <1>3 DEF Fill
    <3>2. Addresses(c, sc) = a..((b + 1) - 1)
      <4>1. a..(b - 1) \cup {b} = a..((b + 1) - 1)
        BY <3>1
      <4> QED
        BY <1>11, <3>1, <4>1
    <3>3. b + 1 \in Nat /\ a <= b + 1
      BY <3>1
    <3> QED
      BY <3>1, <3>2, <3>3 DEF Fill
  <2> QED
    BY <2>1, <2>2
<1>13. \A p \in 1..m : old[p].sc = sc => old[p].addr # sym.addr
  <2> SUFFICES ASSUME NEW p \in 1..m, old[p].sc = sc, old[p].addr = sym.addr PROVE FALSE
    OBVIOUS
  <2>1. sym.addr \in Addresses(tab[1], sc)
    BY <1>8
  <2>2. PICK a \in Nat, b \in Nat : b = sym.addr /\ Addresses(tab[1], sc) = a..(b - 1)
    BY <1>3 DEF Fill
  <2> QED
    BY <2>1, <2>2
<1>14. SymsOK(c)
  <2>0. /\ \A p \in 1..m : old[p].sc \in Scopes
        /\ \A p, q \in 1..m : old[p].sc = old[q].sc /\ old[p].addr = old[q].addr => p = q
    BY <1>2, <1>3, <1>5 DEF SymsOK
  <2>1. \A p \in 1..(m + 1) : new[p].sc \in Scopes
    BY <2>0, <1>6, <1>7
  <2>2. ASSUME NEW p \in 1..(m + 1), NEW q \in 1..(m + 1),
               new[p].sc = new[q].sc, new[p].addr = new[q].addr
        PROVE  p = q
    <3>1. CASE p = 1 \/ q = 1
      BY <1>6, <1>7, <1>13, <2>2, <3>1
    <3>2. CASE p # 1 /\ q # 1
      <4>1. p - 1 = q - 1
        BY <2>0, <1>7, <2>2, <3>2
      <4> QED
        BY <4>1
    <3> QED
      BY <3>1, <3>2
  <2> QED
    BY <1>4, <1>6, <2>1, <2>2 DEF SymsOK
<1> QED
  BY <1>12, <1>14, Restated

LEMMA DeklProm_OK ==
  ASSUME NEW tab, TabOK(tab), tab # <<>>, NEW id, NEW isStatic
  PROVE  TabOK(Before(deklProm(tab[1], id, isStatic), Tail(tab)))
<1>1. PICK c, o : c = deklProm(tab[1], id, isStatic) /\ o = tab[1]
  OBVIOUS
<1>2. 1 \in DOMAIN tab /\ IsClass(o)
  BY <1>1, SeqFacts DEF TabOK
<1>3. CASE isStatic
  <2>1. PICK sym : sym = PrvekTab(id, "IdProm", "SC_CLASS", o.class_addr_next, 0)
    OBVIOUS
  <2>2. c = [o EXCEPT !.syms = <<sym>> \o o.syms, !.class_addr_next = o.class_addr_next + 1]
    BY <1>1, <1>3, <2>1 DEF deklProm
  <2>3. /\ IsClass(c) /\ c.className = o.className /\ c.parent = o.parent
        /\ c.syms = <<sym>> \o o.syms
        /\ c.class_addr_next = o.class_addr_next + 1 /\ c.obj_addr_next = o.obj_addr_next
    BY <1>2, <2>2 DEF IsClass
  <2>4. sym.sc = "SC_CLASS" /\ sym.addr = NextAddr(o, "SC_CLASS")
    BY <2>1 DEF PrvekTab, NextAddr
  <2>5. /\ NextAddr(c, "SC_CLASS") = NextAddr(o, "SC_CLASS") + 1
        /\ \A s \in Scopes \ {"SC_CLASS"} : NextAddr(c, s) = NextAddr(o, s)
    BY <2>3 DEF NextAddr, Scopes
  <2>6. "SC_CLASS" \in Scopes /\ c.syms = Before(sym, o.syms)
    BY <2>3 DEF Scopes, Before
  <2> QED
    BY <1>1, <2>3, <2>4, <2>5, <2>6, NewMember
<1>4. CASE ~isStatic
  <2>1. PICK sym : sym = PrvekTab(id, "IdProm", "SC_INSTANCE", o.obj_addr_next, 0)
    OBVIOUS
  <2>2. c = [o EXCEPT !.syms = <<sym>> \o o.syms, !.obj_addr_next = o.obj_addr_next + 1]
    BY <1>1, <1>4, <2>1 DEF deklProm
  <2>3. /\ IsClass(c) /\ c.className = o.className /\ c.parent = o.parent
        /\ c.syms = <<sym>> \o o.syms
        /\ c.obj_addr_next = o.obj_addr_next + 1 /\ c.class_addr_next = o.class_addr_next
    BY <1>2, <2>2 DEF IsClass
  <2>4. sym.sc = "SC_INSTANCE" /\ sym.addr = NextAddr(o, "SC_INSTANCE")
    BY <2>1 DEF PrvekTab, NextAddr
  <2>5. /\ NextAddr(c, "SC_INSTANCE") = NextAddr(o, "SC_INSTANCE") + 1
        /\ \A s \in Scopes \ {"SC_INSTANCE"} : NextAddr(c, s) = NextAddr(o, s)
    BY <2>3 DEF NextAddr, Scopes
  <2>6. "SC_INSTANCE" \in Scopes /\ c.syms = Before(sym, o.syms)
    BY <2>3 DEF Scopes, Before
  <2> QED
    BY <1>1, <2>3, <2>4, <2>5, <2>6, NewMember
<1> QED
  BY <1>3, <1>4

LEMMA DeklKonst_OK ==
  ASSUME NEW tab, TabOK(tab), tab # <<>>, NEW id, NEW const_ptr
  PROVE  TabOK(Before(deklKonst(tab[1], id, const_ptr), Tail(tab)))
<1>1. PICK c, o : c = deklKonst(tab[1], id, const_ptr) /\ o = tab[1]
  OBVIOUS
<1>2. 1 \in DOMAIN tab /\ IsClass(o)
  BY <1>1, SeqFacts DEF TabOK
<1>3. PICK sym : sym = PrvekTab(id, "IdConst", "SC_CLASS", o.class_addr_next, const_ptr)
  OBVIOUS
<1>4. c = [o EXCEPT !.syms = <<sym>> \o o.syms, !.class_addr_next = o.class_addr_next + 1]
  BY <1>1, <1>3 DEF deklKonst
<1>5. /\ IsClass(c) /\ c.className = o.className /\ c.parent = o.parent
      /\ c.syms = <<sym>> \o o.syms
      /\ c.class_addr_next = o.class_addr_next + 1 /\ c.obj_addr_next = o.obj_addr_next
  BY <1>2, <1>4 DEF IsClass
<1>6. sym.sc = "SC_CLASS" /\ sym.addr = NextAddr(o, "SC_CLASS")
  BY <1>3 DEF PrvekTab, NextAddr
<1>7. /\ NextAddr(c, "SC_CLASS") = NextAddr(o, "SC_CLASS") + 1
      /\ \A s \in Scopes \ {"SC_CLASS"} : NextAddr(c, s) = NextAddr(o, s)
  BY <1>5 DEF NextAddr, Scopes
<1>8. "SC_CLASS" \in Scopes /\ c.syms = Before(sym, o.syms)
  BY <1>5 DEF Scopes, Before
<1> QED
  BY <1>1, <1>5, <1>6, <1>7, <1>8, NewMember

\* Methods have no addresses.
LEMMA DeklMethod_OK ==
  ASSUME NEW tab, TabOK(tab), tab # <<>>, NEW d, NEW mth
  PROVE  TabOK(Before(deklMethod(tab[1], d, mth), Tail(tab)))
<1>1. PICK c, o : c = deklMethod(tab[1], d, mth) /\ o = tab[1]
  OBVIOUS
<1>2. /\ 1 \in DOMAIN tab /\ IsClass(o) /\ SymsOK(o)
      /\ \A sc \in Scopes : Fill(o, sc, FirstAddr(tab, 1, sc))
  BY <1>1, SeqFacts DEF TabOK
<1>3. \E m : \/ c = [o EXCEPT !.methods = m] \/ c = [o EXCEPT !.constructor = m]
             \/ c = [o EXCEPT !.static_init = m]
  BY <1>1 DEF deklMethod
<1>4. /\ IsClass(c) /\ c.className = o.className /\ c.parent = o.parent /\ c.syms = o.syms
      /\ c.class_addr_next = o.class_addr_next /\ c.obj_addr_next = o.obj_addr_next
  BY <1>2, <1>3 DEF IsClass
<1>5. SymsOK(c) /\ \A sc : NextAddr(c, sc) = NextAddr(o, sc) /\ Addresses(c, sc) = Addresses(o, sc)
  BY <1>2, <1>4 DEF SymsOK, NextAddr, Addresses
<1>6. \A sc \in Scopes : Fill(c, sc, FirstAddr(tab, 1, sc))
  BY <1>2, <1>5 DEF Fill
<1> QED
  BY <1>1, <1>4, <1>5, <1>6, Restated

---------------------------------------------------------------------------
\* The declarations that are left; the first of all is of a class.
TodoOK ==
  /\ IsSeq(todo)
  /\ \A j \in DOMAIN todo : todo[j].k = "class" => todo[j].id \notin {NONE, CLASS_UNKNOWN}
  /\ TabClass = <<>> /\ todo # <<>> => todo[1].k = "class"

TablesInv == TabOK(TabClass) /\ TodoOK

LEMMA DeclareStep ==
  ASSUME TablesInv, Declare
  PROVE  TablesInv'
<1>1. PICK d : d = Head(todo)
  OBVIOUS
<1>2. /\ todo # <<>> /\ todo' = Tail(todo)
      /\ Trida(d) \/ DeklProm(d) \/ DeklKonst(d) \/ Metoda(d)
  BY <1>1 DEF Declare
<1>3. PICK n \in Nat : n = Len(todo) /\ DOMAIN todo = 1..n /\ 1 \in 1..n
  BY <1>2, SeqFacts DEF TablesInv, TodoOK
<1>4. d = todo[1]
  BY <1>1, <1>2, <1>3 DEF TablesInv, TodoOK, IsSeq
<1>5. /\ IsSeq(todo') /\ DOMAIN todo' = 1..(n - 1)
      /\ \A j \in 1..(n - 1) : j + 1 \in 1..n /\ todo'[j] = todo[j + 1]
  <2>1. PICK S : todo \in Seq(S)
    BY DEF TablesInv, TodoOK, IsSeq
  <2>2. /\ Tail(todo) \in Seq(S) /\ Len(Tail(todo)) = n - 1
        /\ \A j \in 1..(n - 1) : Tail(todo)[j] = todo[j + 1]
    BY <1>2, <1>3, <2>1, HeadTailProperties
  <2>3. DOMAIN Tail(todo) = 1..(n - 1)
    BY <2>2, LenProperties
  <2> QED
    BY <1>2, <1>3, <2>2, <2>3 DEF IsSeq
<1>6. TabClass = <<>> => d.k = "class"
  BY <1>2, <1>4 DEF TablesInv, TodoOK
<1>0. PICK t : t = TabClass'
  OBVIOUS
<1>7. TabOK(t) /\ t # <<>>
  <2>1. CASE Rejected
    <3>1. UNCHANGED TabClass
      BY <2>1 DEF Rejected
    <3>2. TabClass # <<>>
      <4>1. ASSUME TabClass = <<>> PROVE FALSE
        <5>1. Trida(d) /\ d.k = "class"
          BY <1>2, <1>6, <4>1 DEF DeklProm, DeklKonst, Metoda
        <5>2. hledejClass(TabClass, d.id) = NONE
          <6>1. IsSeq(TabClass) /\ DOMAIN TabClass = {}
            BY <4>1, EmptySeq DEF IsSeq
          <6> QED
            BY <6>1, Found
        <5>3. TabClass' = <<ClassEnv(TabClass, d.id, d.parent)>> \o TabClass
          BY <5>1, <5>2 DEF Trida
        <5>4. TabClass' # <<>>
          BY <5>3, Prepended DEF Before, TablesInv, TabOK
        <5> QED
          BY <3>1, <4>1, <5>4
      <4> QED
        BY <4>1
    <3> QED
      BY <1>0, <3>1, <3>2 DEF TablesInv
  <2>2. CASE Trida(d) /\ ~Rejected
    <3>1. t = Before(ClassEnv(TabClass, d.id, d.parent), TabClass) /\ d.k = "class"
      BY <1>0, <2>2 DEF Trida, Before
    <3>2. d.id \notin {NONE, CLASS_UNKNOWN}
      BY <1>3, <1>4, <3>1 DEF TablesInv, TodoOK
    <3>3. TabOK(t)
      BY <3>1, <3>2, NewClass DEF TablesInv
    <3>4. t # <<>>
      BY <3>1, Prepended DEF TablesInv, TabOK
    <3> QED
      BY <3>3, <3>4
  <2>3. ASSUME ~Rejected, ~Trida(d)
        PROVE  \E c : TabOK(Before(c, Tail(TabClass))) /\ TabClass' = Before(c, Tail(TabClass))
                      /\ TabClass # <<>>
    <3>1. TabClass # <<>>
      BY <1>2, <1>6, <2>3 DEF DeklProm, DeklKonst, Metoda
    <3>2. CASE DeklProm(d)
      <4>1. d.k = "var" /\ TabClass' = Before(deklProm(TabClass[1], d.id, d.static), Tail(TabClass))
        BY <2>3, <3>2 DEF DeklProm, Declared, Before
      <4> QED
        BY <3>1, <4>1, DeklProm_OK DEF TablesInv
    <3>3. CASE DeklKonst(d)
      <4>1. PICK p : TabClass' = Before(deklKonst(TabClass[1], d.id, p), Tail(TabClass))
        BY <2>3, <3>3 DEF DeklKonst, Declared, Before
      <4> QED
        BY <3>1, <4>1, DeklKonst_OK DEF TablesInv
    <3>4. CASE Metoda(d)
      <4>1. PICK m : TabClass' = Before(deklMethod(TabClass[1], d, m), Tail(TabClass))
        BY <2>3, <3>4 DEF Metoda, Before
      <4> QED
        BY <3>1, <4>1, DeklMethod_OK DEF TablesInv
    <3> QED
      BY <1>2, <2>3, <3>2, <3>3, <3>4
  <2>4. CASE ~Rejected /\ ~Trida(d)
    <3>1. PICK c : TabOK(Before(c, Tail(TabClass))) /\ t = Before(c, Tail(TabClass))
                   /\ TabClass # <<>>
      BY <1>0, <2>3, <2>4
    <3>2. t # <<>>
      BY <3>1, Replaced DEF TablesInv, TabOK
    <3> QED
      BY <3>1, <3>2
  <2> QED
    BY <2>1, <2>2, <2>4
<1>8. TabOK(TabClass') /\ TabClass' # <<>>
  BY <1>0, <1>7
<1>9. TodoOK'
  BY <1>3, <1>5, <1>8 DEF TablesInv, TodoOK
<1>10. TabOK(TabClass)'
  BY <1>8 DEF TabOK, IsSeq, IsClass, SymsOK, Fill, FirstAddr, ParentAt, NextAddr, Addresses, Scopes
<1> QED
  BY <1>9, <1>10 DEF TablesInv

LEMMA TodoInit ==
  ASSUME IsProgram(prog), Init
  PROVE  TodoOK
<1>1. PICK Ids, Parents, Members :
        /\ prog \in Seq([name : Ids, parent : Parents, body : Seq(Members)])
        /\ NONE \notin Ids /\ CLASS_UNKNOWN \notin Ids
        /\ \A d \in Members : d.k # "class"
  BY DEF IsProgram
<1>2. PICK E : E = [k : {"class"}, id : Ids, parent : Parents] \cup Members
  OBVIOUS
<1>3. PICK s : s = [i \in DOMAIN prog |->
        <<[k |-> "class", id |-> prog[i].name, parent |-> prog[i].parent]>> \o prog[i].body]
  OBVIOUS
<1>4. todo = FlattenSeq(s) /\ TabClass = <<>>
  BY <1>3 DEF Init
<1>5. PICK n \in Nat : n = Len(prog) /\ DOMAIN prog = 1..n
  BY <1>1, LenProperties
<1>6. ASSUME NEW i \in 1..n
      PROVE  /\ s[i] \in Seq(E) /\ s[i] # <<>>
             /\ s[i][1] \in E /\ s[i][1].k = "class"
  <2>1. prog[i] \in [name : Ids, parent : Parents, body : Seq(Members)]
    BY <1>1, <1>5, ElementOfSeq
  <2>2. PICK c, b : /\ c = [k |-> "class", id |-> prog[i].name, parent |-> prog[i].parent]
                    /\ b = prog[i].body
    OBVIOUS
  <2>3. c \in E /\ b \in Seq(Members) /\ c.k = "class"
    BY <1>2, <2>1, <2>2
  <2>4. b \in Seq(E)
    BY <1>2, <2>3, SeqMonotonic
  <2>5. s[i] = Before(c, b)
    BY <1>3, <1>5, <2>2 DEF Before
  <2>6. s[i][1] = c /\ s[i] # <<>>
    BY <2>4, <2>5, Prepended DEF IsSeq
  <2>7. s[i] \in Seq(E)
    <3>1. <<c>> \in Seq(E)
      BY <2>3
    <3> QED
      BY <2>4, <2>5, <3>1, ConcatProperties DEF Before
  <2> QED
    BY <2>3, <2>6, <2>7
<1>7. s \in Seq(Seq(E))
  <2>1. s \in [1..n -> Seq(E)]
    BY <1>3, <1>5, <1>6
  <2> QED
    BY <2>1, SeqDef
<1>8. todo \in Seq(E)
  BY <1>4, <1>7, Flattened
<1>9. \A j \in DOMAIN todo : todo[j] \in E
  BY <1>8, LenProperties, ElementOfSeq
<1>10. \A d \in E : d.k = "class" => d.id \notin {NONE, CLASS_UNKNOWN}
  BY <1>1, <1>2
<1>11. todo # <<>> => todo[1].k = "class"
  <2>1. CASE n = 0
    <3>1. Len(s) = 0
      <4>1. DOMAIN s = {}
        BY <1>3, <1>5, <2>1
      <4> QED
        BY <1>7, <4>1, LenProperties
    <3>2. s = <<>> /\ FlattenSeq(s) = s
      BY <1>7, <3>1, EmptySeq DEF FlattenSeq
    <3> QED
      BY <1>4, <3>2
  <2>2. CASE n # 0
    <3>1. 1 \in 1..n
      BY <2>2
    <3>2. s # <<>>
      <4>1. 1 \in DOMAIN s
        BY <1>3, <1>5, <3>1
      <4> QED
        BY <4>1
    <3> QED
      BY <1>4, <1>6, <1>7, <3>1, <3>2, Flattened
  <2> QED
    BY <2>1, <2>2
<1>12. IsSeq(todo)
  BY <1>8 DEF IsSeq
<1> QED
  BY <1>9, <1>10, <1>11, <1>12 DEF TodoOK

\* The ancestors of a class end where its own addresses begin, or before.
LEMMA LineBelow ==
  ASSUME NEW tab, TabOK(tab), NEW i \in DOMAIN tab, NEW k \in Line(tab, i), k # i,
         NEW sc \in Scopes
  PROVE  k \in DOMAIN tab /\ NextAddr(tab[k], sc) <= FirstAddr(tab, i, sc)
<1> DEFINE Under(m) == \A s \in Scopes : NextAddr(tab[m], s) <= FirstAddr(tab, i, s)
           S == {m \in DOMAIN tab : m = i \/ Under(m)}
<1>1. ASSUME NEW j \in S, NEW l \in ParentAt(tab, j) PROVE l \in S
  <2>1. l \in DOMAIN tab /\ \A s : FirstAddr(tab, j, s) = NextAddr(tab[l], s)
    BY ParentFacts DEF TabOK
  <2>2. CASE j = i
    <3>1. ASSUME NEW s \in Scopes PROVE NextAddr(tab[l], s) <= FirstAddr(tab, i, s)
      <4>1. FirstAddr(tab, i, s) \in Nat
        BY DEF TabOK, Fill
      <4> QED
        BY <2>1, <2>2, <4>1
    <3> QED
      BY <2>1, <3>1
  <2>3. CASE Under(j)
    <3>1. ASSUME NEW s \in Scopes PROVE NextAddr(tab[l], s) <= FirstAddr(tab, i, s)
      <4>1. PICK a \in Nat, b \in Nat, c \in Nat :
              /\ a = FirstAddr(tab, j, s) /\ b = NextAddr(tab[j], s) /\ c = FirstAddr(tab, i, s)
              /\ a <= b
        BY <1>1 DEF TabOK, Fill
      <4>2. b <= c
        BY <2>3, <4>1
      <4>3. a <= c
        BY <4>1, <4>2
      <4> QED
        BY <2>1, <4>1, <4>3
    <3> QED
      BY <2>1, <3>1
  <2> QED
    BY <2>2, <2>3
<1>2. S \in SUBSET DOMAIN tab /\ i \in S /\ \A j \in S : ParentAt(tab, j) \subseteq S
  BY <1>1
<1>3. k \in S
  <2> HIDE DEF S
  <2> QED
    BY <1>2 DEF Line
<1> QED
  BY <1>3

LEMMA Apart ==
  TabOK(TabClass) => AddressesApart
<1> SUFFICES ASSUME TabOK(TabClass), NEW i \in DOMAIN TabClass
             PROVE  /\ \A sc \in Scopes :
                         Addresses(TabClass[i], sc)
                         = FirstAddr(TabClass, i, sc)..(NextAddr(TabClass[i], sc) - 1)
                    /\ \A k \in Line(TabClass, i) :
                         \A p \in DOMAIN TabClass[i].syms, q \in DOMAIN TabClass[k].syms :
                           LET x == TabClass[i].syms[p]
                               y == TabClass[k].syms[q]
                           IN x.sc = y.sc /\ x.addr = y.addr => k = i /\ p = q
  BY DEF AddressesApart
<1>1. \A sc \in Scopes :
        Addresses(TabClass[i], sc) = FirstAddr(TabClass, i, sc)..(NextAddr(TabClass[i], sc) - 1)
  BY DEF TabOK, Fill
<1>2. ASSUME NEW k \in Line(TabClass, i),
             NEW p \in DOMAIN TabClass[i].syms, NEW q \in DOMAIN TabClass[k].syms,
             NEW x, NEW y, x = TabClass[i].syms[p], y = TabClass[k].syms[q],
             x.sc = y.sc, x.addr = y.addr
      PROVE  k = i /\ p = q
  <2>1. CASE k = i
    BY <1>2, <2>1 DEF TabOK, SymsOK
  <2>2. CASE k # i
    <3>1. PICK sc : sc = x.sc /\ sc \in Scopes
      BY <1>2 DEF TabOK, SymsOK
    <3>2. k \in DOMAIN TabClass /\ NextAddr(TabClass[k], sc) <= FirstAddr(TabClass, i, sc)
      BY <2>2, <3>1, LineBelow
    <3>3. x.addr \in Addresses(TabClass[i], sc) /\ y.addr \in Addresses(TabClass[k], sc)
      BY <1>2, <3>1 DEF Addresses, Range
    <3>4. PICK a \in Nat, b \in Nat, c \in Nat, e \in Nat :
            /\ a = FirstAddr(TabClass, i, sc) /\ b = NextAddr(TabClass[i], sc)
            /\ c = FirstAddr(TabClass, k, sc) /\ e = NextAddr(TabClass[k], sc)
            /\ Addresses(TabClass[i], sc) = a..(b - 1) /\ Addresses(TabClass[k], sc) = c..(e - 1)
      BY <3>1, <3>2 DEF TabOK, Fill
    <3>5. e <= a /\ x.addr \in a..(b - 1) /\ x.addr \in c..(e - 1)
      BY <1>2, <3>2, <3>3, <3>4
    <3> QED
      BY <3>5
  <2> QED
    BY <2>1, <2>2
<1> QED
  BY <1>1, <1>2

LEMMA TablesInitially ==
  ASSUME IsProgram(prog), Init
  PROVE  TablesInv
<1>1. TodoOK
  BY TodoInit
<1>2. TabClass = <<>> /\ IsSeq(<<>>) /\ DOMAIN <<>> = {}
  BY EmptySeq DEF Init, IsSeq
<1> QED
  BY <1>1, <1>2 DEF TablesInv, TabOK

LEMMA TablesKept ==
  ASSUME TablesInv, [Next]_vars
  PROVE  TablesInv'
<1>1. CASE UNCHANGED <<todo, TabClass>>
  <2>1. TodoOK'
    BY <1>1 DEF TablesInv, TodoOK, IsSeq
  <2>2. TabOK(TabClass')
    BY <1>1 DEF TablesInv
  <2>3. TabOK(TabClass)'
    BY <2>2 DEF TabOK, IsSeq, IsClass, SymsOK, Fill, FirstAddr, ParentAt, NextAddr, Addresses,
                Scopes
  <2> QED
    BY <2>1, <2>3 DEF TablesInv
<1>2. CASE Declare
  BY <1>2, DeclareStep
<1> QED
  BY <1>1, <1>2 DEF Next, MethodTranslate, bcout_to_file, kexe_load, vm_init_builtin_classes,
     vm_init_parent_pointers, vm_calculate_udo_sizes, vm_init_const_table_elems, Run,
     compiler, vars

\* AddressesApart, for every program whose classes have names: the addresses of
\* a class go on where those of its parent end, leave none out and are given
\* once along its line, in whatever order the classes are declared.
THEOREM AddressesFit ==
  ASSUME \A p \in Programs : IsProgram(p)
  PROVE  Spec => []AddressesApart
<1>1. Init => TablesInv
  BY TablesInitially DEF Init
<1>2. TablesInv /\ [Next]_vars => TablesInv'
  BY TablesKept
<1>3. TablesInv => AddressesApart
  BY Apart DEF TablesInv
<1> QED
  BY <1>1, <1>2, <1>3, PTL DEF Spec
=============================================================================
