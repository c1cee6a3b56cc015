---------------------------- MODULE Slots_proofs ----------------------------
(***************************************************************************)
(* The cells of the variables of an object, for any programs whose parents *)
(* come first: the linked classes have the tables' parents and sizes, and  *)
(* an object has a cell of its own for every variable of its line.         *)
(***************************************************************************)
EXTENDS Linking_proofs

---------------------------------------------------------------------------
(* The classes of the machine.                                             *)

\* What holds of a number when it holds of all the smaller ones.
LEMMA Ordered ==
  ASSUME NEW n \in Nat, NEW G,
         \A j \in 1..n : (\A l \in 1..(j - 1) : l \in G) => j \in G
  PROVE  \A j \in 1..n : j \in G
<1>1. SUFFICES ASSUME NEW i \in 1..n, i \notin G PROVE FALSE
  OBVIOUS
<1>2. PICK T : T = {j \in 1..n : j \notin G}
  OBVIOUS
<1>3. T \in SUBSET Nat /\ i \in T
  BY <1>1, <1>2
<1>4. PICK x \in T : \A y \in T : x <= y
  BY <1>3, Least
<1>5. x \in 1..n /\ x \notin G
  BY <1>2, <1>4
<1>6. ASSUME NEW l \in 1..(x - 1) PROVE l \in G
  <2>1. l \in 1..n /\ ~(x <= l)
    BY <1>5
  <2> QED
    BY <1>2, <1>4, <2>1
<1> QED
  BY <1>5, <1>6

LEMMA FindClass ==
  ASSUME NEW cls, IsSeq(cls), NEW N, N = Len(cls), NEW name
  PROVE  \/ vm_find_class(cls, name) = 0 /\ \A i \in 1..N : cls[i].name # name
         \/ vm_find_class(cls, name) \in 1..N /\ cls[vm_find_class(cls, name)].name = name
<1>1. N \in Nat
  BY SeqFacts
<1>2. PICK I : I = {i \in 1..N : cls[i].name = name}
  OBVIOUS
<1>3. vm_find_class(cls, name) = IF I # {} THEN Min(I) ELSE 0
  BY <1>1, <1>2 DEF vm_find_class, SelectInSeq
<1>4. CASE I = {}
  BY <1>2, <1>3, <1>4
<1>5. CASE I # {}
  <2>1. \E x \in I : \A y \in I : x <= y
    <3>1. I \in SUBSET Nat
      BY <1>2
    <3> QED
      BY <1>5, <3>1, Least
  <2>2. PICK x : x = Min(I)
    OBVIOUS
  <2>3. x \in I
    BY <2>1, <2>2 DEF Min
  <2> QED
    BY <1>2, <1>3, <1>5, <2>2, <2>3
<1> QED
  BY <1>4, <1>5

\* The classes as loaded, and with the native one behind them.
AsInFile(cls, tab) ==
  /\ IsSeq(cls) /\ Len(cls) = Len(tab)
  /\ \A k \in 1..Len(tab) : LoadedFrom(cls[k], tab[k])

IsBuiltin(c) ==
  /\ c = [name |-> c.name, parent_name |-> c.parent_name, parent |-> c.parent,
          native |-> c.native, syms_static |-> c.syms_static, syms_instance |-> c.syms_instance,
          static_init |-> c.static_init, constructor |-> c.constructor, methods |-> c.methods,
          total |-> c.total, offset |-> c.offset]
  /\ c.name = "Exception" /\ c.parent_name = "" /\ c.native = TRUE /\ c.syms_instance = <<>>

WithBuiltin(cls, tab, n) ==
  /\ IsSeq(cls) /\ Len(cls) = n + 1
  /\ \A k \in 1..n : LoadedFrom(cls[k], tab[k])
  /\ IsBuiltin(cls[n + 1])

\* Pointers to parents: the class with the name, 0 if there is none.
Linked(cls, n) ==
  \A i \in 1..(n + 1) :
    \/ cls[i].parent = 0 /\ \A x \in 1..(n + 1) : cls[x].name # cls[i].parent_name
    \/ cls[i].parent \in 1..(n + 1) /\ cls[cls[i].parent].name = cls[i].parent_name

\* What an object needs: the variables of its line, and one of the native class.
Sized(cls, tab, n) ==
  \A i \in 1..n :
    /\ cls[i].total = tab[i].obj_addr_next
    /\ cls[i].offset = IF cls[i].parent = 0 THEN 0
                       ELSE IF cls[i].parent = n + 1 THEN 1
                       ELSE cls[cls[i].parent].offset

\* The text that the classes were made of.
Compiled(p, tab, n) ==
  /\ IsProgram(p) /\ ParentsFirst(p) /\ TabOK(tab) /\ AsRead(p, <<>>, tab) /\ n = Len(p)

\* Class i of the tables is class n + 1 - i of the text.
Turned(p, tab, n) ==
  \A j \in 1..n : /\ tab[n + 1 - j].className = p[j].name
                  /\ tab[n + 1 - j].parentName = p[j].parent
OwnNames(p, n) == \A j \in 1..n : p[j].name \notin {NONE, CLASS_UNKNOWN, "", "Exception"}
NamedOnce(p, n) == \A j, l \in 1..n : p[j].name = p[l].name => j = l

LEMMA CompiledFacts ==
  ASSUME NEW p, NEW tab, NEW n, Compiled(p, tab, n)
  PROVE  /\ n \in Nat /\ DOMAIN p = 1..n /\ Len(tab) = n /\ DOMAIN tab = 1..n
         /\ IsSeq(p) /\ IsSeq(tab) /\ NamesOK(tab)
         /\ Turned(p, tab, n) /\ OwnNames(p, n) /\ NamedOnce(p, n)
<1>1. IsProgram(p) /\ ParentsFirst(p) /\ TabOK(tab) /\ AsRead(p, <<>>, tab) /\ n = Len(p)
  BY DEF Compiled
<1>2. IsSeq(tab) /\ IsSeq(p)
  BY <1>1, ProgramFacts DEF TabOK
<1>3. /\ n \in Nat /\ DOMAIN p = 1..n /\ Len(tab) = n /\ DOMAIN tab = 1..n /\ NamesOK(tab)
      /\ \A j \in 1..n : n + 1 - j \in 1..n /\ tab[n + 1 - j].className = p[j].name
                         /\ tab[n + 1 - j].parentName = p[j].parent
  BY <1>1, <1>2, AllRead
<1>4. \A j \in 1..n : p[j].name \notin {NONE, CLASS_UNKNOWN, "", "Exception"}
  BY <1>1, <1>3, ProgramFacts DEF ParentsFirst
<1>6. ASSUME NEW j \in 1..n, NEW l \in 1..n, p[j].name = p[l].name PROVE j = l
  <2>1. n + 1 - j = n + 1 - l
    BY <1>3, <1>6 DEF NamesOK
  <2> QED
    BY <1>3, <2>1
<1>7. Turned(p, tab, n)
  BY <1>3 DEF Turned
<1>8. OwnNames(p, n)
  BY <1>4 DEF OwnNames
<1>9. NamedOnce(p, n)
  BY <1>6 DEF NamedOnce
<1> QED
  BY <1>2, <1>3, <1>7, <1>8, <1>9

LEMMA TurnedAt ==
  ASSUME NEW n \in Nat, NEW j \in 1..n
  PROVE  n + 1 - j \in 1..n /\ n + 1 - (n + 1 - j) = j
OBVIOUS

\* The names of the machine's classes.
NamesOf(cls, p, n) ==
  /\ DOMAIN cls = 1..(n + 1) /\ cls[n + 1].name = "Exception"
  /\ \A i \in 1..n : cls[i].name = p[n + 1 - i].name
ClassesApart(cls, n) ==
  /\ \A i \in 1..(n + 1) : cls[i].name # ""
  /\ \A i, x \in 1..(n + 1) : cls[i].name = cls[x].name => i = x

LEMMA NamesApart ==
  ASSUME NEW p, NEW tab, NEW n, Compiled(p, tab, n), NEW cls, WithBuiltin(cls, tab, n)
  PROVE  NamesOf(cls, p, n) /\ ClassesApart(cls, n)
<1>1. n \in Nat /\ Turned(p, tab, n) /\ OwnNames(p, n) /\ NamedOnce(p, n)
  BY CompiledFacts
<1>2. IsSeq(cls) /\ Len(cls) = n + 1 /\ cls[n + 1].name = "Exception"
  BY DEF WithBuiltin, IsBuiltin
<1>3. \A i \in 1..n : cls[i].name = tab[i].className
  BY DEF WithBuiltin, LoadedFrom
<1>4. ASSUME NEW i \in 1..n PROVE cls[i].name = p[n + 1 - i].name /\ n + 1 - i \in 1..n
  <2>1. PICK j \in 1..n : j = n + 1 - i /\ n + 1 - j = i
    BY <1>1, TurnedAt
  <2>2. tab[n + 1 - j].className = p[j].name
    BY <1>1 DEF Turned
  <2> QED
    BY <1>3, <2>1, <2>2
<1>50. n \in Nat
  BY <1>1
<1>5. \A i \in 1..(n + 1) : i = n + 1 \/ i \in 1..n
  BY <1>50
<1>6. \A i \in 1..n : cls[i].name # "" /\ cls[i].name # "Exception"
  BY <1>1, <1>4 DEF OwnNames
<1>7. ASSUME NEW i \in 1..n, NEW x \in 1..n, cls[i].name = cls[x].name PROVE i = x
  <2>1. PICK j \in 1..n, l \in 1..n : j = n + 1 - i /\ l = n + 1 - x
    BY <1>4
  <2>2. p[j].name = p[l].name
    BY <1>4, <1>7, <2>1
  <2>3. j = l
    BY <1>1, <2>2 DEF NamedOnce
  <2> QED
    BY <1>50, <2>1, <2>3
<1>8. "Exception" # ""
  OBVIOUS
<1>9. \A i, x \in 1..(n + 1) : cls[i].name = cls[x].name => i = x
  BY <1>2, <1>5, <1>6, <1>7
<1>10. DOMAIN cls = 1..(n + 1)
  BY <1>2, SeqFacts
<1>11. NamesOf(cls, p, n)
  BY <1>2, <1>4, <1>10 DEF NamesOf
<1>12. \A i \in 1..(n + 1) : cls[i].name # ""
  BY <1>2, <1>5, <1>6, <1>8
<1>13. ClassesApart(cls, n)
  BY <1>9, <1>12 DEF ClassesApart
<1> QED
  BY <1>11, <1>13

\* Where class j of the text has its parent, and where its own variables begin.
LinkOf(p, tab, cls, n, j) ==
  LET i == n + 1 - j
      first == FirstAddr(tab, i, "SC_INSTANCE")
  IN \/ p[j].parent = NONE /\ cls[i].parent = 0 /\ first = 0
     \/ p[j].parent = "Exception" /\ cls[i].parent = n + 1 /\ first = 0
     \/ \E l \in 1..(j - 1) :
          /\ p[j].parent = p[l].name /\ cls[i].parent = n + 1 - l
          /\ first = tab[n + 1 - l].obj_addr_next

NoneApart == NONE \notin {"Exception", CLASS_UNKNOWN}

LEMMA Links ==
  ASSUME NoneApart, NEW p, NEW tab, NEW n, Compiled(p, tab, n), NEW cls, WithBuiltin(cls, tab, n),
         Linked(cls, n), NEW j \in 1..n
  PROVE  LinkOf(p, tab, cls, n, j)
<1>1. /\ n \in Nat /\ DOMAIN p = 1..n /\ Len(tab) = n /\ DOMAIN tab = 1..n
      /\ IsSeq(tab) /\ NamesOK(tab)
  BY CompiledFacts
<1>10. Turned(p, tab, n) /\ OwnNames(p, n)
  BY CompiledFacts
<1>2. PICK i \in 1..n : i = n + 1 - j
  BY <1>1, TurnedAt
<1>3. NamesOf(cls, p, n) /\ ClassesApart(cls, n)
  BY NamesApart
<1>4. /\ tab[i].parentName = p[j].parent
      /\ cls[i].parent_name = IF tab[i].parent # NONE THEN p[j].parent ELSE ""
      /\ ParentOK(tab, i)
  <2>1. tab[i].parentName = p[j].parent
    BY <1>2, <1>10 DEF Turned
  <2>2. ParentOK(tab, i)
    BY <1>1 DEF NamesOK
  <2>3. cls[i].parent_name = IF tab[i].parent # NONE THEN tab[i].parentName ELSE ""
    BY DEF WithBuiltin, LoadedFrom
  <2> QED
    BY <2>1, <2>2, <2>3
<1>50. n \in Nat
  BY <1>1
<1>5. i \in 1..(n + 1) /\ n + 1 \in 1..(n + 1) /\ \A x \in 1..n : x \in 1..(n + 1)
  BY <1>50
<1>6. \/ cls[i].parent = 0 /\ \A x \in 1..(n + 1) : cls[x].name # cls[i].parent_name
      \/ cls[i].parent \in 1..(n + 1) /\ cls[cls[i].parent].name = cls[i].parent_name
  BY <1>5 DEF Linked
<1>7. ASSUME NEW x \in 1..n PROVE tab[x].className \notin {NONE, CLASS_UNKNOWN, "Exception"}
  <2>1. PICK k \in 1..n : n + 1 - k = x
    BY <1>50, TurnedAt
  <2>2. tab[x].className = p[k].name
    BY <1>10, <2>1 DEF Turned
  <2> QED
    BY <1>10, <2>2 DEF OwnNames
<1>8. \A x \in (i + 1)..n : x \in 1..n
  BY <1>50
<1>9. CASE p[j].parent = NONE
  <2>1. tab[i].parent = NONE
    BY <1>4, <1>9 DEF ParentOK
  <2>2. cls[i].parent_name = ""
    BY <1>4, <2>1
  <2>3. cls[i].parent = 0
    BY <1>3, <1>6, <2>2 DEF ClassesApart
  <2>4. ParentAt(tab, i) = {}
    BY <1>1, <1>7, <1>8, <2>1 DEF ParentAt
  <2>5. FirstAddr(tab, i, "SC_INSTANCE") = 0
    BY <2>4 DEF FirstAddr
  <2> QED
    BY <1>2, <1>9, <2>3, <2>5 DEF LinkOf
<1>12. CASE p[j].parent = "Exception"
  <2>1. tab[i].parent = CLASS_UNKNOWN
    <3>1. ~\E k \in (i + 1)..Len(tab) : tab[k].className = tab[i].parentName
      BY <1>1, <1>4, <1>7, <1>8, <1>12
    <3>2. tab[i].parentName # NONE
      BY <1>4, <1>12 DEF NoneApart
    <3> QED
      BY <1>4, <3>1, <3>2 DEF ParentOK
  <2>2. cls[i].parent_name = "Exception"
    BY <1>4, <1>12, <2>1 DEF NoneApart
  <2>21. cls[n + 1].name = "Exception"
    BY <1>3 DEF NamesOf
  <2>3. cls[i].parent = n + 1
    BY <1>3, <1>5, <1>6, <2>2, <2>21 DEF ClassesApart
  <2>4. ParentAt(tab, i) = {}
    BY <1>1, <1>7, <1>8, <2>1 DEF ParentAt
  <2>5. FirstAddr(tab, i, "SC_INSTANCE") = 0
    BY <2>4 DEF FirstAddr
  <2> QED
    BY <1>2, <1>12, <2>3, <2>5 DEF LinkOf
<1>11. CASE p[j].parent \notin {NONE, "Exception"}
  <2>1. PICK l \in 1..(j - 1) : p[l].name = p[j].parent
    <3>1. ParentsFirst(p)
      BY DEF Compiled
    <3> QED
      BY <1>1, <1>11, <3>1 DEF ParentsFirst
  <2>2. PICK k \in 1..n : k = n + 1 - l /\ k \in (i + 1)..n /\ l \in 1..n
    BY <1>50, <1>2
  <2>3. tab[k].className = tab[i].parentName
    BY <1>4, <1>10, <2>1, <2>2 DEF Turned
  <2>31. tab[i].parentName # NONE
    BY <1>4, <1>11
  <2>4. tab[i].parent = p[j].parent
    BY <1>1, <1>4, <2>2, <2>3, <2>31 DEF ParentOK
  <2>5. cls[i].parent_name = p[l].name
    BY <1>4, <1>11, <2>1, <2>4
  <2>6. cls[k].name = p[l].name
    <3>1. n + 1 - k = l
      BY <1>50, <2>2
    <3>2. cls[k].name = p[n + 1 - k].name
      BY <1>3 DEF NamesOf
    <3> QED
      BY <3>1, <3>2
  <2>7. cls[i].parent = k
    <3>1. k \in 1..(n + 1) /\ cls[k].name = cls[i].parent_name
      BY <1>5, <2>5, <2>6
    <3> QED
      BY <1>3, <1>6, <3>1 DEF ClassesApart
  <2>9. tab[k].className = tab[i].parent
    BY <1>4, <2>3, <2>4
  <2>8. \A x \in 1..n : tab[x].className = tab[i].parent => x = k
    BY <1>1, <2>9 DEF NamesOK
  <2>10. k \in ParentAt(tab, i)
    <3>1. \A x \in (i + 1)..(k - 1) : x \in 1..n /\ x # k
      BY <1>50, <2>2
    <3>2. \A x \in (i + 1)..(k - 1) : tab[x].className # tab[i].parent
      BY <2>8, <3>1
    <3> QED
      BY <1>1, <2>2, <2>9, <3>2 DEF ParentAt
  <2>11. FirstAddr(tab, i, "SC_INSTANCE") = NextAddr(tab[k], "SC_INSTANCE")
    BY <1>1, <2>10, ParentFacts
  <2>12. NextAddr(tab[k], "SC_INSTANCE") = tab[k].obj_addr_next
    BY DEF NextAddr
  <2> QED
    BY <1>2, <2>1, <2>2, <2>7, <2>11, <2>12 DEF LinkOf
<1> QED
  BY <1>9, <1>11, <1>12

---------------------------------------------------------------------------
(* Linking.                                                                *)

LEMMA BuiltinAdded ==
  ASSUME NEW tab, IsSeq(tab), NEW n, n = Len(tab), NEW cls, AsInFile(cls, tab),
         NEW c, IsBuiltin(c), NEW t, t = Append(cls, c)
  PROVE  WithBuiltin(t, tab, n)
<1>1. IsSeq(cls) /\ Len(cls) = n /\ \A k \in 1..n : LoadedFrom(cls[k], tab[k])
  BY DEF AsInFile
<1>2. /\ IsSeq(t) /\ Len(t) = n + 1 /\ t[n + 1] = c
      /\ \A k \in 1..n : t[k] = cls[k]
  BY <1>1, Added
<1> QED
  BY <1>1, <1>2 DEF WithBuiltin

\* Classes that differ in what the linker sets only.
Relinked(t, cls) ==
  /\ IsSeq(t) /\ Len(t) = Len(cls)
  /\ \A i \in 1..Len(cls) :
       /\ t[i] = [name |-> cls[i].name, parent_name |-> cls[i].parent_name, parent |-> t[i].parent,
                  native |-> cls[i].native, syms_static |-> cls[i].syms_static,
                  syms_instance |-> cls[i].syms_instance, static_init |-> cls[i].static_init,
                  constructor |-> cls[i].constructor, methods |-> cls[i].methods,
                  total |-> t[i].total, offset |-> t[i].offset]

LEMMA RecordFields ==
  ASSUME NEW c, NEW name, NEW pname, NEW par, NEW native, NEW sst, NEW sin, NEW ini, NEW con,
         NEW ms, NEW tot, NEW off,
         c = [name |-> name, parent_name |-> pname, parent |-> par, native |-> native,
              syms_static |-> sst, syms_instance |-> sin, static_init |-> ini,
              constructor |-> con, methods |-> ms, total |-> tot, offset |-> off]
  PROVE  /\ c.name = name /\ c.parent_name = pname /\ c.parent = par /\ c.native = native
         /\ c.syms_static = sst /\ c.syms_instance = sin /\ c.static_init = ini
         /\ c.constructor = con /\ c.methods = ms /\ c.total = tot /\ c.offset = off
OBVIOUS

LEMMA RelinkedBuiltin ==
  ASSUME NEW n \in Nat, NEW tab, NEW cls, WithBuiltin(cls, tab, n), NEW t, Relinked(t, cls)
  PROVE  WithBuiltin(t, tab, n)
<1>1. IsSeq(t) /\ Len(t) = n + 1
  BY DEF WithBuiltin, Relinked
<1>2. ASSUME NEW k \in 1..n PROVE LoadedFrom(t[k], tab[k])
  <2>1. k \in 1..Len(cls)
    BY DEF WithBuiltin
  <2>2. PICK a, b : a = cls[k] /\ b = t[k]
    OBVIOUS
  <2>3. LoadedFrom(a, tab[k])
    BY <2>2 DEF WithBuiltin
  <2>4. b = [name |-> a.name, parent_name |-> a.parent_name, parent |-> b.parent,
             native |-> a.native, syms_static |-> a.syms_static,
             syms_instance |-> a.syms_instance, static_init |-> a.static_init,
             constructor |-> a.constructor, methods |-> a.methods,
             total |-> b.total, offset |-> b.offset]
    BY <2>1, <2>2 DEF Relinked
  <2>41. /\ b.name = a.name /\ b.parent_name = a.parent_name /\ b.native = a.native
         /\ b.syms_static = a.syms_static /\ b.syms_instance = a.syms_instance
         /\ b.static_init = a.static_init /\ b.constructor = a.constructor
         /\ b.methods = a.methods
    BY <2>4, RecordFields
  <2>5. LoadedFrom(b, tab[k])
    <3>1. b = [name |-> b.name, parent_name |-> b.parent_name, parent |-> b.parent,
               native |-> b.native, syms_static |-> b.syms_static,
               syms_instance |-> b.syms_instance, static_init |-> b.static_init,
               constructor |-> b.constructor, methods |-> b.methods,
               total |-> b.total, offset |-> b.offset]
      BY <2>4, <2>41, Zenon
    <3> QED
      BY <2>3, <2>41, <3>1, Zenon DEF LoadedFrom
  <2> QED
    BY <2>2, <2>5
<1>3. IsBuiltin(t[n + 1])
  <2>1. n + 1 \in 1..Len(cls)
    BY DEF WithBuiltin
  <2>2. PICK a, b : a = cls[n + 1] /\ b = t[n + 1]
    OBVIOUS
  <2>3. IsBuiltin(a)
    BY <2>2 DEF WithBuiltin
  <2>4. b = [name |-> a.name, parent_name |-> a.parent_name, parent |-> b.parent,
             native |-> a.native, syms_static |-> a.syms_static,
             syms_instance |-> a.syms_instance, static_init |-> a.static_init,
             constructor |-> a.constructor, methods |-> a.methods,
             total |-> b.total, offset |-> b.offset]
    BY <2>1, <2>2 DEF Relinked
  <2>41. /\ b.name = a.name /\ b.parent_name = a.parent_name /\ b.native = a.native
         /\ b.syms_static = a.syms_static /\ b.syms_instance = a.syms_instance
         /\ b.static_init = a.static_init /\ b.constructor = a.constructor
         /\ b.methods = a.methods
    BY <2>4, RecordFields
  <2>5. IsBuiltin(b)
    <3>1. b = [name |-> b.name, parent_name |-> b.parent_name, parent |-> b.parent,
               native |-> b.native, syms_static |-> b.syms_static,
               syms_instance |-> b.syms_instance, static_init |-> b.static_init,
               constructor |-> b.constructor, methods |-> b.methods,
               total |-> b.total, offset |-> b.offset]
      BY <2>4, <2>41, Zenon
    <3> QED
      BY <2>3, <2>41, <3>1, Zenon DEF IsBuiltin
  <2> QED
    BY <2>2, <2>5
<1> QED
  BY <1>1, <1>2, <1>3 DEF WithBuiltin

ClassRecord(c) ==
  c = [name |-> c.name, parent_name |-> c.parent_name, parent |-> c.parent,
       native |-> c.native, syms_static |-> c.syms_static, syms_instance |-> c.syms_instance,
       static_init |-> c.static_init, constructor |-> c.constructor, methods |-> c.methods,
       total |-> c.total, offset |-> c.offset]

LEMMA BuiltinFacts ==
  ASSUME NEW n \in Nat, NEW tab, NEW cls, WithBuiltin(cls, tab, n)
  PROVE  /\ IsSeq(cls) /\ Len(cls) = n + 1 /\ DOMAIN cls = 1..(n + 1)
         /\ \A i \in 1..(n + 1) : ClassRecord(cls[i])
<1>1. IsSeq(cls) /\ Len(cls) = n + 1
  BY DEF WithBuiltin
<1>2. \A i \in 1..(n + 1) : i = n + 1 \/ i \in 1..n
  OBVIOUS
<1>3. \A i \in 1..n : ClassRecord(cls[i])
  BY DEF WithBuiltin, LoadedFrom, ClassRecord
<1>4. ClassRecord(cls[n + 1])
  BY DEF WithBuiltin, IsBuiltin, ClassRecord
<1> QED
  BY <1>1, <1>2, <1>3, <1>4, SeqFacts

LEMMA ParentsSet ==
  ASSUME NEW n \in Nat, NEW tab, NEW cls, WithBuiltin(cls, tab, n), NEW t,
         t = [i \in DOMAIN cls |->
                [cls[i] EXCEPT !.parent = vm_find_class(cls, cls[i].parent_name)]]
  PROVE  WithBuiltin(t, tab, n) /\ Linked(t, n)
<1>1. /\ IsSeq(cls) /\ Len(cls) = n + 1 /\ DOMAIN cls = 1..(n + 1)
      /\ \A i \in 1..(n + 1) : ClassRecord(cls[i])
  BY BuiltinFacts
<1>2. PICK N \in Nat : N = n + 1
  OBVIOUS
<1>3. IsSeq(t) /\ Len(t) = N
  <2>1. t = [i \in 1..N |-> t[i]]
    BY <1>1, <1>2
  <2> QED
    BY <2>1, IsSeqByLength
<1>4. ASSUME NEW i \in 1..N, NEW c, c = cls[i], NEW d, d = t[i]
      PROVE  /\ d = [name |-> c.name, parent_name |-> c.parent_name, parent |-> d.parent,
                     native |-> c.native, syms_static |-> c.syms_static,
                     syms_instance |-> c.syms_instance, static_init |-> c.static_init,
                     constructor |-> c.constructor, methods |-> c.methods,
                     total |-> d.total, offset |-> d.offset]
             /\ d.parent = vm_find_class(cls, c.parent_name)
  <2>1. ClassRecord(c)
    BY <1>1, <1>2, <1>4
  <2>2. d = [c EXCEPT !.parent = vm_find_class(cls, c.parent_name)]
    BY <1>1, <1>2, <1>4
  <2>3. PICK x : x = vm_find_class(cls, c.parent_name)
    OBVIOUS
  <2>4. d = [c EXCEPT !.parent = x]
    BY <2>2, <2>3
  <2> QED
    BY <2>1, <2>3, <2>4 DEF ClassRecord
<1>5. Relinked(t, cls)
  BY <1>1, <1>2, <1>3, <1>4 DEF Relinked
<1>6. \A i \in 1..N : /\ t[i].name = cls[i].name /\ t[i].parent_name = cls[i].parent_name
                      /\ t[i].parent = vm_find_class(cls, cls[i].parent_name)
  BY <1>4
<1>7. ASSUME NEW i \in 1..N
      PROVE  \/ t[i].parent = 0 /\ \A x \in 1..N : t[x].name # t[i].parent_name
             \/ t[i].parent \in 1..N /\ t[t[i].parent].name = t[i].parent_name
  <2>1. PICK name : name = cls[i].parent_name
    OBVIOUS
  <2>2. PICK x : x = vm_find_class(cls, name)
    OBVIOUS
  <2>3. t[i].parent = x /\ t[i].parent_name = name
    BY <1>6, <2>1, <2>2
  <2>4. \/ x = 0 /\ \A k \in 1..N : cls[k].name # name
        \/ x \in 1..N /\ cls[x].name = name
    BY <1>1, <1>2, <2>2, FindClass
  <2> QED
    BY <1>6, <2>3, <2>4
<1>8. Linked(t, n)
  BY <1>2, <1>7 DEF Linked
<1> QED
  BY <1>5, <1>8, RelinkedBuiltin

\* As many variables of its own as there are addresses for them.
LEMMA OwnCount ==
  ASSUME NEW syms, IsSeq(syms), NEW a \in Nat, NEW b \in Nat, a <= b,
         {s.addr : s \in {q \in Range(syms) : q.sc = "SC_INSTANCE"}} = a..(b - 1),
         \A x, y \in DOMAIN syms : syms[x].sc = syms[y].sc /\ syms[x].addr = syms[y].addr => x = y,
         NEW r, r = Divided(syms, "SC_INSTANCE")
  PROVE  Len(AsLoaded(r)) = b - a
<1>1. IsSeq(r) /\ \E e : Listing(e, r, syms, "SC_INSTANCE", Len(syms))
  BY DividedFacts
<1>2. PICK e : Listing(e, r, syms, "SC_INSTANCE", Len(syms))
  BY <1>1
<1>3. PICK m \in Nat, n \in Nat : m = Len(r) /\ n = Len(syms) /\ DOMAIN syms = 1..n
  BY <1>1, SeqFacts
<1>4. /\ e \in [1..m -> {i \in 1..n : syms[i].sc = "SC_INSTANCE"}]
      /\ \A j, l \in 1..m : e[j] = e[l] => j = l
      /\ \A i \in 1..n : syms[i].sc = "SC_INSTANCE" => \E j \in 1..m : e[j] = i
  BY <1>2, <1>3 DEF Listing
<1>5. PICK f : f = [j \in 1..m |-> syms[e[j]].addr]
  OBVIOUS
<1>6. \A j \in 1..m : e[j] \in 1..n /\ syms[e[j]].sc = "SC_INSTANCE" /\ syms[e[j]] \in Range(syms)
  BY <1>3, <1>4 DEF Range
<1>7. f \in [1..m -> a..(b - 1)]
  BY <1>5, <1>6
<1>8. \A j, l \in 1..m : f[j] = f[l] => j = l
  BY <1>3, <1>4, <1>5, <1>6
<1>9. \A v \in a..(b - 1) : \E j \in 1..m : f[j] = v
  <2> SUFFICES ASSUME NEW v \in a..(b - 1) PROVE \E j \in 1..m : f[j] = v
    OBVIOUS
  <2>0. PICK s \in Range(syms) : s.sc = "SC_INSTANCE" /\ s.addr = v
    OBVIOUS
  <2>1. PICK i \in 1..n : syms[i].sc = "SC_INSTANCE" /\ syms[i].addr = v
    BY <1>3, <2>0 DEF Range
  <2> QED
    BY <1>4, <1>5, <2>1
<1>10. f \in Bijection(1..m, a..(b - 1))
  BY <1>7, <1>8, <1>9 DEF Bijection, Injection, Surjection, IsInjective
<1>11. IsFiniteSet(1..m) /\ Cardinality(1..m) = m
  BY FS_Interval
<1>12. Cardinality(a..(b - 1)) = b - a
  <2>1. PICK c \in Int : c = b - 1
    OBVIOUS
  <2>2. Cardinality(a..c) = IF a > c THEN 0 ELSE c - a + 1
    <3>1. a \in Int /\ c \in Int
      OBVIOUS
    <3> QED
      BY <3>1, FS_Interval
  <2>3. (IF a > c THEN 0 ELSE c - a + 1) = b - a
    BY <2>1
  <2> QED
    BY <2>1, <2>2, <2>3
<1>13. Cardinality(1..m) = Cardinality(a..(b - 1))
  BY <1>10, <1>11, FS_Bijection DEF ExistsBijection
<1>14. Len(AsLoaded(r)) = m
  <2>1. AsLoaded(r) = [i \in 1..m |-> AsLoaded(r)[i]]
    BY <1>3 DEF AsLoaded
  <2> QED
    BY <2>1, IsSeqByLength
<1> QED
  BY <1>11, <1>12, <1>13, <1>14

LEMMA OwnVariables ==
  ASSUME NEW p, NEW tab, NEW n, Compiled(p, tab, n), NEW cls, WithBuiltin(cls, tab, n),
         NEW i \in 1..n, NEW a, a = FirstAddr(tab, i, "SC_INSTANCE"),
         NEW b, b = tab[i].obj_addr_next
  PROVE  a \in Nat /\ b \in Nat /\ a <= b /\ Len(cls[i].syms_instance) = b - a
<1>1. TabOK(tab) /\ DOMAIN tab = 1..n
  BY CompiledFacts DEF Compiled
<1>2. SymsOK(tab[i]) /\ Fill(tab[i], "SC_INSTANCE", a)
  BY <1>1 DEF TabOK, Scopes
<1>3. NextAddr(tab[i], "SC_INSTANCE") = b
  BY DEF NextAddr
<1>4. PICK syms : syms = tab[i].syms
  OBVIOUS
<1>5. a \in Nat /\ b \in Nat /\ a <= b /\ Addresses(tab[i], "SC_INSTANCE") = a..(b - 1)
  BY <1>2, <1>3 DEF Fill
<1>6. {s.addr : s \in {q \in Range(syms) : q.sc = "SC_INSTANCE"}} = a..(b - 1)
  BY <1>4, <1>5 DEF Addresses
<1>7. /\ IsSeq(syms)
      /\ \A x, y \in DOMAIN syms : syms[x].sc = syms[y].sc /\ syms[x].addr = syms[y].addr => x = y
  BY <1>2, <1>4 DEF SymsOK
<1>8. PICK r : r = Divided(syms, "SC_INSTANCE")
  OBVIOUS
<1>9. Len(AsLoaded(r)) = b - a
  BY <1>5, <1>6, <1>7, <1>8, OwnCount
<1>10. cls[i].syms_instance = AsLoaded(r)
  BY <1>4, <1>8 DEF WithBuiltin, LoadedFrom
<1> QED
  BY <1>5, <1>9, <1>10

LEMMA BuiltinAlone ==
  ASSUME NEW p, NEW tab, NEW n, Compiled(p, tab, n), NEW cls, WithBuiltin(cls, tab, n),
         Linked(cls, n)
  PROVE  cls[n + 1].parent = 0
<1>1. n \in Nat
  BY CompiledFacts
<1>2. n + 1 \in 1..(n + 1)
  BY <1>1
<1>3. cls[n + 1].parent_name = ""
  BY DEF WithBuiltin, IsBuiltin
<1>4. ClassesApart(cls, n)
  BY NamesApart
<1> QED
  BY <1>2, <1>3, <1>4 DEF Linked, ClassesApart

LEMMA TotalOf ==
  ASSUME NoneApart, NEW p, NEW tab, NEW n, Compiled(p, tab, n),
         NEW cls, cls = classes_g, WithBuiltin(cls, tab, n), Linked(cls, n)
  PROVE  \A i \in 1..n : calc_total_syms_cnt(i) = tab[i].obj_addr_next
<1>1. n \in Nat
  BY CompiledFacts
<1>2. DOMAIN cls = 1..(n + 1)
  BY <1>1, BuiltinFacts
<1>3. PICK D : D = DOMAIN cls \cup {0}
  OBVIOUS
<1>4. \A k \in D : k = 0 \/ k = n + 1 \/ k \in 1..n
  BY <1>1, <1>2, <1>3
<1>41. /\ \A k \in 1..n : k \in D /\ k # 0 /\ k # n + 1
       /\ 0 \in D /\ n + 1 \in D /\ n + 1 # 0
  BY <1>1, <1>2, <1>3
<1>5. PICK own : own = [k \in D |-> Len(cls[k].syms_instance)]
  OBVIOUS
<1>6. own[n + 1] = 0 /\ cls[n + 1].parent = 0
  <2>1. cls[n + 1].syms_instance = <<>>
    BY DEF WithBuiltin, IsBuiltin
  <2>2. Len(<<>>) = 0
    BY EmptySeq
  <2> QED
    BY <1>41, <1>5, <2>1, <2>2, BuiltinAlone
<1>7. ASSUME NEW k \in 1..n
      PROVE  /\ tab[k].obj_addr_next \in Nat
             /\ \/ cls[k].parent = 0 /\ own[k] = tab[k].obj_addr_next
                \/ cls[k].parent = n + 1 /\ own[k] = tab[k].obj_addr_next
                \/ /\ cls[k].parent \in 1..n /\ cls[k].parent > k
                   /\ tab[cls[k].parent].obj_addr_next \in Nat
                   /\ own[k] = tab[k].obj_addr_next - tab[cls[k].parent].obj_addr_next
  <2>1. PICK j \in 1..n : j = n + 1 - k /\ n + 1 - j = k
    BY <1>1, TurnedAt
  <2>2. LinkOf(p, tab, cls, n, j)
    BY Links
  <2>3. PICK a, b : a = FirstAddr(tab, k, "SC_INSTANCE") /\ b = tab[k].obj_addr_next
    OBVIOUS
  <2>4. a \in Nat /\ b \in Nat /\ own[k] = b - a
    BY <1>41, <1>5, <2>3, OwnVariables
  <2>5. \/ cls[k].parent = 0 /\ a = 0
        \/ cls[k].parent = n + 1 /\ a = 0
        \/ \E l \in 1..(j - 1) : cls[k].parent = n + 1 - l /\ a = tab[n + 1 - l].obj_addr_next
    BY <2>1, <2>2, <2>3 DEF LinkOf
  <2>6. CASE \E l \in 1..(j - 1) : cls[k].parent = n + 1 - l /\ a = tab[n + 1 - l].obj_addr_next
    <3>1. PICK l \in 1..(j - 1) : cls[k].parent = n + 1 - l /\ a = tab[n + 1 - l].obj_addr_next
      BY <2>6
    <3>2. n + 1 - l \in 1..n /\ n + 1 - l > k
      BY <1>1, <2>1
    <3> QED
      BY <2>3, <2>4, <3>1, <3>2
  <2> QED
    BY <2>3, <2>4, <2>5, <2>6
<1>8. PICK w : w = [k \in D |-> IF k \in 1..n THEN tab[k].obj_addr_next ELSE 0]
  OBVIOUS
<1>9. w[0] = 0 /\ w[n + 1] = 0 /\ \A k \in 1..n : w[k] = tab[k].obj_addr_next
  BY <1>1, <1>41, <1>8
<1>10. ASSUME NEW k \in D PROVE w[k] = IF k = 0 THEN 0 ELSE own[k] + w[cls[k].parent]
  <2>1. CASE k = 0
    BY <1>9, <2>1
  <2>2. CASE k = n + 1
    BY <1>6, <1>9, <1>41, <2>2
  <2>3. CASE k \in 1..n
    <3>1. PICK x : x = cls[k].parent
      OBVIOUS
    <3>2. PICK b \in Nat : b = tab[k].obj_addr_next
      BY <1>7, <2>3
    <3>3. CASE x \in {0, n + 1} /\ own[k] = b
      <4>1. w[x] = 0
        BY <1>9, <3>3
      <4> QED
        BY <1>9, <1>41, <2>3, <3>1, <3>2, <3>3, <4>1
    <3>4. CASE x \in 1..n /\ tab[x].obj_addr_next \in Nat /\ own[k] = b - tab[x].obj_addr_next
      <4>1. PICK a \in Nat : a = tab[x].obj_addr_next /\ w[x] = a
        BY <1>9, <3>4
      <4>2. w[k] = b /\ own[k] = b - a
        BY <1>9, <2>3, <3>2, <3>4, <4>1
      <4>3. own[k] + w[x] = b
        BY <4>1, <4>2
      <4> QED
        BY <1>41, <2>3, <3>1, <4>2, <4>3
    <3> QED
      BY <1>7, <2>3, <3>1, <3>2, <3>3, <3>4
  <2> QED
    BY <1>4, <2>1, <2>2, <2>3
<1>11. w = [k \in D |-> IF k = 0 THEN 0 ELSE own[k] + w[cls[k].parent]]
  <2>1. DOMAIN w = D /\ w = [k \in D |-> w[k]]
    BY <1>8
  <2> QED
    BY <1>10, <2>1
<1>14. PICK U : U = CHOOSE ww : ww = [k \in D |-> IF k = 0 THEN 0
                                   ELSE Len(cls[k].syms_instance) + ww[cls[k].parent]]
  OBVIOUS
<1>15. U = [k \in D |-> IF k = 0 THEN 0 ELSE Len(cls[k].syms_instance) + U[cls[k].parent]]
  <2>1. w = [k \in D |-> IF k = 0 THEN 0 ELSE Len(cls[k].syms_instance) + w[cls[k].parent]]
    <3>1. \A k \in D : own[k] = Len(cls[k].syms_instance)
      BY <1>5
    <3> QED
      BY <1>11, <3>1
  <2> QED
    BY <1>14, <2>1
<1>16. U[0] = 0 /\ U[n + 1] = 0
  <2>1. U[0] = 0
    BY <1>15, <1>41
  <2>2. U[n + 1] = own[n + 1] + U[0]
    BY <1>15, <1>41, <1>5, <1>6
  <2> QED
    BY <1>6, <2>1, <2>2
<1>17. \A j \in 1..n : j \in {l \in 1..n : U[n + 1 - l] = tab[n + 1 - l].obj_addr_next}
  <2>1. PICK G : G = {l \in 1..n : U[n + 1 - l] = tab[n + 1 - l].obj_addr_next}
    OBVIOUS
  <2>2. ASSUME NEW j \in 1..n, \A l \in 1..(j - 1) : l \in G PROVE j \in G
    <3>1. PICK k \in 1..n : k = n + 1 - j
      BY <1>1, TurnedAt
    <3>2. PICK x : x = cls[k].parent
      OBVIOUS
    <3>3. U[k] = own[k] + U[x]
      BY <1>5, <1>15, <1>41, <3>2
    <3>4. PICK b \in Nat : b = tab[k].obj_addr_next
      BY <1>7
    <3>5. CASE x \in {0, n + 1} /\ own[k] = b
      <4>1. U[x] = 0
        BY <1>16, <3>5
      <4>2. U[k] = b
        BY <3>3, <3>5, <4>1
      <4> QED
        BY <2>1, <3>1, <3>4, <4>2
    <3>6. CASE x \in 1..n /\ x > k /\ tab[x].obj_addr_next \in Nat /\ own[k] = b - tab[x].obj_addr_next
      <4>1. PICK l \in 1..(j - 1) : n + 1 - l = x
        <5>1. n + 1 - x \in 1..(j - 1) /\ n + 1 - (n + 1 - x) = x
          BY <1>1, <3>1, <3>6
        <5> QED
          BY <5>1
      <4>2. U[x] = tab[x].obj_addr_next
        BY <2>1, <2>2, <4>1
      <4>3. PICK a \in Nat : a = tab[x].obj_addr_next
        BY <3>6
      <4>4. U[k] = b
        <5>1. own[k] = b - a /\ U[x] = a
          BY <3>6, <4>2, <4>3
        <5> QED
          BY <3>3, <5>1
      <4> QED
        BY <2>1, <3>1, <3>4, <4>4
    <3> QED
      BY <1>7, <3>2, <3>4, <3>5, <3>6
  <2>3. \A j \in 1..n : j \in G
    BY <1>1, <2>2, Ordered
  <2> QED
    BY <2>1, <2>3
<1>18. ASSUME NEW i \in 1..n PROVE U[i] = tab[i].obj_addr_next
  <2>1. PICK j \in 1..n : n + 1 - j = i
    BY <1>1, TurnedAt
  <2> QED
    BY <1>17, <2>1
<1>19. ASSUME NEW i \in 1..n PROVE calc_total_syms_cnt(i) = U[i]
  BY <1>3, <1>14 DEF calc_total_syms_cnt
<1> QED
  BY <1>18, <1>19

\* An object of a class has the variable of the native class if the class is
\* derived from it.
LEMMA OffsetOf ==
  ASSUME NoneApart, NEW p, NEW tab, NEW n, Compiled(p, tab, n),
         NEW cls, cls = classes_g, WithBuiltin(cls, tab, n), Linked(cls, n)
  PROVE  \A i \in 1..n : calc_syms_offset(i) = IF cls[i].parent = 0 THEN 0
                                               ELSE IF cls[i].parent = n + 1 THEN 1
                                               ELSE calc_syms_offset(cls[i].parent)
<1>1. n \in Nat
  BY CompiledFacts
<1>2. DOMAIN cls = 1..(n + 1)
  BY <1>1, BuiltinFacts
<1>3. PICK D, S : D = DOMAIN cls \cup {0} /\ S = {k \in DOMAIN cls : cls[k].native}
  OBVIOUS
<1>4. \A k \in D : k = 0 \/ k = n + 1 \/ k \in 1..n
  BY <1>1, <1>2, <1>3
<1>5. /\ \A k \in 1..n : k \in D /\ k # 0 /\ k # n + 1
      /\ 0 \in D /\ n + 1 \in D /\ n + 1 # 0
  BY <1>1, <1>2, <1>3
<1>6. \A k \in 1..n : cls[k].native = FALSE
  BY DEF WithBuiltin, LoadedFrom
<1>7. cls[n + 1].native = TRUE
  BY DEF WithBuiltin, IsBuiltin
<1>8. S = {n + 1}
  <2>1. n + 1 \in DOMAIN cls
    BY <1>1, <1>2
  <2>2. \A k \in DOMAIN cls : k = n + 1 \/ k \in 1..n
    BY <1>1, <1>2
  <2> QED
    BY <1>3, <1>6, <1>7, <2>1, <2>2
<1>9. ASSUME NEW k \in 1..n PROVE cls[k].parent \in {0, n + 1} \/ (cls[k].parent \in 1..n /\ cls[k].parent > k)
  <2>1. PICK j \in 1..n : j = n + 1 - k /\ n + 1 - j = k
    BY <1>1, TurnedAt
  <2>2. LinkOf(p, tab, cls, n, j)
    BY Links
  <2>5. \/ cls[k].parent = 0
        \/ cls[k].parent = n + 1
        \/ \E l \in 1..(j - 1) : cls[k].parent = n + 1 - l
    BY <2>1, <2>2 DEF LinkOf
  <2>6. CASE \E l \in 1..(j - 1) : cls[k].parent = n + 1 - l
    <3>1. PICK l \in 1..(j - 1) : cls[k].parent = n + 1 - l
      BY <2>6
    <3>2. n + 1 - l \in 1..n /\ n + 1 - l > k
      BY <1>1, <2>1
    <3> QED
      BY <3>1, <3>2
  <2> QED
    BY <2>5, <2>6
<1> DEFINE up(k) == cls[k].parent
           C == {0, n + 1}
<1>10. PICK par : par = [j \in 1..n |-> IF up(n + 1 - j) = 0 THEN 0 ELSE n + 1 - up(n + 1 - j)]
  OBVIOUS
<1>11. PICK step : step = [x \in (1..n) \X C |-> IF up(n + 1 - x[1]) = 0 THEN 0 ELSE x[2]]
  OBVIOUS
<1>12. \A j \in 1..n, v \in C : step[<<j, v>>] = IF up(n + 1 - j) = 0 THEN 0 ELSE v
  <2> SUFFICES ASSUME NEW j \in 1..n, NEW v \in C
               PROVE  step[<<j, v>>] = IF up(n + 1 - j) = 0 THEN 0 ELSE v
    OBVIOUS
  <2>1. PICK x \in (1..n) \X C : x = <<j, v>>
    OBVIOUS
  <2>2. step[x] = (IF up(n + 1 - x[1]) = 0 THEN 0 ELSE x[2]) /\ x[1] = j /\ x[2] = v
    BY <1>11, <2>1
  <2> QED
    BY <2>1, <2>2
<1>13. Steps(step, n, C)
  BY <1>12 DEF Steps
<1>14. Backwards(par, n)
  <2>1. ASSUME NEW j \in 1..n PROVE par[j] \in 0..(j - 1)
    <3>1. PICK k \in 1..n : k = n + 1 - j
      BY <1>1, TurnedAt
    <3>2. PICK x : x = up(k)
      OBVIOUS
    <3>3. par[j] = IF x = 0 THEN 0 ELSE n + 1 - x
      BY <1>10, <3>1, <3>2
    <3>4. x = 0 \/ x = n + 1 \/ (x \in 1..n /\ x > k)
      BY <1>9, <3>2
    <3> QED
      BY <1>1, <3>1, <3>3, <3>4
  <2> QED
    BY <2>1 DEF Backwards
<1>15. PICK base \in C : base = n + 1
  OBVIOUS
<1>16. PICK g : Walked(g, par, base, step, n, C)
  BY <1>1, <1>13, <1>14, Walk
<1>17. /\ g \in [0..n -> C] /\ g[0] = n + 1
       /\ \A j \in 1..n : g[j] = step[<<j, g[par[j]]>>]
  BY <1>15, <1>16 DEF Walked
<1>18. PICK w : w = [k \in D |-> IF k = 0 THEN 0 ELSE g[n + 1 - k]]
  OBVIOUS
<1>19. ASSUME NEW k \in D PROVE w[k] = IF k = 0 \/ k \in S THEN k ELSE w[up(k)]
  <2>1. CASE k = 0
    BY <1>18, <2>1
  <2>2. CASE k = n + 1
    <3>1. n + 1 - k = 0
      BY <1>1, <2>2
    <3>2. w[k] = g[0]
      BY <1>5, <1>18, <2>2, <3>1
    <3> QED
      BY <1>8, <1>17, <2>2, <3>2
  <2>3. CASE k \in 1..n
    <3>1. PICK j \in 1..n : j = n + 1 - k /\ n + 1 - j = k
      BY <1>1, <2>3, TurnedAt
    <3>2. PICK x : x = up(k)
      OBVIOUS
    <3>3. w[k] = g[j]
      BY <1>5, <1>18, <2>3, <3>1
    <3>4. par[j] = IF x = 0 THEN 0 ELSE n + 1 - x
      BY <1>10, <3>1, <3>2
    <3>5. x = 0 \/ x = n + 1 \/ (x \in 1..n /\ x > k)
      BY <1>9, <2>3, <3>2
    <3>6. par[j] \in 0..n
      BY <1>1, <3>4, <3>5
    <3>7. PICK v \in C : v = g[par[j]]
      BY <1>17, <3>6
    <3>8. g[j] = IF x = 0 THEN 0 ELSE v
      BY <1>12, <1>17, <3>1, <3>2, <3>7
    <3>9. k # 0 /\ k \notin S
      BY <1>5, <1>8, <2>3
    <3>10. CASE x = 0
      <4>1. w[x] = 0
        BY <1>5, <1>18, <3>10
      <4> QED
        BY <3>2, <3>3, <3>8, <3>9, <3>10, <4>1
    <3>11. CASE x # 0
      <4>1. x \in D
        BY <1>5, <3>5, <3>11
      <4>2. w[x] = g[n + 1 - x]
        BY <1>18, <3>11, <4>1
      <4> QED
        BY <3>2, <3>3, <3>4, <3>7, <3>8, <3>9, <3>11, <4>2
    <3> QED
      BY <3>10, <3>11
  <2> QED
    BY <1>4, <2>1, <2>2, <2>3
<1>20. w = [k \in D |-> IF k = 0 \/ k \in S THEN k ELSE w[cls[k].parent]]
  <2>1. DOMAIN w = D /\ w = [k \in D |-> w[k]]
    BY <1>18
  <2> QED
    BY <1>19, <2>1
<1>21. PICK U : U = CHOOSE ww : ww = [k \in D |-> IF k = 0 \/ k \in S THEN k ELSE ww[cls[k].parent]]
  OBVIOUS
<1>22. U = [k \in D |-> IF k = 0 \/ k \in S THEN k ELSE U[cls[k].parent]]
  BY <1>20, <1>21
<1>23. \A k \in 1..n : Ancestor(k, S) = U[k]
  BY <1>3, <1>21 DEF Ancestor
<1>24. \A k \in 1..n : calc_syms_offset(k) = IF U[k] # 0 THEN 1 ELSE 0
  <2> SUFFICES ASSUME NEW k \in 1..n PROVE calc_syms_offset(k) = IF U[k] # 0 THEN 1 ELSE 0
    OBVIOUS
  <2>1. calc_syms_offset(k) = IF ~cls[k].native /\ Ancestor(k, S) # 0 THEN 1 ELSE 0
    BY <1>3 DEF calc_syms_offset
  <2> QED
    BY <1>6, <1>23, <2>1
<1>25. U[0] = 0 /\ U[n + 1] = n + 1 /\ \A k \in 1..n : U[k] = U[cls[k].parent]
  BY <1>5, <1>8, <1>22
<1>26. ASSUME NEW i \in 1..n
       PROVE  calc_syms_offset(i) = IF cls[i].parent = 0 THEN 0
                                    ELSE IF cls[i].parent = n + 1 THEN 1
                                    ELSE calc_syms_offset(cls[i].parent)
  <2>1. U[i] = U[cls[i].parent]
    BY <1>25
  <2>2. CASE cls[i].parent = 0
    BY <1>24, <1>25, <2>1, <2>2
  <2>3. CASE cls[i].parent = n + 1
    BY <1>5, <1>24, <1>25, <2>1, <2>3
  <2>4. CASE cls[i].parent \in 1..n
    BY <1>5, <1>24, <2>1, <2>4
  <2> QED
    BY <1>9, <2>2, <2>3, <2>4
<1> QED
  BY <1>26

Resized(t, cls) ==
  t = [c \in DOMAIN cls |->
         [cls[c] EXCEPT !.total = calc_total_syms_cnt(c), !.offset = calc_syms_offset(c)]]

LEMMA SizesSet ==
  ASSUME NoneApart, NEW p, NEW tab, NEW n, Compiled(p, tab, n),
         NEW cls, cls = classes_g, WithBuiltin(cls, tab, n), Linked(cls, n), NEW t, Resized(t, cls)
  PROVE  WithBuiltin(t, tab, n) /\ Linked(t, n) /\ Sized(t, tab, n)
<1>0. n \in Nat
  BY CompiledFacts
<1>1. /\ IsSeq(cls) /\ Len(cls) = n + 1 /\ DOMAIN cls = 1..(n + 1)
      /\ \A i \in 1..(n + 1) : ClassRecord(cls[i])
  BY <1>0, BuiltinFacts
<1>20. PICK N \in Nat : N = n + 1
  BY <1>0
<1>2. N = n + 1 /\ (\A i \in 1..n : i \in 1..N) /\ N \in 1..N
  BY <1>0, <1>20
<1>3. IsSeq(t) /\ Len(t) = N
  <2>1. t = [i \in 1..N |-> t[i]]
    BY <1>1, <1>2, Zenon DEF Resized
  <2> QED
    BY <2>1, IsSeqByLength
<1>4. ASSUME NEW i \in 1..N, NEW c, c = cls[i], NEW d, d = t[i]
      PROVE  /\ d = [name |-> c.name, parent_name |-> c.parent_name, parent |-> d.parent,
                     native |-> c.native, syms_static |-> c.syms_static,
                     syms_instance |-> c.syms_instance, static_init |-> c.static_init,
                     constructor |-> c.constructor, methods |-> c.methods,
                     total |-> d.total, offset |-> d.offset]
             /\ d.parent = c.parent
             /\ d.total = calc_total_syms_cnt(i) /\ d.offset = calc_syms_offset(i)
  <2>1. ClassRecord(c)
    BY <1>1, <1>2, <1>4
  <2>2. d = [c EXCEPT !.total = calc_total_syms_cnt(i), !.offset = calc_syms_offset(i)]
    BY <1>1, <1>2, <1>4, Zenon DEF Resized
  <2>3. PICK x, y : x = calc_total_syms_cnt(i) /\ y = calc_syms_offset(i)
    OBVIOUS
  <2>4. d = [c EXCEPT !.total = x, !.offset = y]
    BY <2>2, <2>3
  <2> QED
    BY <2>1, <2>3, <2>4 DEF ClassRecord
<1>5. Relinked(t, cls)
  BY <1>1, <1>2, <1>3, <1>4 DEF Relinked
<1>60. \A i \in 1..N : /\ t[i].parent = cls[i].parent
                       /\ t[i].total = calc_total_syms_cnt(i) /\ t[i].offset = calc_syms_offset(i)
  BY <1>4
<1>6. \A i \in 1..N : t[i].name = cls[i].name /\ t[i].parent_name = cls[i].parent_name
                      /\ t[i].parent = cls[i].parent
  <2> SUFFICES ASSUME NEW i \in 1..N
               PROVE  t[i].name = cls[i].name /\ t[i].parent_name = cls[i].parent_name
                      /\ t[i].parent = cls[i].parent
    OBVIOUS
  <2>1. t[i] = [name |-> cls[i].name, parent_name |-> cls[i].parent_name, parent |-> t[i].parent,
                native |-> cls[i].native, syms_static |-> cls[i].syms_static,
                syms_instance |-> cls[i].syms_instance, static_init |-> cls[i].static_init,
                constructor |-> cls[i].constructor, methods |-> cls[i].methods,
                total |-> t[i].total, offset |-> t[i].offset]
    BY <1>1, <1>2, <1>5 DEF Relinked
  <2>2. t[i].name = cls[i].name /\ t[i].parent_name = cls[i].parent_name
    BY <2>1, RecordFields
  <2> QED
    BY <1>60, <2>2
<1>7. Linked(t, n)
  BY <1>2, <1>6 DEF Linked
<1>8. \A i \in 1..n : t[i].total = calc_total_syms_cnt(i) /\ t[i].offset = calc_syms_offset(i)
  BY <1>2, <1>60
<1>80. \A i \in 1..n : calc_syms_offset(i) = IF cls[i].parent = 0 THEN 0
                                             ELSE IF cls[i].parent = n + 1 THEN 1
                                             ELSE calc_syms_offset(cls[i].parent)
  BY OffsetOf
<1>81. \A i \in 1..n : calc_total_syms_cnt(i) = tab[i].obj_addr_next
  BY TotalOf
<1>9. ASSUME NEW i \in 1..n
      PROVE  t[i].offset = IF t[i].parent = 0 THEN 0 ELSE IF t[i].parent = n + 1 THEN 1
                           ELSE t[t[i].parent].offset
  <2>1. PICK x : x = cls[i].parent
    OBVIOUS
  <2>2. t[i].parent = x
    BY <1>2, <1>6, <2>1
  <2>3. calc_syms_offset(i) = IF x = 0 THEN 0 ELSE IF x = n + 1 THEN 1 ELSE calc_syms_offset(x)
    BY <1>80, <2>1
  <2>4. CASE x \in {0, n + 1}
    BY <1>8, <2>2, <2>3, <2>4
  <2>5. CASE x \in 1..n
    BY <1>8, <2>2, <2>3, <2>5
  <2>6. x \in {0, n + 1} \cup 1..n
    <3>1. i \in 1..(n + 1)
      BY <1>2
    <3>2. x = 0 \/ x \in 1..(n + 1)
      BY <2>1, <3>1 DEF Linked
    <3> QED
      BY <1>0, <3>2
  <2> QED
    BY <2>4, <2>5, <2>6
<1>10. \A i \in 1..n : t[i].total = tab[i].obj_addr_next
  BY <1>8, <1>81
<1>11. Sized(t, tab, n)
  BY <1>9, <1>10 DEF Sized
<1>12. WithBuiltin(t, tab, n)
  BY <1>0, <1>5, RelinkedBuiltin
<1> QED
  BY <1>7, <1>11, <1>12

---------------------------------------------------------------------------
(* From the file to the running machine.                                   *)

Linking == {"parents", "sizes", "consts", "run", "error"}

LinkInv ==
  /\ phase \notin {"declare", "rejected"} => todo = <<>>
  /\ phase = "load" => \E ct, cd : FileOf(file, TabClass, Len(TabClass), ct, cd)
  /\ phase = "builtin" => AsInFile(classes_g, TabClass)
  /\ phase \in Linking => WithBuiltin(classes_g, TabClass, Len(TabClass))
  /\ phase \in Linking \ {"parents"} => Linked(classes_g, Len(TabClass))
  /\ phase \in Linking \ {"parents", "sizes"} => Sized(classes_g, TabClass, Len(TabClass))

\* All that is known of a state.
MachineInv == TablesInv /\ ReadInv /\ ParentsFirst(prog) /\ LinkInv

LEMMA TextCompiled ==
  ASSUME MachineInv, phase \notin {"declare", "rejected"}
  PROVE  /\ Compiled(prog, TabClass, Len(TabClass)) /\ Len(TabClass) \in Nat
         /\ IsSeq(TabClass) /\ DOMAIN TabClass = 1..Len(TabClass)
         /\ \A i \in 1..Len(TabClass) : IsSeq(TabClass[i].syms) /\ IsSeq(TabClass[i].methods)
<1>1. PICK p, tab, n : p = prog /\ tab = TabClass /\ n = Len(TabClass)
  OBVIOUS
<1>2. IsProgram(p) /\ ParentsFirst(p) /\ TabOK(tab) /\ AsRead(p, <<>>, tab)
  BY <1>1 DEF MachineInv, LinkInv, ReadInv, TablesInv
<1>3. IsSeq(tab)
  BY <1>2 DEF TabOK
<1>4. n = Len(p) /\ n \in Nat /\ DOMAIN tab = 1..n
  BY <1>1, <1>2, <1>3, AllRead
<1>5. NamesOK(tab)
  BY <1>2 DEF AsRead
<1>6. \A i \in 1..n : IsSeq(tab[i].syms) /\ IsSeq(tab[i].methods)
  BY <1>2, <1>4, <1>5 DEF TabOK, SymsOK, NamesOK
<1> QED
  BY <1>1, <1>2, <1>3, <1>4, <1>6 DEF Compiled

LEMMA Saved ==
  ASSUME MachineInv, bcout_to_file, phase \notin {"declare", "rejected"} \/ todo = <<>>
  PROVE  LinkInv'
<1>1. PICK n, tab : tab = TabClass /\ n = Len(TabClass)
  OBVIOUS
<1>2. phase # "rejected"
  BY DEF bcout_to_file
<1>3. PICK p : p = prog
  OBVIOUS
<1>4. IsProgram(p) /\ TabOK(tab) /\ AsRead(p, <<>>, tab)
  BY <1>1, <1>2, <1>3 DEF MachineInv, ReadInv, TablesInv, bcout_to_file
<1>5. IsSeq(tab) /\ NamesOK(tab)
  BY <1>4 DEF TabOK, AsRead
<1>6. n \in Nat /\ DOMAIN tab = 1..n
  BY <1>1, <1>5, SeqFacts
<1>7. \A i \in 1..n : IsSeq(tab[i].syms) /\ IsSeq(tab[i].methods)
  BY <1>4, <1>5, <1>6 DEF TabOK, SymsOK, NamesOK
<1>8. file' = <<KEK_MAGIC, n>> \o FlattenSeq([i \in 1..n |-> classout_class(tab[i])])
              \o <<const_table, code>>
  BY <1>1, <1>6 DEF bcout_to_file
<1>9. /\ phase' = "load" /\ todo' = <<>>
      /\ UNCHANGED <<TabClass, entrypoint>>
  BY DEF bcout_to_file, compiler
<1>10. PICK ct, cd : ct = const_table /\ cd = code
  OBVIOUS
<1>11. TabClass' = tab /\ Len(TabClass') = n /\ entrypoint' = entrypoint
  BY <1>1, <1>9
<1>13. file' = <<KEK_MAGIC, n>> \o FlattenSeq([i \in 1..n |-> classout_class(tab[i])]) \o <<ct, cd>>
  <2>1. PICK fl : fl = FlattenSeq([i \in 1..n |-> classout_class(tab[i])])
    OBVIOUS
  <2>2. file' = <<KEK_MAGIC, n>> \o fl \o <<const_table, code>>
    BY <1>8, <2>1
  <2> QED
    BY <1>10, <2>1, <2>2
<1>14. FileOf(file, TabClass, Len(TabClass), ct, cd)'
  <2>1. \A i \in 1..n : IsSeq(TabClass'[i].syms) /\ IsSeq(TabClass'[i].methods)
    BY <1>7, <1>11
  <2>2. \A i \in 1..n : IsSeq(TabClass[i].syms)' /\ IsSeq(TabClass[i].methods)'
    BY <2>1 DEF IsSeq
  <2>3. ASSUME NEW i \in 1..n PROVE classout_class(TabClass[i])' = classout_class(tab[i])
    BY <1>11 DEF classout_class, classout_methods, classout_method, classout_optional,
       classout_prvektab_ll, Divided
  <2>4. file' = <<KEK_MAGIC, n>> \o FlattenSeq([i \in 1..n |-> classout_class(TabClass[i])'])
                \o <<ct, cd>>
    BY <1>13, <2>3
  <2> QED
    BY <1>11, <2>2, <2>4 DEF FileOf
<1>12. \E x, y : FileOf(file, TabClass, Len(TabClass), x, y)'
  BY <1>14
<1> QED
  BY <1>9, <1>12 DEF LinkInv, Linking

LEMMA LoadedFromFile ==
  ASSUME MachineInv, kexe_load
  PROVE  LinkInv'
<1>1. phase = "load" /\ phase' = "builtin" /\ UNCHANGED <<todo, TabClass>>
  BY DEF kexe_load, compiler
<1>2. todo' = <<>>
  BY <1>1 DEF MachineInv, LinkInv
<1>3. PICK n, tab : tab = TabClass /\ n = Len(TabClass)
  OBVIOUS
<1>4. n \in Nat
  BY <1>1, <1>3, TextCompiled
<1>5. PICK ct, cd : FileOf(file, TabClass, Len(TabClass), ct, cd)
  BY <1>1 DEF MachineInv, LinkInv
<1>6. FileOf(file, tab, n, ct, cd)
  BY <1>3, <1>5
<1>7. PICK r : r = LoadClasses
  OBVIOUS
<1>8. /\ IsSeq(r.classes) /\ Len(r.classes) = n
      /\ \A k \in 1..n : LoadedFrom(r.classes[k], tab[k])
  BY <1>4, <1>6, <1>7, FileLoaded
<1>9. classes_g' = r.classes
  BY <1>7 DEF kexe_load
<1>10. PICK t : t = classes_g'
  OBVIOUS
<1>11. AsInFile(t, tab)
  BY <1>3, <1>8, <1>9, <1>10 DEF AsInFile
<1>12. AsInFile(classes_g, TabClass)'
  <2>1. TabClass' = tab
    BY <1>1, <1>3
  <2> QED
    BY <1>10, <1>11, <2>1
<1> QED
  BY <1>1, <1>2, <1>12 DEF LinkInv, Linking

LEMMA WithException ==
  ASSUME MachineInv, vm_init_builtin_classes
  PROVE  LinkInv'
<1>1. phase = "builtin" /\ phase' = "parents" /\ UNCHANGED <<todo, TabClass>>
  BY DEF vm_init_builtin_classes, compiler
<1>2. todo' = <<>>
  BY <1>1 DEF MachineInv, LinkInv
<1>3. PICK n, tab, cls : tab = TabClass /\ n = Len(TabClass) /\ cls = classes_g
  OBVIOUS
<1>4. n \in Nat /\ IsSeq(tab)
  BY <1>1, <1>3, TextCompiled
<1>5. AsInFile(cls, tab)
  BY <1>1, <1>3 DEF MachineInv, LinkInv
<1>6. PICK c : c = [name |-> "Exception", parent_name |-> "", parent |-> 0, native |-> TRUE,
                    syms_static |-> <<>>, syms_instance |-> <<>>, static_init |-> NONE,
                    constructor |-> NativeMethod("Exception", 1),
                    methods |-> <<NativeMethod("msg", 0), NativeMethod("type", 0)>>,
                    total |-> 0, offset |-> -1]
  OBVIOUS
<1>7. IsBuiltin(c)
  <2>1. /\ c.name = "Exception" /\ c.parent_name = "" /\ c.parent = 0 /\ c.native = TRUE
        /\ c.syms_static = <<>> /\ c.syms_instance = <<>> /\ c.static_init = NONE
        /\ c.constructor = NativeMethod("Exception", 1)
        /\ c.methods = <<NativeMethod("msg", 0), NativeMethod("type", 0)>>
        /\ c.total = 0 /\ c.offset = -1
    BY <1>6, RecordFields
  <2> QED
    BY <1>6, <2>1, Zenon DEF IsBuiltin
<1>8. PICK t : t = Append(cls, c)
  OBVIOUS
<1>9. classes_g' = t
  BY <1>3, <1>6, <1>8, Zenon DEF vm_init_builtin_classes
<1>10. WithBuiltin(t, tab, n)
  BY <1>3, <1>4, <1>5, <1>7, <1>8, BuiltinAdded
<1>11. WithBuiltin(classes_g, TabClass, Len(TabClass))'
  <2>1. TabClass' = tab /\ Len(TabClass') = n
    BY <1>1, <1>3
  <2> QED
    BY <1>9, <1>10, <2>1
<1> QED
  BY <1>1, <1>2, <1>11 DEF LinkInv, Linking

LEMMA WithParents ==
  ASSUME MachineInv, vm_init_parent_pointers
  PROVE  LinkInv'
<1>1. phase = "parents" /\ phase' = "sizes" /\ UNCHANGED <<todo, TabClass>>
  BY DEF vm_init_parent_pointers, compiler
<1>2. todo' = <<>>
  BY <1>1 DEF MachineInv, LinkInv
<1>3. PICK n, tab, cls : tab = TabClass /\ n = Len(TabClass) /\ cls = classes_g
  OBVIOUS
<1>4. n \in Nat
  BY <1>1, <1>3, TextCompiled
<1>5. WithBuiltin(cls, tab, n)
  BY <1>1, <1>3 DEF MachineInv, LinkInv, Linking
<1>6. PICK t : t = [i \in DOMAIN cls |->
                      [cls[i] EXCEPT !.parent = vm_find_class(cls, cls[i].parent_name)]]
  OBVIOUS
<1>7. classes_g' = t
  BY <1>3, <1>6, Zenon DEF vm_init_parent_pointers
<1>8. WithBuiltin(t, tab, n) /\ Linked(t, n)
  BY <1>4, <1>5, <1>6, ParentsSet
<1>9. TabClass' = tab /\ Len(TabClass') = n
  BY <1>1, <1>3
<1>11. WithBuiltin(classes_g, TabClass, Len(TabClass))'
  BY <1>7, <1>8, <1>9
<1>12. Linked(classes_g, Len(TabClass))'
  BY <1>7, <1>8, <1>9 DEF Linked
<1> QED
  BY <1>1, <1>2, <1>11, <1>12 DEF LinkInv, Linking

LEMMA WithSizes ==
  ASSUME NoneApart, MachineInv, vm_calculate_udo_sizes
  PROVE  LinkInv'
<1>1. phase = "sizes" /\ phase' = "consts" /\ UNCHANGED <<todo, TabClass>>
  BY DEF vm_calculate_udo_sizes, compiler
<1>2. todo' = <<>>
  BY <1>1 DEF MachineInv, LinkInv
<1>3. PICK p, n, tab, cls : p = prog /\ tab = TabClass /\ n = Len(TabClass) /\ cls = classes_g
  OBVIOUS
<1>4. Compiled(p, tab, n)
  BY <1>1, <1>3, TextCompiled
<1>5. WithBuiltin(cls, tab, n) /\ Linked(cls, n)
  BY <1>1, <1>3 DEF MachineInv, LinkInv, Linking
<1>6. PICK t : t = classes_g'
  OBVIOUS
<1>7. Resized(t, cls)
  BY <1>3, <1>6, Zenon DEF vm_calculate_udo_sizes, Resized
<1>8. WithBuiltin(t, tab, n) /\ Linked(t, n) /\ Sized(t, tab, n)
  BY <1>3, <1>4, <1>5, <1>7, SizesSet
<1>9. TabClass' = tab /\ Len(TabClass') = n
  BY <1>1, <1>3
<1>11. WithBuiltin(classes_g, TabClass, Len(TabClass))'
  BY <1>6, <1>8, <1>9
<1>12. Linked(classes_g, Len(TabClass))'
  BY <1>6, <1>8, <1>9 DEF Linked
<1>13. Sized(classes_g, TabClass, Len(TabClass))'
  BY <1>6, <1>8, <1>9 DEF Sized
<1> QED
  BY <1>1, <1>2, <1>11, <1>12, <1>13 DEF LinkInv, Linking

\* A running program stays where it is or stops with an error.
LEMMA RunsOn ==
  ASSUME Run PROVE phase = "run" /\ phase' \in {"run", "error"}
<1>1. phase = "run"
  BY DEF Run
<1>2. \A o, idx : WriteCell(o, idx) => phase' = phase
  BY DEF WriteCell
<1>3. VmError => phase' = "error"
  BY DEF VmError
<1>4. \A at : WriteStatic(at) => phase' \in {"run", "error"}
  BY <1>1, <1>3 DEF WriteStatic
<1>5. \A i, cls, o, k : CALLE(i, cls, o, k) => phase' \in {"run", "error"}
  BY <1>1, <1>3 DEF CALLE
<1>6. PICK i \in DOMAIN code : \E this \in MayRun(code[i]) :
        LET x == code[i].instr
        IN Load(x, this) \/ Store(x, this) \/ Call(i, x, this) \/ NewObject(i, x)
  BY DEF Run
<1>7. PICK x, this : Load(x, this) \/ Store(x, this) \/ Call(i, x, this) \/ NewObject(i, x)
  BY <1>6
<1>8. Load(x, this) => phase' \in {"run", "error"}
  BY <1>1 DEF Load, LVBI_C, LVBI_IV, LVBI_CV, LVBI_CVE, LVBS_CVE, LVBS_IVE, ReadCell, ReadStatic, Push, VmError
<1>9. Store(x, this) => phase' \in {"run", "error"}
  BY <1>1, <1>2, <1>3, <1>4 DEF Store, LABI_IV, LABI_CV, LABI_CVE, LABS_CVE, LABS_IVE
<1>10. Call(i, x, this) => phase' \in {"run", "error"}
  BY <1>5 DEF Call
<1>11. NewObject(i, x) => phase' \in {"run", "error"}
  BY <1>1 DEF NewObject
<1> QED
  BY <1>1, <1>7, <1>8, <1>9, <1>10, <1>11

LEMMA LinkNext ==
  ASSUME NoneApart, MachineInv, [Next]_vars
  PROVE  LinkInv'
<1>1. CASE Declare
  <2>1. phase = "declare"
    BY <1>1 DEF Declare
  <2>2. phase' \in {"declare", "rejected"}
    BY <1>1, <2>1 DEF Declare, Trida, DeklProm, DeklKonst, Metoda, Rejected
  <2> QED
    BY <2>2 DEF LinkInv, Linking
<1>2. CASE MethodTranslate
  <2>1. phase' = "translate" /\ todo' = <<>>
    BY <1>2 DEF MethodTranslate
  <2> QED
    BY <2>1 DEF LinkInv, Linking
<1>3. CASE bcout_to_file
  BY <1>3, Saved DEF bcout_to_file
<1>4. CASE kexe_load
  BY <1>4, LoadedFromFile
<1>5. CASE vm_init_builtin_classes
  BY <1>5, WithException
<1>6. CASE vm_init_parent_pointers
  BY <1>6, WithParents
<1>7. CASE vm_calculate_udo_sizes
  BY <1>7, WithSizes
<1>8. ASSUME UNCHANGED <<todo, TabClass, classes_g>>, phase \in Linking \ {"parents", "sizes"},
             phase' \in Linking \ {"parents", "sizes"}
      PROVE  LinkInv'
  <2>1. PICK n, tab, cls : tab = TabClass /\ n = Len(TabClass) /\ cls = classes_g
    OBVIOUS
  <2>2. WithBuiltin(cls, tab, n) /\ Linked(cls, n) /\ Sized(cls, tab, n) /\ todo = <<>>
    BY <1>8, <2>1 DEF MachineInv, LinkInv, Linking
  <2>3. TabClass' = tab /\ Len(TabClass') = n /\ classes_g' = cls
    BY <1>8, <2>1
  <2>4. WithBuiltin(classes_g, TabClass, Len(TabClass))'
    BY <2>2, <2>3
  <2>5. Linked(classes_g, Len(TabClass))'
    BY <2>2, <2>3 DEF Linked
  <2>6. Sized(classes_g, TabClass, Len(TabClass))'
    BY <2>2, <2>3 DEF Sized
  <2> QED
    BY <1>8, <2>2, <2>4, <2>5, <2>6 DEF LinkInv, Linking
<1>9. CASE vm_init_const_table_elems
  BY <1>8, <1>9 DEF vm_init_const_table_elems, machine, compiler, Linking
<1>10. CASE Run
  BY <1>8, <1>10, RunsOn DEF Run, compiler, Linking
<1>11. CASE UNCHANGED vars
  <2>1. UNCHANGED <<phase, todo, TabClass, file, classes_g, entrypoint>>
    BY <1>11 DEF vars, compiler, machine
  <2>2. phase = "load" => (\E ct, cd : FileOf(file, TabClass, Len(TabClass), ct, cd))'
    <3>1. SUFFICES ASSUME phase = "load"
                   PROVE  \E ct, cd : FileOf(file, TabClass, Len(TabClass), ct, cd)'
      OBVIOUS
    <3>2. PICK ct, cd : FileOf(file, TabClass, Len(TabClass), ct, cd)
      BY <3>1 DEF MachineInv, LinkInv
    <3>3. FileOf(file, TabClass, Len(TabClass), ct, cd)'
      <4>1. PICK n, tab : n = Len(TabClass) /\ tab = TabClass
        OBVIOUS
      <4>2. TabClass' = tab /\ Len(TabClass') = n /\ entrypoint' = entrypoint
        BY <2>1, <4>1
      <4>3. \A i \in 1..n : IsSeq(tab[i].syms) /\ IsSeq(tab[i].methods)
        BY <3>2, <4>1 DEF FileOf
      <4>4. \A i \in 1..n : IsSeq(TabClass[i].syms)' /\ IsSeq(TabClass[i].methods)'
        BY <4>2, <4>3
      <4>5. file' = <<KEK_MAGIC, n>> \o FlattenSeq([i \in 1..n |-> classout_class(tab[i])]) \o <<ct, cd>>
        BY <2>1, <3>2, <4>1 DEF FileOf
      <4>6. ASSUME NEW i \in 1..n PROVE classout_class(TabClass[i])' = classout_class(tab[i])
        BY <4>2 DEF classout_class, classout_methods, classout_method, classout_optional,
           classout_prvektab_ll, Divided
      <4>7. file' = <<KEK_MAGIC, n>> \o FlattenSeq([i \in 1..n |-> classout_class(TabClass[i])'])
                    \o <<ct, cd>>
        BY <4>5, <4>6
      <4> QED
        BY <4>2, <4>4, <4>7 DEF FileOf
    <3> QED
      BY <3>3
  <2>3. phase = "builtin" => AsInFile(classes_g, TabClass)'
    BY <2>1 DEF MachineInv, LinkInv
  <2>4. phase \in Linking => WithBuiltin(classes_g, TabClass, Len(TabClass))'
    BY <2>1 DEF MachineInv, LinkInv
  <2>5. phase \in Linking \ {"parents"} => Linked(classes_g, Len(TabClass))'
    BY <2>1 DEF MachineInv, LinkInv
  <2>6. phase \in Linking \ {"parents", "sizes"} => Sized(classes_g, TabClass, Len(TabClass))'
    BY <2>1 DEF MachineInv, LinkInv
  <2>7. phase \notin {"declare", "rejected"} => todo' = <<>>
    BY <2>1 DEF MachineInv, LinkInv
  <2> QED
    BY <2>1, <2>2, <2>3, <2>4, <2>5, <2>6, <2>7 DEF LinkInv, Linking
<1> QED
  BY <1>1, <1>2, <1>3, <1>4, <1>5, <1>6, <1>7, <1>9, <1>10, <1>11 DEF Next

---------------------------------------------------------------------------
(* The variables that the text gives an object.                            *)

\* The text of an accepted program.
TextOK(p, n) ==
  /\ n \in Nat /\ IsSeq(p) /\ Len(p) = n /\ DOMAIN p = 1..n
  /\ OwnNames(p, n) /\ NamedOnce(p, n) /\ ParentsFirst(p) /\ NoneApart

LEMMA NamedFacts ==
  ASSUME NEW p, NEW n, TextOK(p, n)
  PROVE  /\ Names(p) = {p[j].name : j \in 1..n} \cup {"Exception"}
         /\ NONE \notin Names(p)
         /\ Named(p, "Exception") = Exception
         /\ \A j \in 1..n : Named(p, p[j].name) = p[j]
<1>1. n \in Nat /\ IsSeq(p) /\ Len(p) = n
  BY DEF TextOK
<1>2. PICK c : c = Classes(p)
  OBVIOUS
<1>3. /\ IsSeq(c) /\ Len(c) = n + 1 /\ c[n + 1] = Exception
      /\ \A j \in 1..n : c[j] = p[j]
  BY <1>1, <1>2, Added DEF Classes
<1>4. DOMAIN c = 1..(n + 1)
  BY <1>3, SeqFacts
<1>5. \A j \in 1..(n + 1) : j = n + 1 \/ j \in 1..n
  BY <1>1
<1>6. n + 1 \in 1..(n + 1) /\ \A j \in 1..n : j \in 1..(n + 1) /\ j # n + 1
  BY <1>1
<1>7. Exception.name = "Exception"
  BY DEF Exception, ClassDecl
<1>8. \A j \in 1..n : p[j].name \notin {NONE, "Exception"}
  BY DEF TextOK, OwnNames
<1>9. Names(p) = {c[j].name : j \in 1..(n + 1)}
  BY <1>2, <1>4 DEF Names
<1>10. Names(p) = {p[j].name : j \in 1..n} \cup {"Exception"}
  BY <1>3, <1>5, <1>6, <1>7, <1>9
<1>11. NONE \notin Names(p)
  BY <1>8, <1>10 DEF TextOK, NoneApart
<1>12. \A k : Named(p, k) = c[CHOOSE j \in 1..(n + 1) : c[j].name = k]
  BY <1>2, <1>4 DEF Named
<1>13. \A i, j \in 1..(n + 1) : c[i].name = c[j].name => i = j
  <2>1. \A i, j \in 1..n : p[i].name = p[j].name => i = j
    BY DEF TextOK, NamedOnce
  <2> QED
    BY <1>3, <1>5, <1>7, <1>8, <2>1
<1>14. ASSUME NEW i \in 1..(n + 1) PROVE Named(p, c[i].name) = c[i]
  <2>1. PICK x : x = CHOOSE j \in 1..(n + 1) : c[j].name = c[i].name
    OBVIOUS
  <2>2. x \in 1..(n + 1) /\ c[x].name = c[i].name
    BY <2>1
  <2>3. x = i
    BY <1>13, <2>2
  <2> QED
    BY <1>12, <2>1, <2>3
<1>15. Named(p, "Exception") = Exception
  BY <1>3, <1>6, <1>7, <1>14
<1>16. \A j \in 1..n : Named(p, p[j].name) = p[j]
  BY <1>3, <1>6, <1>14
<1> QED
  BY <1>10, <1>11, <1>15, <1>16

LEMMA ParentNamed ==
  ASSUME NEW p, NEW n, TextOK(p, n), NEW j \in 1..n
  PROVE  p[j].parent \in {NONE, "Exception"} \/ \E l \in 1..(j - 1) : p[j].parent = p[l].name
BY DEF TextOK, ParentsFirst

\* The line of a class is the class before the line of its parent.
LEMMA LineageFacts ==
  ASSUME NEW p, NEW n, TextOK(p, n)
  PROVE  /\ Lineage(p, NONE) = <<>>
         /\ Lineage(p, "Exception") = <<"Exception">> \o <<>>
         /\ \A j \in 1..n : Lineage(p, p[j].name) = <<p[j].name>> \o Lineage(p, p[j].parent)
<1>1. /\ Names(p) = {p[j].name : j \in 1..n} \cup {"Exception"}
      /\ NONE \notin Names(p)
      /\ Named(p, "Exception") = Exception
      /\ \A j \in 1..n : Named(p, p[j].name) = p[j]
  BY NamedFacts
<1>2. n \in Nat /\ \A j \in 1..n : p[j].name \notin {NONE, "Exception"}
  BY DEF TextOK, OwnNames
<1>3. PICK at : at = [k \in Names(p) |-> IF k = "Exception" THEN 0 ELSE CHOOSE j \in 1..n : p[j].name = k]
  OBVIOUS
<1>4. at["Exception"] = 0
  BY <1>1, <1>3
<1>5. ASSUME NEW j \in 1..n PROVE at[p[j].name] = j
  <2>1. PICK x : x = CHOOSE i \in 1..n : p[i].name = p[j].name
    OBVIOUS
  <2>2. x \in 1..n /\ p[x].name = p[j].name
    BY <2>1
  <2>3. x = j
    BY <2>2 DEF TextOK, NamedOnce
  <2>4. at[p[j].name] = x
    BY <1>1, <1>2, <1>3, <2>1
  <2> QED
    BY <2>3, <2>4
<1>6. PICK C : C = Seq(Names(p))
  OBVIOUS
<1>7. PICK step : step = [x \in (1..n) \X C |-> IF p[x[1]].parent = NONE THEN <<p[x[1]].name>> \o <<>>
                                                ELSE <<p[x[1]].name>> \o x[2]]
  OBVIOUS
<1>8. \A j \in 1..n, v \in C : step[<<j, v>>] = IF p[j].parent = NONE THEN <<p[j].name>> \o <<>>
                                                ELSE <<p[j].name>> \o v
  <2> SUFFICES ASSUME NEW j \in 1..n, NEW v \in C
               PROVE  step[<<j, v>>] = IF p[j].parent = NONE THEN <<p[j].name>> \o <<>>
                                       ELSE <<p[j].name>> \o v
    OBVIOUS
  <2>1. PICK x \in (1..n) \X C : x = <<j, v>>
    OBVIOUS
  <2>2. x[1] = j /\ x[2] = v
    BY <2>1
  <2>3. step[x] = IF p[x[1]].parent = NONE THEN <<p[x[1]].name>> \o <<>> ELSE <<p[x[1]].name>> \o x[2]
    BY <1>7
  <2> QED
    BY <2>1, <2>2, <2>3
<1>9. <<>> \in C /\ \A k \in Names(p), v \in C : <<k>> \o v \in C
  <2>1. <<>> \in C
    BY <1>6, EmptySeq
  <2>2. ASSUME NEW k \in Names(p), NEW v \in C PROVE <<k>> \o v \in C
    <3>1. <<k>> \in Seq(Names(p)) /\ v \in Seq(Names(p))
      BY <1>6
    <3> QED
      BY <1>6, <3>1, ConcatProperties
  <2> QED
    BY <2>1, <2>2
<1>10. Steps(step, n, C)
  <2>1. ASSUME NEW j \in 1..n, NEW v \in C PROVE step[<<j, v>>] \in C
    <3>1. p[j].name \in Names(p)
      BY <1>1
    <3> QED
      BY <1>8, <1>9, <3>1
  <2> QED
    BY <2>1 DEF Steps
<1>11. PICK par : par = [j \in 1..n |-> IF p[j].parent = NONE THEN 0 ELSE at[p[j].parent]]
  OBVIOUS
<1>12. ASSUME NEW j \in 1..n PROVE par[j] \in 0..(j - 1)
  <2>1. CASE p[j].parent = NONE
    BY <1>2, <1>11, <2>1
  <2>2. CASE p[j].parent = "Exception"
    <3>1. par[j] = 0
      BY <1>4, <1>11, <2>2
    <3> QED
      BY <1>2, <3>1
  <2>3. CASE \E l \in 1..(j - 1) : p[j].parent = p[l].name
    <3>1. PICK l \in 1..(j - 1) : p[j].parent = p[l].name
      BY <2>3
    <3>2. l \in 1..n
      BY <1>2
    <3>3. par[j] = l
      BY <1>2, <1>5, <1>11, <3>1, <3>2
    <3> QED
      BY <3>3
  <2> QED
    BY <2>1, <2>2, <2>3, ParentNamed
<1>13. Backwards(par, n)
  BY <1>12 DEF Backwards
<1>14. PICK base \in C : base = <<"Exception">> \o <<>>
  BY <1>1, <1>9
<1>15. PICK g : Walked(g, par, base, step, n, C)
  BY <1>2, <1>10, <1>13, Walk
<1>16. /\ g \in [0..n -> C] /\ g[0] = base
       /\ \A j \in 1..n : g[j] = step[<<j, g[par[j]]>>]
  BY <1>15 DEF Walked
<1>17. PICK D : D = Names(p) \cup {NONE}
  OBVIOUS
<1>18. PICK w : w = [k \in D |-> IF k = NONE THEN <<>> ELSE g[at[k]]]
  OBVIOUS
<1>19. w[NONE] = <<>> /\ \A k \in Names(p) : w[k] = g[at[k]]
  BY <1>1, <1>17, <1>18
<1>20. Exception.parent = NONE
  BY DEF Exception, ClassDecl
<1>21. ASSUME NEW k \in D PROVE w[k] = IF k = NONE THEN <<>> ELSE <<k>> \o w[Named(p, k).parent]
  <2>1. CASE k = NONE
    BY <1>19, <2>1
  <2>2. CASE k = "Exception"
    <3>1. w[k] = <<"Exception">> \o <<>>
      BY <1>1, <1>4, <1>14, <1>16, <1>19, <2>2
    <3>2. w[Named(p, k).parent] = <<>>
      BY <1>1, <1>19, <1>20, <2>2
    <3>3. k # NONE
      BY <1>1, <2>2
    <3> QED
      BY <2>2, <3>1, <3>2, <3>3
  <2>3. CASE \E j \in 1..n : k = p[j].name
    <3>1. PICK j \in 1..n : k = p[j].name
      BY <2>3
    <3>2. w[k] = g[j] /\ Named(p, k) = p[j] /\ k # NONE
      BY <1>1, <1>2, <1>5, <1>19, <3>1
    <3>3. PICK v \in C : v = g[par[j]]
      <4>1. par[j] \in 0..n
        BY <1>2, <1>12
      <4> QED
        BY <1>16, <4>1
    <3>4. g[j] = IF p[j].parent = NONE THEN <<k>> \o <<>> ELSE <<k>> \o v
      BY <1>8, <1>16, <3>1, <3>3
    <3>5. CASE p[j].parent = NONE
      BY <1>19, <3>2, <3>4, <3>5
    <3>6. CASE p[j].parent # NONE
      <4>1. p[j].parent \in Names(p)
        <5>1. \A l \in 1..(j - 1) : l \in 1..n
          BY <1>2
        <5> QED
          BY <1>1, <3>6, <5>1, ParentNamed
      <4>2. w[p[j].parent] = v
        BY <1>11, <1>19, <3>3, <3>6, <4>1
      <4> QED
        BY <3>2, <3>4, <3>6, <4>2
    <3> QED
      BY <3>5, <3>6
  <2> QED
    BY <1>1, <1>17, <2>1, <2>2, <2>3
<1>22. w = [k \in D |-> IF k = NONE THEN <<>> ELSE <<k>> \o w[Named(p, k).parent]]
  <2>1. DOMAIN w = D /\ w = [k \in D |-> w[k]]
    BY <1>18
  <2> QED
    BY <1>21, <2>1
<1>23. PICK L : L = CHOOSE ll : ll = [k \in D |-> IF k = NONE THEN <<>> ELSE <<k>> \o ll[Named(p, k).parent]]
  OBVIOUS
<1>24. L = [k \in D |-> IF k = NONE THEN <<>> ELSE <<k>> \o L[Named(p, k).parent]]
  BY <1>22, <1>23
<1>25. \A k : Lineage(p, k) = L[k]
  BY <1>17, <1>23 DEF Lineage
<1>26. L[NONE] = <<>>
  BY <1>17, <1>24
<1>27. L["Exception"] = <<"Exception">> \o <<>>
  <2>1. "Exception" \in D /\ "Exception" # NONE
    BY <1>1, <1>17
  <2> QED
    BY <1>1, <1>20, <1>24, <1>26, <2>1
<1>28. ASSUME NEW j \in 1..n PROVE L[p[j].name] = <<p[j].name>> \o L[p[j].parent]
  <2>1. p[j].name \in D /\ p[j].name # NONE
    BY <1>1, <1>17
  <2> QED
    BY <1>1, <1>24, <2>1
<1> QED
  BY <1>25, <1>26, <1>27, <1>28

\* The variables that a class itself declares.
Own(p, k) == {<<k, d.id>> : d \in {e \in Body(p, k) : e.k = "var" /\ ~e.static}}

LEMMA FieldsOf ==
  ASSUME NEW p, NEW c, NEW k, NEW s, IsSeq(s), Lineage(p, c) = <<k>> \o s
  PROVE  IsSeq(<<k>> \o s) /\ Fields(p, c) = Own(p, k) \cup UNION {Own(p, x) : x \in ToSet(s)}
<1>1. PICK t : t = Before(k, s)
  OBVIOUS
<1>2. PICK m \in Nat : m = Len(s) /\ DOMAIN s = 1..m
  BY SeqFacts
<1>3. /\ IsSeq(t) /\ DOMAIN t = 1..(m + 1) /\ t[1] = k
      /\ \A i \in 1..m : t[i + 1] = s[i]
  BY <1>1, <1>2, Prepended
<1>4. ToSet(t) = {k} \cup ToSet(s)
  <2>1. k \in ToSet(t)
    <3>1. 1 \in 1..(m + 1)
      BY <1>2
    <3> QED
      BY <1>3, <3>1 DEF ToSet
  <2>2. ASSUME NEW i \in 1..m PROVE s[i] \in ToSet(t)
    <3>1. i + 1 \in 1..(m + 1)
      BY <1>2
    <3> QED
      BY <1>3, <3>1 DEF ToSet
  <2>3. ASSUME NEW i \in 1..(m + 1) PROVE t[i] \in {k} \cup ToSet(s)
    <3>1. CASE i = 1
      BY <1>3, <3>1
    <3>2. CASE i # 1
      <4>1. PICK j \in 1..m : i = j + 1
        <5>1. i - 1 \in 1..m /\ (i - 1) + 1 = i
          BY <1>2, <3>2
        <5> QED
          BY <5>1
      <4> QED
        BY <1>2, <1>3, <4>1 DEF ToSet
    <3> QED
      BY <3>1, <3>2
  <2> QED
    BY <1>2, <1>3, <2>1, <2>2, <2>3 DEF ToSet
<1>5. Fields(p, c) = UNION {Own(p, x) : x \in ToSet(t)}
  BY <1>1 DEF Fields, Own, Before
<1>6. UNION {Own(p, x) : x \in ToSet(t)} = Own(p, k) \cup UNION {Own(p, x) : x \in ToSet(s)}
  BY <1>4
<1> QED
  BY <1>1, <1>3, <1>5, <1>6 DEF Before

LEMMA FieldsFacts ==
  ASSUME NEW p, NEW n, TextOK(p, n)
  PROVE  /\ Fields(p, "Exception") = {<<"Exception", "text">>}
         /\ \A j \in 1..n :
              /\ IsSeq(Lineage(p, p[j].name))
              /\ Fields(p, p[j].name)
                 = Own(p, p[j].name) \cup (IF p[j].parent = NONE THEN {} ELSE Fields(p, p[j].parent))
<1>1. /\ Lineage(p, NONE) = <<>>
      /\ Lineage(p, "Exception") = <<"Exception">> \o <<>>
      /\ \A j \in 1..n : Lineage(p, p[j].name) = <<p[j].name>> \o Lineage(p, p[j].parent)
  BY LineageFacts
<1>2. IsSeq(<<>>) /\ ToSet(<<>>) = {}
  BY EmptySeq DEF IsSeq, ToSet
<1>3. IsSeq(<<"Exception">> \o <<>>) /\ Fields(p, "Exception") = Own(p, "Exception")
  <2>1. PICK s : s = <<>>
    OBVIOUS
  <2>2. IsSeq(s) /\ Lineage(p, "Exception") = <<"Exception">> \o s
    BY <1>1, <1>2, <2>1
  <2>3. /\ IsSeq(<<"Exception">> \o s)
        /\ Fields(p, "Exception") = Own(p, "Exception") \cup UNION {Own(p, x) : x \in ToSet(s)}
    BY <2>2, FieldsOf
  <2>4. UNION {Own(p, x) : x \in ToSet(s)} = {}
    BY <1>2, <2>1
  <2>5. IsSeq(<<"Exception">> \o <<>>)
    BY <2>1, <2>3
  <2> QED
    BY <2>3, <2>4, <2>5
<1>4. Own(p, "Exception") = {<<"Exception", "text">>}
  <2>1. Named(p, "Exception") = Exception
    BY NamedFacts
  <2>2. PICK b : b = Exception.body
    OBVIOUS
  <2>3. b = << Var("text"), Method("msg", FALSE, 0, <<>>), Method("type", FALSE, 0, <<>>),
               Method("Exception", FALSE, 1, <<>>) >>
    BY <2>2 DEF Exception, ClassDecl
  <2>4. DOMAIN b = 1..4 /\ b[1] = Var("text") /\ b[2].k = "method" /\ b[3].k = "method"
        /\ b[4].k = "method"
    BY <2>3 DEF Method
  <2>5. \A i \in 1..4 : i = 1 \/ i = 2 \/ i = 3 \/ i = 4
    OBVIOUS
  <2>6. Var("text").k = "var" /\ ~Var("text").static /\ Var("text").id = "text"
    BY DEF Var
  <2>7. {e \in ToSet(b) : e.k = "var" /\ ~e.static} = {Var("text")}
    <3>1. Var("text") \in ToSet(b)
      BY <2>4 DEF ToSet
    <3>2. \A e \in ToSet(b) : e = Var("text") \/ e.k = "method"
      BY <2>4, <2>5 DEF ToSet
    <3> QED
      BY <2>6, <3>1, <3>2
  <2>8. Body(p, "Exception") = ToSet(b)
    BY <2>1, <2>2 DEF Body
  <2> QED
    BY <2>6, <2>7, <2>8 DEF Own
<1>5. \A j \in 1..n : p[j].name # NONE /\ p[j].name # "Exception"
  BY DEF TextOK, OwnNames
<1>6. \A j \in 1..n : j \in {i \in 1..n : IsSeq(Lineage(p, p[i].name))}
  <2>1. PICK G : G = {i \in 1..n : IsSeq(Lineage(p, p[i].name))}
    OBVIOUS
  <2>2. n \in Nat
    BY DEF TextOK
  <2>3. ASSUME NEW j \in 1..n, \A l \in 1..(j - 1) : l \in G PROVE j \in G
    <3>1. IsSeq(Lineage(p, p[j].parent))
      <4>1. CASE p[j].parent = NONE
        BY <1>1, <1>2, <4>1
      <4>2. CASE p[j].parent = "Exception"
        BY <1>1, <1>3, <4>2
      <4>3. CASE \E l \in 1..(j - 1) : p[j].parent = p[l].name
        <5>1. PICK l \in 1..(j - 1) : p[j].parent = p[l].name
          BY <4>3
        <5>2. l \in G
          BY <2>3, <5>1
        <5> QED
          BY <2>1, <5>1, <5>2
      <4> QED
        BY <4>1, <4>2, <4>3, ParentNamed
    <3>2. IsSeq(Lineage(p, p[j].name))
      BY <1>1, <3>1, FieldsOf
    <3> QED
      BY <2>1, <3>2
  <2>4. \A j \in 1..n : j \in G
    BY <2>2, <2>3, Ordered
  <2> QED
    BY <2>1, <2>4
<1>7. ASSUME NEW j \in 1..n
      PROVE  Fields(p, p[j].name)
             = Own(p, p[j].name) \cup (IF p[j].parent = NONE THEN {} ELSE Fields(p, p[j].parent))
  <2>1. PICK s : s = Lineage(p, p[j].parent)
    OBVIOUS
  <2>2. IsSeq(s)
    <3>1. CASE p[j].parent = NONE
      BY <1>1, <1>2, <2>1, <3>1
    <3>2. CASE p[j].parent = "Exception"
      BY <1>1, <1>3, <2>1, <3>2
    <3>3. CASE \E l \in 1..(j - 1) : p[j].parent = p[l].name
      <4>1. PICK l \in 1..(j - 1) : p[j].parent = p[l].name
        BY <3>3
      <4>2. n \in Nat
        BY DEF TextOK
      <4>3. l \in 1..n
        BY <4>2
      <4>4. IsSeq(Lineage(p, p[l].name))
        BY <1>6, <4>3
      <4> QED
        BY <2>1, <4>1, <4>4
    <3> QED
      BY <3>1, <3>2, <3>3, ParentNamed
  <2>3. Fields(p, p[j].name) = Own(p, p[j].name) \cup UNION {Own(p, x) : x \in ToSet(s)}
    <3>1. Lineage(p, p[j].name) = <<p[j].name>> \o s
      BY <1>1, <2>1
    <3> QED
      BY <2>2, <3>1, FieldsOf, ZenonT(30)
  <2>4. CASE p[j].parent = NONE
    <3>1. UNION {Own(p, x) : x \in ToSet(s)} = {}
      BY <1>1, <1>2, <2>1, <2>4
    <3> QED
      BY <2>3, <2>4, <3>1
  <2>5. CASE p[j].parent # NONE
    <3>1. UNION {Own(p, x) : x \in ToSet(s)} = Fields(p, p[j].parent)
      BY <2>1 DEF Fields, Own
    <3> QED
      BY <2>3, <2>5, <3>1
  <2> QED
    BY <2>4, <2>5
<1> QED
  BY <1>3, <1>4, <1>6, <1>7

LEMMA TextFacts ==
  ASSUME NoneApart, NEW p, NEW tab, NEW n, Compiled(p, tab, n)
  PROVE  TextOK(p, n)
<1>1. /\ n \in Nat /\ DOMAIN p = 1..n /\ IsSeq(p)
      /\ OwnNames(p, n) /\ NamedOnce(p, n)
  BY CompiledFacts
<1>2. n = Len(p) /\ ParentsFirst(p)
  BY DEF Compiled
<1> QED
  BY <1>1, <1>2 DEF TextOK

---------------------------------------------------------------------------
(* The cells of an object.                                                 *)

LEMMA SymbolFound ==
  ASSUME NEW s, IsSeq(s), NEW name, NEW j \in 1..Len(s), s[j].name = name,
         NEW x, x = SymbolAt(s, name)
  PROVE  x \in 1..Len(s) /\ s[x].name = name
<1>1. PICK m \in Nat : m = Len(s) /\ DOMAIN s = 1..m
  BY SeqFacts
<1>2. PICK I : I = {i \in 1..m : s[i].name = name}
  OBVIOUS
<1>3. I # {} /\ I \in SUBSET Nat
  BY <1>1, <1>2
<1>4. x = IF I # {} THEN Min(I) ELSE 0
  BY <1>1, <1>2 DEF SymbolAt, SelectInSeq
<1>5. \E y \in I : \A z \in I : y <= z
  BY <1>3, Least
<1>6. x \in I
  BY <1>3, <1>4, <1>5 DEF Min
<1> QED
  BY <1>1, <1>2, <1>6

\* The loaded symbol of a variable is one of the compiler's symbols of its name.
SymbolOf(syms, s, id, q) ==
  q \in DOMAIN syms /\ syms[q].ident = id /\ syms[q].sc = "SC_INSTANCE"
  /\ s[SymbolAt(s, id)].addr = syms[q].addr

LEMMA SymbolKept ==
  ASSUME NEW syms, IsSeq(syms), NEW s, s = AsLoaded(Divided(syms, "SC_INSTANCE")), NEW id,
         NEW k \in DOMAIN syms, syms[k].ident = id, syms[k].sc = "SC_INSTANCE"
  PROVE  \E q : SymbolOf(syms, s, id, q)
<1>1. PICK n \in Nat : n = Len(syms) /\ DOMAIN syms = 1..n
  BY SeqFacts
<1>2. PICK r : r = Divided(syms, "SC_INSTANCE")
  OBVIOUS
<1>3. PICK e : IsSeq(r) /\ Listing(e, r, syms, "SC_INSTANCE", n)
  BY <1>1, <1>2, DividedFacts
<1>4. PICK m \in Nat : m = Len(r)
  BY <1>3, SeqFacts
<1>5. s = [i \in 1..m |-> [name |-> r[m + 1 - i].ident, addr |-> r[m + 1 - i].addr,
                           const_ptr |-> r[m + 1 - i].const_ptr]]
  BY <1>2, <1>4 DEF AsLoaded
<1>6. \A i \in 1..m : s[i].name = r[m + 1 - i].ident /\ s[i].addr = r[m + 1 - i].addr
  BY <1>5
<1>7. IsSeq(s) /\ Len(s) = m
  <2>1. s = [i \in 1..m |-> s[i]]
    BY <1>5
  <2> QED
    BY <1>4, <2>1, IsSeqByLength
<1>8. PICK j \in 1..m : e[j] = k
  BY <1>1, <1>3, <1>4 DEF Listing
<1>9. m + 1 - j \in 1..m /\ m + 1 - (m + 1 - j) = j
  BY <1>4
<1>10. s[m + 1 - j].name = id
  BY <1>3, <1>4, <1>6, <1>8, <1>9 DEF Listing
<1>11. PICK x \in 1..m : x = SymbolAt(s, id) /\ s[x].name = id
  <2>1. PICK i \in 1..Len(s) : s[i].name = id
    BY <1>7, <1>9, <1>10
  <2>2. PICK at : at = SymbolAt(s, id)
    OBVIOUS
  <2>3. at \in 1..Len(s) /\ s[at].name = id
    BY <1>7, <2>1, <2>2, SymbolFound
  <2>4. Len(s) = m
    BY <1>7
  <2>5. at \in 1..m
    BY <2>3, <2>4
  <2> QED
    BY <2>2, <2>3, <2>5
<1>12. PICK y \in 1..m : y = m + 1 - x
  <2>1. m \in Nat /\ x \in 1..m
    BY <1>4, <1>11
  <2>2. m + 1 - x \in 1..m
    BY <2>1
  <2> QED
    BY <2>2
<1>13. r[y].ident = id /\ s[x].addr = r[y].addr
  BY <1>6, <1>11, <1>12
<1>14. e[y] \in {i \in 1..n : syms[i].sc = "SC_INSTANCE"} /\ r[y] = syms[e[y]]
  BY <1>3, <1>4 DEF Listing
<1> QED
  BY <1>1, <1>11, <1>13, <1>14 DEF SymbolOf

\* The address of variable f = <<class, name>>.
AddrOf(cls, f) ==
  LET syms == cls[vm_find_class(cls, f[1])].syms_instance IN syms[SymbolAt(syms, f[2])].addr

LEMMA ClassAt ==
  ASSUME NEW p, NEW tab, NEW n, Compiled(p, tab, n), NEW cls, WithBuiltin(cls, tab, n)
  PROVE  /\ vm_find_class(cls, "Exception") = n + 1
         /\ \A j \in 1..n : vm_find_class(cls, p[j].name) = n + 1 - j
<1>1. n \in Nat
  BY CompiledFacts
<1>2. NamesOf(cls, p, n) /\ ClassesApart(cls, n)
  BY NamesApart
<1>3. IsSeq(cls) /\ Len(cls) = n + 1
  BY <1>1, BuiltinFacts
<1>4. ASSUME NEW i \in 1..(n + 1) PROVE vm_find_class(cls, cls[i].name) = i
  <2>1. PICK x : x = vm_find_class(cls, cls[i].name)
    OBVIOUS
  <2>2. x \in 1..(n + 1) /\ cls[x].name = cls[i].name
    BY <1>3, <2>1, FindClass
  <2> QED
    BY <1>2, <2>1, <2>2 DEF ClassesApart
<1>5. n + 1 \in 1..(n + 1) /\ cls[n + 1].name = "Exception"
  BY <1>1, <1>2 DEF NamesOf
<1>6. ASSUME NEW j \in 1..n PROVE vm_find_class(cls, p[j].name) = n + 1 - j
  <2>1. PICK i \in 1..n : i = n + 1 - j /\ n + 1 - i = j
    BY <1>1, TurnedAt
  <2>2. cls[i].name = p[j].name
    BY <1>2, <2>1 DEF NamesOf
  <2>3. i \in 1..(n + 1)
    BY <1>1
  <2> QED
    BY <1>4, <2>1, <2>2, <2>3
<1> QED
  BY <1>4, <1>5, <1>6

\* The variables of class j itself are its instance symbols.
LEMMA OwnSymbol ==
  ASSUME NoneApart, NEW p, NEW tab, NEW n, Compiled(p, tab, n), NEW cls, WithBuiltin(cls, tab, n),
         NEW j \in 1..n, NEW f \in Own(p, p[j].name)
  PROVE  /\ f = <<p[j].name, f[2]>>
         /\ \E q : /\ q \in DOMAIN tab[n + 1 - j].syms
                   /\ tab[n + 1 - j].syms[q].ident = f[2]
                   /\ tab[n + 1 - j].syms[q].sc = "SC_INSTANCE"
                   /\ AddrOf(cls, f) = tab[n + 1 - j].syms[q].addr
<1>1. n \in Nat
  BY CompiledFacts
<1>2. PICK i \in 1..n : i = n + 1 - j
  BY <1>1, TurnedAt
<1>3. PICK syms, s : syms = tab[i].syms /\ s = cls[i].syms_instance
  OBVIOUS
<1>4. IsSeq(syms) /\ s = AsLoaded(Divided(syms, "SC_INSTANCE"))
  <2>1. SymsOK(tab[i])
    <3>1. TabOK(tab) /\ DOMAIN tab = 1..n
      BY CompiledFacts DEF Compiled
    <3> QED
      BY <3>1 DEF TabOK
  <2> QED
    BY <1>3, <2>1 DEF SymsOK, WithBuiltin, LoadedFrom
<1>5. PICK body : body = p[j].body /\ Body(p, p[j].name) = ToSet(body)
  <2>1. Named(p, p[j].name) = p[j]
    BY TextFacts, NamedFacts
  <2> QED
    BY <2>1 DEF Body
<1>6. PICK d \in ToSet(body) : d.k = "var" /\ ~d.static /\ f = <<p[j].name, d.id>>
  BY <1>5 DEF Own
<1>7. PICK l \in DOMAIN body : d = body[l]
  BY <1>6 DEF ToSet
<1>8. PICK id : id = d.id
  OBVIOUS
<1>9. f[1] = p[j].name /\ f[2] = id
  BY <1>6, <1>8
<1>10. HasField(tab[i], id)
  <2>1. IsSeq(tab) /\ n = Len(p) /\ AsRead(p, <<>>, tab)
    BY CompiledFacts DEF Compiled
  <2>2. IsField(p[j].body[l]) => HasField(tab[n + 1 - j], p[j].body[l].id)
    BY <1>5, <2>1, AllRead
  <2>3. IsField(p[j].body[l])
    BY <1>5, <1>6, <1>7 DEF IsField
  <2> QED
    BY <1>2, <1>5, <1>7, <1>8, <2>2, <2>3
<1>11. PICK k \in DOMAIN syms : syms[k].ident = id /\ syms[k].sc = "SC_INSTANCE"
  BY <1>3, <1>10 DEF HasField
<1>12. PICK q : SymbolOf(syms, s, id, q)
  BY <1>4, <1>11, SymbolKept
<1>13. AddrOf(cls, f) = s[SymbolAt(s, id)].addr
  <2>1. vm_find_class(cls, f[1]) = i
    BY <1>2, <1>9, ClassAt
  <2> QED
    BY <1>3, <1>9, <2>1 DEF AddrOf
<1>14. /\ q \in DOMAIN syms /\ syms[q].ident = id /\ syms[q].sc = "SC_INSTANCE"
       /\ AddrOf(cls, f) = syms[q].addr
  BY <1>12, <1>13 DEF SymbolOf
<1> QED
  BY <1>2, <1>3, <1>6, <1>9, <1>14

\* Addresses from a on and below b, a different one for each variable.
Between(cls, F, a, b) ==
  /\ \A f \in F : AddrOf(cls, f) \in a..(b - 1)
  /\ \A f, g \in F : AddrOf(cls, f) = AddrOf(cls, g) => f = g

LEMMA OwnPlaced ==
  ASSUME NoneApart, NEW p, NEW tab, NEW n, Compiled(p, tab, n), NEW cls, WithBuiltin(cls, tab, n),
         NEW j \in 1..n, NEW i \in 1..n, i = n + 1 - j
  PROVE  Between(cls, Own(p, p[j].name), FirstAddr(tab, i, "SC_INSTANCE"), tab[i].obj_addr_next)
<1>1. PICK a, b, syms, F : /\ a = FirstAddr(tab, i, "SC_INSTANCE") /\ b = tab[i].obj_addr_next
                           /\ syms = tab[i].syms /\ F = Own(p, p[j].name)
  OBVIOUS
<1>2. SymsOK(tab[i]) /\ Fill(tab[i], "SC_INSTANCE", a)
  <2>1. TabOK(tab) /\ DOMAIN tab = 1..n
    BY CompiledFacts DEF Compiled
  <2> QED
    BY <1>1, <2>1 DEF TabOK, Scopes
<1>3. Addresses(tab[i], "SC_INSTANCE") = a..(b - 1)
  BY <1>1, <1>2 DEF Fill, NextAddr
<1>4. \A x, y \in DOMAIN syms : syms[x].sc = syms[y].sc /\ syms[x].addr = syms[y].addr => x = y
  BY <1>1, <1>2 DEF SymsOK
<1>5. \A x \in DOMAIN syms : syms[x].sc = "SC_INSTANCE" => syms[x].addr \in a..(b - 1)
  BY <1>1, <1>3 DEF Addresses, Range
<1>6. ASSUME NEW f \in F
      PROVE  /\ f = <<p[j].name, f[2]>>
             /\ \E q : /\ q \in DOMAIN syms /\ syms[q].ident = f[2]
                       /\ syms[q].sc = "SC_INSTANCE" /\ AddrOf(cls, f) = syms[q].addr
  BY <1>1, OwnSymbol
<1>7. ASSUME NEW f \in F PROVE AddrOf(cls, f) \in a..(b - 1)
  BY <1>5, <1>6
<1>8. ASSUME NEW f \in F, NEW g \in F, AddrOf(cls, f) = AddrOf(cls, g) PROVE f = g
  <2>1. PICK q : /\ q \in DOMAIN syms /\ syms[q].ident = f[2]
                 /\ syms[q].sc = "SC_INSTANCE" /\ AddrOf(cls, f) = syms[q].addr
    BY <1>6
  <2>2. PICK r : /\ r \in DOMAIN syms /\ syms[r].ident = g[2]
                 /\ syms[r].sc = "SC_INSTANCE" /\ AddrOf(cls, g) = syms[r].addr
    BY <1>6
  <2>3. q = r
    BY <1>4, <1>8, <2>1, <2>2
  <2>4. f[2] = g[2]
    BY <2>1, <2>2, <2>3
  <2>5. f = <<p[j].name, f[2]>> /\ g = <<p[j].name, g[2]>>
    BY <1>6
  <2> QED
    BY <2>4, <2>5
<1> QED
  BY <1>1, <1>7, <1>8 DEF Between

\* The variables of an object of class j: that of the native class, which is in
\* front of all others, and those with an address.
IsText(f) == f[1] = "Exception"
Placed(p, tab, cls, n, j) ==
  LET F == Fields(p, p[j].name)
  IN /\ cls[n + 1 - j].offset \in {0, 1}
     /\ \A f \in F : IsText(f) => f = <<"Exception", "text">> /\ cls[n + 1 - j].offset = 1
     /\ Between(cls, {f \in F : ~IsText(f)}, 0, tab[n + 1 - j].obj_addr_next)

LEMMA OwnApart ==
  ASSUME NoneApart, NEW p, NEW tab, NEW n, Compiled(p, tab, n), NEW j \in 1..n
  PROVE  \A f \in Own(p, p[j].name) : ~IsText(f)
<1>1. p[j].name # "Exception"
  BY TextFacts DEF TextOK, OwnNames
<1>2. \A f \in Own(p, p[j].name) : f[1] = p[j].name
  BY DEF Own
<1> QED
  BY <1>1, <1>2 DEF IsText

\* Variables with addresses from a on are not among those below a.
LEMMA BetweenJoined ==
  ASSUME NEW cls, NEW a \in Nat, NEW b \in Nat, a <= b, NEW F, NEW G, Between(cls, F, 0, a), Between(cls, G, a, b)
  PROVE  Between(cls, F \cup G, 0, b)
<1>1. \A f \in F : AddrOf(cls, f) \in 0..(a - 1)
  BY DEF Between
<1>2. \A f \in G : AddrOf(cls, f) \in a..(b - 1)
  BY DEF Between
<1>3. ASSUME NEW f \in F, NEW g \in G PROVE AddrOf(cls, f) # AddrOf(cls, g)
  <2>1. PICK x, y : x = AddrOf(cls, f) /\ y = AddrOf(cls, g)
    OBVIOUS
  <2>2. x \in 0..(a - 1) /\ y \in a..(b - 1)
    BY <1>1, <1>2, <2>1
  <2> QED
    BY <2>1, <2>2
<1>4. 0..(a - 1) \subseteq 0..(b - 1) /\ a..(b - 1) \subseteq 0..(b - 1)
  OBVIOUS
<1>5. \A f \in F \cup G : AddrOf(cls, f) \in 0..(b - 1)
  BY <1>1, <1>2, <1>4
<1>6. ASSUME NEW f \in F \cup G, NEW g \in F \cup G, AddrOf(cls, f) = AddrOf(cls, g) PROVE f = g
  <2>1. CASE f \in F /\ g \in F
    BY <1>6, <2>1 DEF Between
  <2>2. CASE f \in G /\ g \in G
    BY <1>6, <2>2 DEF Between
  <2> QED
    BY <1>3, <1>6, <2>1, <2>2
<1> QED
  BY <1>5, <1>6 DEF Between

LEMMA PlacedAll ==
  ASSUME NoneApart, NEW p, NEW tab, NEW n, Compiled(p, tab, n), NEW cls, WithBuiltin(cls, tab, n),
         Linked(cls, n), Sized(cls, tab, n)
  PROVE  \A j \in 1..n : Placed(p, tab, cls, n, j)
<1>1. n \in Nat
  BY CompiledFacts
<1>2. PICK G : G = {j \in 1..n : Placed(p, tab, cls, n, j)}
  OBVIOUS
<1>3. TextOK(p, n)
  BY TextFacts
<1>4. ASSUME NEW j \in 1..n, \A l \in 1..(j - 1) : l \in G PROVE j \in G
  <2>1. PICK i \in 1..n : i = n + 1 - j
    BY <1>1, TurnedAt
  <2>2. PICK a, b, O : /\ a = FirstAddr(tab, i, "SC_INSTANCE") /\ b = tab[i].obj_addr_next
                       /\ O = Own(p, p[j].name)
    OBVIOUS
  <2>3. a \in Nat /\ b \in Nat /\ a <= b
    BY <2>2, OwnVariables
  <2>4. Between(cls, O, a, b)
    BY <2>1, <2>2, OwnPlaced
  <2>5. \A f \in O : ~IsText(f)
    BY <2>2, OwnApart
  <2>6. cls[i].offset = IF cls[i].parent = 0 THEN 0
                        ELSE IF cls[i].parent = n + 1 THEN 1
                        ELSE cls[cls[i].parent].offset
    BY DEF Sized
  <2>7. PICK F : F = Fields(p, p[j].name)
    OBVIOUS
  <2>8. F = O \cup (IF p[j].parent = NONE THEN {} ELSE Fields(p, p[j].parent))
    BY <1>3, <2>2, <2>7, FieldsFacts
  <2>9. LinkOf(p, tab, cls, n, j)
    BY Links
  <2>10. SUFFICES /\ cls[i].offset \in {0, 1}
                  /\ \A f \in F : IsText(f) => f = <<"Exception", "text">> /\ cls[i].offset = 1
                  /\ Between(cls, {f \in F : ~IsText(f)}, 0, b)
    BY <1>2, <2>1, <2>2, <2>7 DEF Placed
  <2>11. CASE p[j].parent = NONE /\ cls[i].parent = 0 /\ a = 0
    <3>1. F = O
      BY <2>8, <2>11
    <3>2. {f \in F : ~IsText(f)} = O
      BY <2>5, <3>1
    <3>3. cls[i].offset = 0
      BY <2>6, <2>11
    <3> QED
      BY <2>4, <2>5, <2>11, <3>1, <3>2, <3>3
  <2>12. CASE p[j].parent = "Exception" /\ cls[i].parent = n + 1 /\ a = 0
    <3>1. F = O \cup {<<"Exception", "text">>}
      <4>1. p[j].parent # NONE
        BY <2>12 DEF NoneApart
      <4>2. Fields(p, "Exception") = {<<"Exception", "text">>}
        BY <1>3, FieldsFacts
      <4> QED
        BY <2>8, <2>12, <4>1, <4>2
    <3>2. IsText(<<"Exception", "text">>)
      BY DEF IsText
    <3>3. {f \in F : ~IsText(f)} = O
      BY <2>5, <3>1, <3>2
    <3>4. cls[i].offset = 1
      <4>1. n + 1 # 0
        BY <1>1
      <4> QED
        BY <2>6, <2>12, <4>1
    <3> QED
      BY <2>4, <2>5, <2>12, <3>1, <3>3, <3>4
  <2>13. CASE \E l \in 1..(j - 1) : /\ p[j].parent = p[l].name /\ cls[i].parent = n + 1 - l
                                    /\ a = tab[n + 1 - l].obj_addr_next
    <3>1. PICK l \in 1..(j - 1) : /\ p[j].parent = p[l].name /\ cls[i].parent = n + 1 - l
                                  /\ a = tab[n + 1 - l].obj_addr_next
      BY <2>13
    <3>2. l \in 1..n
      BY <1>1
    <3>3. PICK k \in 1..n : k = n + 1 - l
      BY <1>1, <3>2, TurnedAt
    <3>4. PICK P : P = Fields(p, p[l].name)
      OBVIOUS
    <3>5. /\ cls[k].offset \in {0, 1}
          /\ \A f \in P : IsText(f) => f = <<"Exception", "text">> /\ cls[k].offset = 1
          /\ Between(cls, {f \in P : ~IsText(f)}, 0, a)
      <4>1. Placed(p, tab, cls, n, l)
        BY <1>2, <1>4
      <4> QED
        BY <3>1, <3>3, <3>4, <4>1 DEF Placed
    <3>6. F = O \cup P
      <4>1. p[l].name # NONE
        BY <1>3, <3>2 DEF TextOK, OwnNames
      <4> QED
        BY <2>8, <3>1, <3>4, <4>1
    <3>7. cls[i].offset = cls[k].offset
      <4>1. k # 0 /\ k # n + 1
        BY <1>1
      <4> QED
        BY <2>6, <3>1, <3>3, <4>1
    <3>8. {f \in F : ~IsText(f)} = {f \in P : ~IsText(f)} \cup O
      BY <2>5, <3>6
    <3>9. Between(cls, {f \in P : ~IsText(f)} \cup O, 0, b)
      BY <2>3, <2>4, <3>5, BetweenJoined
    <3> QED
      BY <2>5, <3>5, <3>6, <3>7, <3>8, <3>9
  <2> QED
    BY <2>1, <2>2, <2>9, <2>11, <2>12, <2>13 DEF LinkOf
<1>5. \A j \in 1..n : j \in G
  BY <1>1, <1>4, Ordered
<1> QED
  BY <1>2, <1>5

LEMMA CellAt ==
  ASSUME NEW f, NEW off
  PROVE  CellOf(f, off) = IF f = <<"Exception", "text">> THEN 1 ELSE AddrOf(classes_g, f) + off + 1
BY DEF CellOf, AddrOf, ClassIndex

\* What an object of class i is given.
LEMMA AllocatedNative ==
  ASSUME NEW i, classes_g[i].native = TRUE, NEW new, new = alloc_udo(i)
  PROVE  new.off = 0 /\ DOMAIN new.cells = 1..1
BY DEF alloc_udo

\* Cells for the variables in front of the others and behind them.
LEMMA CellsApart ==
  ASSUME NEW F, NEW off \in {0, 1}, NEW b \in Nat, NEW cls, cls = classes_g,
         \A f \in F : IsText(f) => f = <<"Exception", "text">> /\ off = 1,
         Between(cls, {f \in F : ~IsText(f)}, 0, b)
  PROVE  /\ \A f \in F : CellOf(f, off) \in 1..(b + off)
         /\ \A f, g \in F : CellOf(f, off) = CellOf(g, off) => f = g
<1>1. ASSUME NEW f \in F
      PROVE  \/ f = <<"Exception", "text">> /\ off = 1 /\ CellOf(f, off) = 1
             \/ /\ ~IsText(f) /\ AddrOf(cls, f) \in 0..(b - 1)
                /\ CellOf(f, off) = AddrOf(cls, f) + off + 1
  <2>1. CASE IsText(f)
    <3>1. f = <<"Exception", "text">> /\ off = 1
      BY <2>1
    <3> QED
      BY <3>1, CellAt
  <2>2. CASE ~IsText(f)
    <3>1. f # <<"Exception", "text">>
      BY <2>2 DEF IsText
    <3>2. AddrOf(cls, f) \in 0..(b - 1)
      BY <2>2 DEF Between
    <3> QED
      BY <2>2, <3>1, <3>2, CellAt
  <2> QED
    BY <2>1, <2>2
<1>2. ASSUME NEW f \in F PROVE CellOf(f, off) \in 1..(b + off)
  <2>1. CASE off = 1 /\ CellOf(f, off) = 1
    BY <2>1
  <2>2. CASE AddrOf(cls, f) \in 0..(b - 1) /\ CellOf(f, off) = AddrOf(cls, f) + off + 1
    <3>1. PICK x \in 0..(b - 1) : x = AddrOf(cls, f)
      BY <2>2
    <3>2. x + off + 1 \in 1..(b + off)
      OBVIOUS
    <3> QED
      BY <2>2, <3>1, <3>2
  <2> QED
    BY <1>1, <2>1, <2>2
<1>3. ASSUME NEW f \in F, NEW g \in F, CellOf(f, off) = CellOf(g, off) PROVE f = g
  <2>1. PICK x, y : x = AddrOf(cls, f) /\ y = AddrOf(cls, g)
    OBVIOUS
  <2>2. \/ f = <<"Exception", "text">> /\ off = 1 /\ CellOf(f, off) = 1
        \/ ~IsText(f) /\ x \in 0..(b - 1) /\ CellOf(f, off) = x + off + 1
    BY <1>1, <2>1
  <2>3. \/ g = <<"Exception", "text">> /\ off = 1 /\ CellOf(g, off) = 1
        \/ ~IsText(g) /\ y \in 0..(b - 1) /\ CellOf(g, off) = y + off + 1
    BY <1>1, <2>1
  <2>4. \/ f = <<"Exception", "text">> /\ g = <<"Exception", "text">>
        \/ ~IsText(f) /\ ~IsText(g) /\ x = y
    BY <1>3, <2>2, <2>3
  <2>5. ASSUME ~IsText(f), ~IsText(g), x = y PROVE f = g
    BY <2>1, <2>5 DEF Between
  <2> QED
    BY <2>4, <2>5
<1> QED
  BY <1>2, <1>3

LEMMA Slots ==
  ASSUME NoneApart, MachineInv, InMachine
  PROVE  SlotsApart
<1>1. PICK p, tab, n, cls : p = prog /\ tab = TabClass /\ n = Len(TabClass) /\ cls = classes_g
  OBVIOUS
<1>2. phase \in {"run", "error"}
  BY DEF InMachine
<1>3. Compiled(p, tab, n) /\ n \in Nat
  BY <1>1, <1>2, TextCompiled
<1>4. WithBuiltin(cls, tab, n) /\ Linked(cls, n) /\ Sized(cls, tab, n)
  BY <1>1, <1>2 DEF MachineInv, LinkInv, Linking
<1>5. TextOK(p, n)
  BY <1>3, TextFacts
<1>6. SUFFICES ASSUME NEW c \in Names(p), NEW new, new = alloc_udo(vm_find_class(cls, c))
               PROVE  /\ \A f \in Fields(p, c) : CellOf(f, new.off) \in DOMAIN new.cells
                      /\ \A f, g \in Fields(p, c) : f # g => CellOf(f, new.off) # CellOf(g, new.off)
  BY <1>1 DEF SlotsApart, ClassIndex
<1>7. CASE c = "Exception"
  <2>1. PICK x : x = <<"Exception", "text">>
    OBVIOUS
  <2>2. Fields(p, c) = {x}
    BY <1>5, <1>7, <2>1, FieldsFacts
  <2>3. cls[n + 1].native = TRUE
    BY <1>4 DEF WithBuiltin, IsBuiltin
  <2>4. new = alloc_udo(n + 1)
    BY <1>3, <1>4, <1>6, <1>7, ClassAt
  <2>5. DOMAIN new.cells = 1..1
    <3>1. PICK i : i = n + 1
      OBVIOUS
    <3>2. classes_g[i].native = TRUE
      BY <1>1, <2>3, <3>1
    <3>3. new = alloc_udo(i)
      BY <2>4, <3>1
    <3> QED
      BY <3>2, <3>3, AllocatedNative
  <2>6. CellOf(x, new.off) = 1
    BY <2>1, CellAt
  <2>7. 1 \in 1..1
    OBVIOUS
  <2> QED
    BY <2>2, <2>5, <2>6, <2>7
<1>8. ASSUME NEW j \in 1..n, c = p[j].name
      PROVE  /\ \A f \in Fields(p, c) : CellOf(f, new.off) \in DOMAIN new.cells
             /\ \A f, g \in Fields(p, c) : f # g => CellOf(f, new.off) # CellOf(g, new.off)
  <2>1. PICK i \in 1..n : i = n + 1 - j
    BY <1>3, TurnedAt
  <2>2. PICK b, off, F : b = tab[i].obj_addr_next /\ off = cls[i].offset /\ F = Fields(p, c)
    OBVIOUS
  <2>3. b \in Nat
    BY <1>3, <1>4, <2>2, OwnVariables
  <2>4. Placed(p, tab, cls, n, j)
    BY <1>3, <1>4, PlacedAll
  <2>5. /\ off \in {0, 1}
        /\ \A f \in F : IsText(f) => f = <<"Exception", "text">> /\ off = 1
        /\ Between(cls, {f \in F : ~IsText(f)}, 0, b)
    BY <1>8, <2>1, <2>2, <2>4 DEF Placed
  <2>6. /\ \A f \in F : CellOf(f, off) \in 1..(b + off)
        /\ \A f, g \in F : CellOf(f, off) = CellOf(g, off) => f = g
    BY <1>1, <2>3, <2>5, CellsApart
  <2>7. cls[i].native = FALSE
    BY <1>4 DEF WithBuiltin, LoadedFrom
  <2>8. cls[i].total = b
    BY <1>4, <2>2 DEF Sized
  <2>9. new = alloc_udo(i)
    BY <1>3, <1>4, <1>6, <1>8, <2>1, ClassAt
  <2>10. /\ new.off = off
         /\ DOMAIN new.cells = 1..(IF b + off = 0 THEN 1 ELSE b + off)
    <3>1. classes_g[i].native = FALSE
      BY <1>1, <2>7
    <3>2. b = classes_g[i].total /\ off = classes_g[i].offset
      BY <1>1, <2>2, <2>8
    <3> QED
      BY <2>9, <3>1, <3>2 DEF alloc_udo
  <2>11. 1..(b + off) \subseteq 1..(IF b + off = 0 THEN 1 ELSE b + off)
    BY <2>3, <2>5
  <2> QED
    BY <2>2, <2>6, <2>10, <2>11
<1>9. c = "Exception" \/ \E j \in 1..n : c = p[j].name
  BY <1>5, <1>6, NamedFacts
<1> QED
  BY <1>7, <1>8, <1>9

---------------------------------------------------------------------------
\* SlotsApart, for every program whose classes come after their parents: no two
\* variables of an object share a cell, those of its ancestors and of the native
\* class Exception included, and all are inside the allocation, whatever the
\* compiler has counted, the file has kept and the linker has summed up.
THEOREM VariablesFit ==
  ASSUME NoClass, NoneApart, \A p \in Programs : IsProgram(p) /\ ParentsFirst(p)
  PROVE  Spec => []SlotsApart
<1>1. Init => MachineInv
  <2>1. SUFFICES ASSUME Init PROVE MachineInv
    OBVIOUS
  <2>2. IsProgram(prog) /\ ParentsFirst(prog)
    BY <2>1 DEF Init
  <2>3. TablesInv /\ ReadInv
    BY <2>1, <2>2, TablesInitially, ReadInitially
  <2>4. LinkInv
    BY <2>1 DEF Init, LinkInv, Linking
  <2> QED
    BY <2>2, <2>3, <2>4 DEF MachineInv
<1>2. MachineInv /\ [Next]_vars => MachineInv'
  <2>1. SUFFICES ASSUME MachineInv, [Next]_vars PROVE MachineInv'
    OBVIOUS
  <2>2. TablesInv /\ ReadInv /\ ParentsFirst(prog)
    BY <2>1 DEF MachineInv
  <2>3. TablesInv'
    BY <2>1, <2>2, TablesKept
  <2>4. ReadInv'
    BY <2>1, <2>2, ReadNext
  <2>5. LinkInv'
    BY <2>1, LinkNext
  <2>6. ParentsFirst(prog)'
    <3>1. prog' = prog
      BY <2>1 DEF Next, vars, Declare, MethodTranslate, bcout_to_file, kexe_load,
                  vm_init_builtin_classes, vm_init_parent_pointers, vm_calculate_udo_sizes,
                  vm_init_const_table_elems, Run
    <3> QED
      BY <2>2, <3>1
  <2> QED
    BY <2>3, <2>4, <2>5, <2>6 DEF MachineInv
<1>3. MachineInv => SlotsApart
  <2>1. CASE InMachine
    BY <2>1, Slots
  <2>2. CASE ~InMachine
    BY <2>2 DEF SlotsApart
  <2> QED
    BY <2>1, <2>2
<1> QED
  BY <1>1, <1>2, <1>3, PTL DEF Spec
=============================================================================
