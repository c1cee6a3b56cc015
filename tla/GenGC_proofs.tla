---------------------------- MODULE GenGC_proofs ----------------------------
(***************************************************************************)
(* Proofs about GenGC, for every number of root slots, objects and fields, *)
(* in an execution that does none of the things listed at Unsafe: then the *)
(* remember set is complete, and a program cannot tell the generational    *)
(* collector from a heap that keeps everything where it is.                *)
(***************************************************************************)
EXTENDS GenGC, TLAPS

(* The inductive invariant.                                                *)
\* The slots gc_rootset has come past are served.
Visited ==
  phase = "gc" =>
    /\ \A x \in Root : x < next /\ root[x] \in Id => root[x] \in copied \cup Old
    /\ \A k \in DOMAIN rs :
         NRoot + k < next /\ At(rs[k]) \in Id => At(rs[k]) \in copied \cup Old

\* What is promoted takes all its neighbours along.
Together == \A i \in promoted, f \in Fld : flds[i][f] \notin Young

\* A slot of an object that was old before names what is young, or was at the
\* beginning of the scavenge, only if it is remembered.
Remembering ==
  \A i \in Old \ promoted, f \in Fld :
    flds[i][f] \in Young \cup promoted => <<i, f>> \in Remembered

\* No slot in use is stale or names an object that is gone.
Whole ==
  /\ \A x \in Root : root[x] \in Live \cup {NIL, INT}
  /\ \A i \in Live, f \in Fld : flds[i][f] \in Live \cup {NIL, INT}

Fresh == \A i \in Id \ Live : flds[i] = Nowhere
Pointers == \A s \in Remembered : At(s) # INT
Idle == phase = "run" => copied = {} /\ promoted = {}
Older == \A i \in copied : gen[i] = YOUNG2

GInv ==
  /\ TypeOK /\ phase # "error"
  /\ Visited /\ Together /\ Remembering /\ Whole /\ Fresh /\ Pointers /\ Idle
  /\ Older

---------------------------------------------------------------------------
(* What Reach returns: objects of D only, among them those of S, and with  *)
(* an object its fields in D.                                              *)
LEMMA ReachClosed ==
  ASSUME NEW S, NEW D \in SUBSET Id
  PROVE  /\ Reach(S, D) \subseteq D
         /\ S \cap D \subseteq Reach(S, D)
         /\ \A j \in Reach(S, D), f \in Fld :
              flds[j][f] \in D => flds[j][f] \in Reach(S, D)
  BY DEF Reach

LEMMA InitGInv == Init => GInv
<1> SUFFICES ASSUME Init PROVE GInv
  OBVIOUS
<1>1. Young = {} /\ Old = {} /\ Live = {} /\ Remembered = {}
  BY DEF Init, Young, Old, Live, Remembered, YOUNG1, YOUNG2, OLD, NONE
<1>2. TypeOK
  BY <1>1, GenAssumption DEF Init, TypeOK, Nowhere, Val, Root, Remembered
<1> QED
  BY <1>1, <1>2 DEF GInv, Init, Visited, Together, Remembering, Whole, Fresh,
     Pointers, Idle, Older, Nowhere

---------------------------------------------------------------------------
(* The program's actions.                                                  *)
LEMMA NewStep ==
  ASSUME GInv, NEW x \in Root, NEW i \in Id, New(x, i)
  PROVE  GInv'
<1> USE DEF GInv, New
<1>1. /\ Young' = Young \cup {i} /\ i \notin Live
      /\ Old' = Old /\ Live' = Live \cup {i}
      /\ Remembered' = Remembered
      /\ flds[i] = Nowhere
  BY DEF Young, Old, Live, Remembered, TypeOK, Fresh, YOUNG1, YOUNG2, OLD, NONE
<1>2. TypeOK'
  BY <1>1 DEF TypeOK, Val, Remembered, YOUNG1, YOUNG2, OLD, NONE
<1>3. Visited' /\ Idle' /\ Older' /\ Pointers'
  BY <1>1 DEF Visited, Idle, Older, Pointers, At
<1>4. Together' /\ Remembering'
  <2>1. promoted = {} /\ promoted' = {} /\ flds' = flds
    BY DEF Idle
  <2>2. \A j \in Old, f \in Fld : flds[j][f] # i
    BY <1>1, GenAssumption DEF Whole, Live
  <2> QED
    BY <1>1, <2>1, <2>2 DEF Together, Remembering
<1>5. Whole'
  BY <1>1, GenAssumption DEF Whole, TypeOK, Nowhere
<1>6. Fresh'
  BY <1>1 DEF Fresh
<1> QED
  BY <1>2, <1>3, <1>4, <1>5, <1>6

\* Assign and Load put into a root slot what some slot or NIL or INT holds.
LEMMA RootStep ==
  ASSUME GInv, NEW x \in Root, NEW v \in Live \cup {NIL, INT},
         phase = "run",
         root' = [root EXCEPT ![x] = v],
         UNCHANGED <<gen, flds, rs, phase, next, copied, promoted>>
  PROVE  GInv'
<1> USE DEF GInv
<1>1. /\ Young' = Young /\ Old' = Old /\ Live' = Live
      /\ Remembered' = Remembered
  BY DEF Young, Old, Live, Remembered
<1>2. TypeOK'
  BY <1>1 DEF TypeOK, Val, Remembered, Live, Young, Old
<1>3. Visited' /\ Idle' /\ Pointers' /\ Together' /\ Remembering' /\ Fresh'
      /\ Older'
  BY <1>1 DEF Visited, Idle, Older, Pointers, At, Together, Remembering, Fresh
<1>4. Whole'
  BY <1>1 DEF Whole, TypeOK
<1> QED
  BY <1>2, <1>3, <1>4

LEMMA SlotsWhole == GInv => Slots \subseteq Live \cup {NIL, INT}
  BY DEF GInv, Whole, Slots

LEMMA LiveIds ==
  ASSUME GInv PROVE Live \subseteq Id /\ Young \subseteq Id /\ Old \subseteq Id
  BY DEF Live, Young, Old

LEMMA RootLive ==
  ASSUME GInv, NEW x \in Root, root[x] \in Id PROVE root[x] \in Live
  BY GenAssumption DEF GInv, Whole

\* A store, with or without the barrier.
LEMMA StoreStep ==
  ASSUME GInv, Unsafe = {}, NEW x \in Root, NEW f \in Fld, NEW v \in Slots,
         phase = "run", root[x] \in Id,
         Write(root[x], f, v),
         \/ rs' = Barrier(root[x], f, v)
         \/ UNCHANGED rs /\ ~(root[x] \in Old /\ v \in Young)
  PROVE  GInv'
<1> DEFINE i == root[x]
<1> USE DEF GInv, Write
<1>1. /\ Young' = Young /\ Old' = Old /\ Live' = Live
      /\ i \in Live /\ v \in Live \cup {NIL, INT} /\ i \in Id
  BY SlotsWhole, RootLive DEF Young, Old, Live
<1>2. /\ rs' \in Seq(Slot)
      /\ Remembered' = Remembered \cup (IF i \in Old /\ v \in Young THEN {<<i, f>>} ELSE {})
  <2>1. CASE ~(i \in Old /\ v \in Young)
    <3>1. rs' = rs
      BY <2>1, <1>1 DEF Barrier, Old
    <3> QED
      BY <2>1, <3>1 DEF Remembered, TypeOK
  <2>2. CASE i \in Old /\ v \in Young
    <3>1. rs' = <<<<i, f>>>> \o rs
      BY <2>2, <1>1 DEF Barrier, Old
    <3>2. rs \in Seq(Slot) /\ <<i, f>> \in Slot
      BY <1>1 DEF TypeOK, Slot
    <3>3. <<<<i, f>>>> \in Seq(Slot)
      BY <3>2
    <3>4. /\ rs' \in Seq(Slot) /\ Len(rs') = Len(rs) + 1
          /\ rs'[1] = <<i, f>>
          /\ \A k \in 1..Len(rs) : rs'[k + 1] = rs[k]
      BY <3>1, <3>2, <3>3
    <3>5. DOMAIN rs' = 1..(Len(rs) + 1) /\ DOMAIN rs = 1..Len(rs)
      BY <3>2, <3>4
    <3>6. \A k \in DOMAIN rs' : k = 1 \/ (k - 1 \in DOMAIN rs /\ rs'[k] = rs[k - 1])
      BY <3>2, <3>4, <3>5
    <3>7. \A k \in DOMAIN rs : k + 1 \in DOMAIN rs'
      BY <3>2, <3>5
    <3>8. Remembered' \subseteq Remembered \cup {<<i, f>>}
      <4>1. ASSUME NEW k \in DOMAIN rs' PROVE rs'[k] \in Remembered \cup {<<i, f>>}
        <5>1. CASE k = 1
          BY <3>4, <5>1
        <5>2. CASE k # 1
          BY <3>6, <5>2 DEF Remembered
        <5> QED
          BY <5>1, <5>2
      <4> QED
        BY <4>1 DEF Remembered
    <3>9. Remembered \subseteq Remembered' /\ 1 \in DOMAIN rs'
      BY <3>2, <3>4, <3>5, <3>7 DEF Remembered
    <3> QED
      BY <2>2, <3>4, <3>8, <3>9, SMTT(30) DEF Remembered
  <2> QED
    BY <2>1, <2>2
<1>3. /\ flds' \in [Id -> [Fld -> Val]] /\ flds'[i][f] = v
      /\ \A j \in Id, g \in Fld : j # i \/ g # f => flds'[j][g] = flds[j][g]
  BY <1>1, GenAssumption DEF TypeOK, Val, Live, Young, Old
<1>4. TypeOK'
  <2>1. \A s \in Remembered' : gen[s[1]] = OLD
    BY <1>1, <1>2 DEF TypeOK, Old
  <2>2. next' \in 1..(NRoot + Len(rs') + 1)
    <3>1. Len(rs') \in Nat /\ Len(rs) \in Nat /\ Len(rs') >= Len(rs)
      BY <1>2 DEF TypeOK, Barrier, Slot
    <3> QED
      BY <3>1, GenAssumption DEF TypeOK
  <2> QED
    BY <1>1, <1>2, <1>3, <2>1, <2>2 DEF TypeOK
<1>5. Visited' /\ Idle' /\ Older' /\ Together'
  BY <1>1 DEF Visited, Idle, Older, Together
<1>6. Remembering'
  BY <1>1, <1>2, <1>3 DEF Remembering, Idle, Old
<1>7. Whole'
  BY <1>1, <1>3, GenAssumption DEF Whole, Live, Young, Old
<1>8. Fresh'
  BY <1>1, <1>3 DEF Fresh, TypeOK, Live, Young, Old
<1>9. Pointers'
  <2>1. \A s \in Remembered' : s \in Slot
    BY <1>2 DEF Remembered
  <2>2. v = INT => <<i, f>> \notin Remembered'
    BY <1>2, GenAssumption DEF Young
  <2> QED
    BY <1>2, <1>3, <2>1, <2>2, GenAssumption DEF Pointers, At, Slot
<1> QED
  BY <1>4, <1>5, <1>6, <1>7, <1>8, <1>9

---------------------------------------------------------------------------
(* The scavenge.                                                           *)
LEMMA StartStep ==
  ASSUME GInv, StartScavenge PROVE GInv'
<1> USE DEF GInv, StartScavenge
<1>1. rs' \in Seq(Slot) /\ Remembered' = Remembered
  <2>0. PICK n \in 0..Len(rs) : \E p \in [1..n -> DOMAIN rs] :
          /\ {rs[p[k]] : k \in 1..n} = Remembered
          /\ rs' = [k \in 1..n |-> rs[p[k]]]
    BY DEF RemoveDups
  <2>1. PICK p \in [1..n -> DOMAIN rs] :
          /\ {rs[p[k]] : k \in 1..n} = Remembered
          /\ rs' = [k \in 1..n |-> rs[p[k]]]
    BY <2>0
  <2>2. rs \in Seq(Slot) /\ \A k \in DOMAIN rs : rs[k] \in Slot
    BY DEF TypeOK
  <2>3. n \in Nat /\ \A k \in 1..n : rs'[k] \in Slot
    BY <2>1, <2>2
  <2>4. rs' \in [1..n -> Slot]
    BY <2>1, <2>3
  <2>5. rs' \in Seq(Slot) /\ DOMAIN rs' = 1..n
    BY <2>3, <2>4
  <2>6. Remembered' = {rs[p[k]] : k \in 1..n}
    BY <2>1, <2>5 DEF Remembered
  <2> QED
    BY <2>1, <2>5, <2>6
<1>2. Young' = Young /\ Old' = Old /\ Live' = Live
  BY DEF Young, Old, Live
<1>3. TypeOK'
  <2>1. 1 \in 1..(NRoot + Len(rs') + 1)
    BY <1>1, GenAssumption
  <2> QED
    BY <1>1, <1>2, <2>1 DEF TypeOK
<1>4. Visited'
  BY GenAssumption, <1>1 DEF Visited, Root
<1>5. Together' /\ Remembering' /\ Whole' /\ Fresh' /\ Pointers' /\ Idle' /\ Older'
  BY <1>1, <1>2 DEF Together, Remembering, Whole, Fresh, Pointers, At, Idle, Older
<1> QED
  BY <1>3, <1>4, <1>5

\* What gc_cheney_copy_root_obj does to the object a slot names.
LEMMA CopyFacts ==
  ASSUME GInv, Unsafe = {}, flds' = flds,
         NEW v \in Live \cup {NIL, INT}, CopyRootObj(v)
  PROVE  /\ gen' \in [Id -> {YOUNG1, YOUNG2, OLD, NONE}]
         /\ Live' = Live /\ Old \subseteq Old' /\ Young' \subseteq Young
         /\ copied \subseteq copied' /\ copied' \subseteq Young'
         /\ promoted' \subseteq Old'
         /\ Old' \ promoted' = Old \ promoted
         /\ Young' \cup promoted' = Young \cup promoted
         /\ v \in Id => v \in copied' \cup Old'
         /\ Together' /\ Older'
<1> USE DEF GInv
<1>1. /\ gen \in [Id -> {YOUNG1, YOUNG2, OLD, NONE}]
      /\ copied \subseteq Young /\ promoted \subseteq Old
      /\ Young \cap Old = {} /\ Live = Young \cup Old /\ Live \subseteq Id
      /\ v \in Id => v \in Live
  BY GenAssumption DEF TypeOK, Young, Old, Live, YOUNG1, YOUNG2, OLD
<1>2. CASE v \notin Uncopied /\ Kept(v)
  <2>1. /\ gen' = gen /\ copied' = copied /\ promoted' = promoted
        /\ Young' = Young /\ Old' = Old /\ Live' = Live
    BY <1>2 DEF Kept, Young, Old, Live
  <2>2. v \in Id => v \in copied \cup Old
    BY <1>1, <1>2 DEF Uncopied
  <2> QED
    BY <1>1, <2>1, <2>2 DEF Together, Older
<1>3. CASE Aged(v)
  <2>1. /\ gen' = [gen EXCEPT ![v] = YOUNG2] /\ v \in Young /\ v \in Id
        /\ copied' = copied \cup {v} /\ promoted' = promoted
    BY <1>1, <1>3 DEF Aged, Uncopied
  <2>2. Young' = Young /\ Old' = Old /\ Live' = Live
    BY <1>1, <2>1 DEF Young, Old, Live, YOUNG1, YOUNG2, OLD
  <2>3. Older'
    BY <1>1, <2>1 DEF Older
  <2> QED
    BY <1>1, <2>1, <2>2, <2>3 DEF Together, YOUNG1, YOUNG2, OLD
<1>4. CASE Promoted(v)
  <2> DEFINE F == Family(v)
  <2>1. /\ ~BesideCopied(v) /\ v \in Uncopied
        /\ gen' = [i \in Id |-> IF i \in F THEN OLD ELSE gen[i]]
        /\ copied' = copied /\ promoted' = promoted \cup F
    BY <1>4 DEF Promoted
  <2>2. Uncopied \subseteq Id
    BY <1>1 DEF Uncopied
  <2>3. /\ F \subseteq Uncopied /\ v \in F
        /\ \A j \in F, f \in Fld : flds[j][f] \in Uncopied => flds[j][f] \in F
    BY <2>1, <2>2, ReachClosed DEF Family
  <2>4. \A j \in F, f \in Fld : flds[j][f] \notin copied
    BY <2>1 DEF BesideCopied
  <2> HIDE DEF F
  <2>5. F \subseteq Young /\ F \cap copied = {} /\ F \subseteq Id
    BY <1>1, <2>3 DEF Uncopied
  <2>6. Young' = Young \ F /\ Old' = Old \cup F /\ Live' = Live
    <3>1. Young' = Young \ F /\ Old' = Old \cup F
      BY <1>1, <2>1, <2>5 DEF Young, Old, YOUNG1, YOUNG2, OLD
    <3> QED
      BY <1>1, <2>5, <3>1 DEF Live
  <2>7. \A j \in F, f \in Fld : flds[j][f] \notin Young \ F
    BY <2>3, <2>4 DEF Uncopied
  <2>8. Together'
    BY <2>1, <2>6, <2>7 DEF Together
  <2>9. Older'
    BY <1>1, <2>1, <2>5 DEF Older
  <2>10. gen' \in [Id -> {YOUNG1, YOUNG2, OLD, NONE}]
    BY <1>1, <2>1
  <2> QED
    BY <1>1, <2>1, <2>3, <2>5, <2>6, <2>8, <2>9, <2>10
<1> QED
  BY <1>2, <1>3, <1>4 DEF CopyRootObj

LEMMA VisitStep ==
  ASSUME GInv, Unsafe = {}, phase = "gc",
         NEW v, CopyRootObj(v),
         \/ next \in Root /\ v = root[next]
         \/ next \notin Root /\ next <= NRoot + Len(rs) /\ v = At(Entry),
         next' = next + 1,
         UNCHANGED <<flds, root, rs, phase>>
  PROVE  GInv' /\ Live' = Live
<1> USE DEF GInv
<1>1. /\ next \in Nat /\ next <= NRoot + Len(rs) /\ Len(rs) \in Nat
      /\ DOMAIN rs = 1..Len(rs) /\ NRoot \in Nat
      /\ next \notin Root => next - NRoot \in DOMAIN rs
  BY GenAssumption DEF TypeOK, Root
<1>2. v \in Live \cup {NIL, INT}
  <2>1. CASE next \in Root
    BY <2>1 DEF Whole
  <2>2. CASE next \notin Root
    <3>1. Entry \in Remembered /\ Entry \in Slot
      BY <1>1, <2>2 DEF Entry, Remembered, TypeOK
    <3>2. Entry[1] \in Live /\ Entry[2] \in Fld
      BY <3>1 DEF TypeOK, Live, Old, Slot
    <3> QED
      BY <2>2, <3>2 DEF Whole, At
  <2> QED
    BY <2>1, <2>2
<1>3. /\ gen' \in [Id -> {YOUNG1, YOUNG2, OLD, NONE}]
      /\ Live' = Live /\ Old \subseteq Old' /\ Young' \subseteq Young
      /\ copied \subseteq copied' /\ copied' \subseteq Young'
      /\ promoted' \subseteq Old'
      /\ Old' \ promoted' = Old \ promoted
      /\ Young' \cup promoted' = Young \cup promoted
      /\ v \in Id => v \in copied' \cup Old'
      /\ Together' /\ Older'
  BY <1>2, CopyFacts
<1>4. Remembered' = Remembered
  BY DEF Remembered
<1>5. TypeOK'
  <2>1. \A s \in Remembered : gen'[s[1]] = OLD
    BY <1>3 DEF TypeOK, Old, Remembered, Slot
  <2> QED
    BY <1>1, <1>3, <1>4, <2>1 DEF TypeOK
<1>6. Visited'
  <2>1. \A x \in Root : x \in Nat /\ x <= NRoot
    BY <1>1 DEF Root
  <2>2. \A x \in Root : x < next' /\ root[x] \in Id => root[x] \in copied' \cup Old'
    BY <1>1, <1>3, <2>1 DEF Visited, Root
  <2>3. ASSUME NEW k \in DOMAIN rs, NRoot + k < next', At(rs[k]) \in Id
        PROVE  At(rs[k]) \in copied' \cup Old'
    <3>1. k \in Nat /\ (NRoot + k < next \/ (NRoot + k = next /\ k = next - NRoot /\ next \notin Root))
      BY <1>1, <2>3 DEF Root
    <3> QED
      BY <1>3, <2>3, <3>1 DEF Visited, Entry
  <2> QED
    BY <2>2, <2>3 DEF Visited, At
<1>7. Remembering' /\ Whole' /\ Fresh' /\ Pointers' /\ Idle'
  BY <1>3, <1>4 DEF Remembering, Whole, Fresh, Pointers, At, Idle
<1> QED
  BY <1>3, <1>5, <1>6, <1>7

\* At the end nothing the program can reach is dropped or left behind.
LEMMA EndFacts ==
  ASSUME GInv, EndScavenge
  PROVE  /\ Young' = Survivors /\ Old' = Old /\ Live' = Survivors \cup Old
         /\ Live' \subseteq Live /\ copied \subseteq Survivors
         /\ \A x \in Root : root[x] \in Live' \cup {NIL, INT}
         /\ \A i \in Live', f \in Fld :
              flds[i][f] \in Live' \cup {NIL, INT} /\ flds'[i][f] = flds[i][f]
<1> USE DEF GInv, EndScavenge
<1>1. /\ Young \subseteq Id /\ Live = Young \cup Old /\ Young \cap Old = {}
      /\ gen \in [Id -> {YOUNG1, YOUNG2, OLD, NONE}]
      /\ copied \subseteq Young /\ promoted \subseteq Old /\ Live \subseteq Id
      /\ NIL \notin Id /\ INT \notin Id
  BY GenAssumption DEF Young, Old, Live, TypeOK, YOUNG1, YOUNG2, OLD
<1>2. /\ Survivors \subseteq Young /\ copied \subseteq Survivors
      /\ \A j \in Survivors, f \in Fld : flds[j][f] \in Young => flds[j][f] \in Survivors
  BY <1>1, ReachClosed DEF Survivors
<1>3. Young' = Survivors /\ Old' = Old
  BY <1>1, <1>2 DEF Young, Old, YOUNG1, YOUNG2, OLD, NONE
<1>4. Live' = Survivors \cup Old /\ Live' \subseteq Live
  BY <1>1, <1>2, <1>3 DEF Live
<1>5. \A x \in Root : root[x] \in Live' \cup {NIL, INT}
  <2>1. \A x \in Root : x < next
    BY GenAssumption DEF TypeOK, Root
  <2> QED
    BY <1>1, <1>2, <1>4, <2>1 DEF Visited, Whole
<1>6. ASSUME NEW i \in Live', NEW f \in Fld
      PROVE  /\ flds[i][f] \in Live' \cup {NIL, INT}
             /\ flds[i][f] \in Young \cup promoted => Updated(i, f)
  <2>1. flds[i][f] \in Live \cup {NIL, INT}
    BY <1>4 DEF Whole
  <2>2. CASE i \in Survivors
    BY <1>1, <1>2, <1>4, <2>1, <2>2 DEF Updated, Moved
  <2>3. CASE i \in promoted
    BY <1>1, <1>4, <2>1, <2>3 DEF Updated, Moved, Together
  <2>4. CASE i \in Old \ promoted
    <3>1. CASE flds[i][f] \in Young \cup promoted
      <4>1. <<i, f>> \in Remembered
        BY <2>4, <3>1 DEF Remembering
      <4>2. PICK k \in DOMAIN rs : rs[k] = <<i, f>>
        BY <4>1 DEF Remembered
      <4>3. NRoot + k < next
        BY <4>2, GenAssumption DEF TypeOK
      <4>4. flds[i][f] \in Id
        BY <1>1, <3>1
      <4>5. flds[i][f] \in copied \cup Old
        BY <4>2, <4>3, <4>4 DEF Visited, At
      <4> QED
        BY <1>2, <1>4, <4>1, <4>5 DEF Updated
    <3>2. CASE flds[i][f] \notin Young \cup promoted
      BY <1>1, <1>4, <2>1, <3>2
    <3> QED
      BY <3>1, <3>2
  <2> QED
    BY <1>4, <2>2, <2>3, <2>4
<1>7. ASSUME NEW i \in Live', NEW f \in Fld PROVE flds'[i][f] = flds[i][f]
  <2>1. i \in Id /\ i \notin Young \ Survivors
    BY <1>1, <1>4
  <2> QED
    BY <1>6, <2>1
<1> HIDE DEF GInv, EndScavenge
<1>8. \A i \in Live', f \in Fld :
        flds[i][f] \in Live' \cup {NIL, INT} /\ flds'[i][f] = flds[i][f]
  BY <1>6, <1>7
<1> QED
  BY <1>2, <1>3, <1>4, <1>5, <1>8

LEMMA EndStep ==
  ASSUME GInv, EndScavenge PROVE GInv'
<1> USE DEF GInv
<1>1. /\ Young' = Survivors /\ Old' = Old /\ Live' = Survivors \cup Old
      /\ Live' \subseteq Live /\ copied \subseteq Survivors
      /\ \A x \in Root : root[x] \in Live' \cup {NIL, INT}
      /\ \A i \in Live', f \in Fld :
           flds[i][f] \in Live' \cup {NIL, INT} /\ flds'[i][f] = flds[i][f]
  BY EndFacts
<1>2. /\ phase' = "run" /\ next' = 1 /\ copied' = {} /\ promoted' = {}
      /\ root' = root /\ rs' = rs /\ Remembered' = Remembered
      /\ gen' = [i \in Id |-> IF i \in Young \ Survivors THEN NONE ELSE gen[i]]
      /\ flds' = [i \in Id |->
           IF i \in Young \ Survivors THEN Nowhere
           ELSE [f \in Fld |-> IF flds[i][f] \in Young \cup promoted /\ ~Updated(i, f)
                               THEN STALE ELSE flds[i][f]]]
  BY DEF EndScavenge, Remembered
<1>3. \A s \in Remembered : s[1] \in Old /\ s[2] \in Fld /\ s[1] \in Id
  BY DEF TypeOK, Old, Remembered, Slot
<1>4. TypeOK'
  <2>1. gen' \in [Id -> {YOUNG1, YOUNG2, OLD, NONE}]
    BY <1>2 DEF TypeOK
  <2>2. flds' \in [Id -> [Fld -> Val]]
    BY <1>2 DEF TypeOK, Val, Nowhere
  <2>3. \A s \in Remembered' : gen'[s[1]] = OLD
    BY <1>1, <1>2, <1>3 DEF Old
  <2>4. 1 \in 1..(NRoot + Len(rs) + 1)
    BY GenAssumption DEF TypeOK
  <2> QED
    BY <1>2, <2>1, <2>2, <2>3, <2>4 DEF TypeOK
<1>5. Visited' /\ Together' /\ Idle' /\ Older'
  BY <1>2 DEF Visited, Together, Idle, Older
<1>6. Whole'
  BY <1>1, <1>2 DEF Whole
<1>7. Remembering'
  <2>1. ASSUME NEW i \in Old, NEW f \in Fld, flds[i][f] \in Survivors
        PROVE  <<i, f>> \in Remembered
    <3>1. flds[i][f] \in Young
      BY <2>1, ReachClosed DEF Survivors, Young
    <3> QED
      BY <2>1, <3>1 DEF Together, Remembering
  <2>2. \A i \in Old, f \in Fld : flds'[i][f] = flds[i][f]
    BY <1>1
  <2> QED
    <3>1. ASSUME NEW i \in Old', NEW f \in Fld, flds'[i][f] \in Young' \cup promoted'
          PROVE  <<i, f>> \in Remembered'
      <4>1. i \in Old /\ flds[i][f] \in Young' \cup promoted'
        BY <1>1, <2>2, <3>1
      <4>2. Young' \cup promoted' = Survivors
        BY <1>1, <1>2
      <4>3. flds[i][f] \in Survivors
        BY <4>1, <4>2
      <4> QED
        BY <1>2, <2>1, <4>1, <4>3
    <3> QED
      BY <3>1 DEF Remembering
<1>8. Fresh'
  <2>1. ASSUME NEW i \in Id, i \notin Live' PROVE flds'[i] = Nowhere
    <3>1. CASE i \in Young \ Survivors
      BY <1>2, <3>1
    <3>2. CASE i \notin Young \ Survivors
      <4>1. i \notin Live /\ flds[i] = Nowhere
        BY <1>1, <2>1, <3>2 DEF Live, Fresh
      <4>2. NIL \notin Young \cup promoted
        BY GenAssumption DEF Young, TypeOK, Old
      <4> QED
        BY <1>2, <3>2, <4>1, <4>2 DEF Nowhere
    <3> QED
      BY <3>1, <3>2
  <2> QED
    BY <2>1 DEF Fresh
<1>9. Pointers'
  BY <1>1, <1>2, <1>3 DEF Pointers, At
<1> QED
  BY <1>2, <1>4, <1>5, <1>6, <1>7, <1>8, <1>9

---------------------------------------------------------------------------
(* Every step.                                                             *)
LEMMA ServeStep ==
  ASSUME GInv, Unsafe = {}, VisitRoot \/ VisitRemembered
  PROVE  GInv' /\ Live' = Live /\ UNCHANGED <<flds, root>>
<1>1. CASE VisitRoot
  BY <1>1, VisitStep DEF VisitRoot
<1>2. CASE VisitRemembered
  <2>1. At(Entry) # INT
    <3>1. next - NRoot \in DOMAIN rs
      BY <1>2, GenAssumption DEF VisitRemembered, GInv, TypeOK, Root
    <3> QED
      BY <3>1 DEF GInv, Pointers, Remembered, Entry
  <2> QED
    BY <1>2, <2>1, VisitStep DEF VisitRemembered
<1> QED
  BY <1>1, <1>2

LEMMA NextStep ==
  ASSUME GInv, Unsafe = {}, [Next]_vars PROVE GInv'
<1>1. ASSUME NEW x \in Root, NEW i \in Id, New(x, i) PROVE GInv'
  BY <1>1, NewStep
<1>2. ASSUME NEW x \in Root, NEW v \in Slots, Assign(x, v) PROVE GInv'
  BY <1>2, SlotsWhole, RootStep DEF Assign
<1>3. ASSUME NEW x \in Root, NEW y \in Root, NEW f \in Fld, Load(x, y, f) PROVE GInv'
  <2>1. flds[root[y]][f] \in Live \cup {NIL, INT}
    BY <1>3, RootLive DEF Load, GInv, Whole
  <2> QED
    BY <1>3, <2>1, RootStep DEF Load
<1>4. ASSUME NEW x \in Root, NEW f \in Fld, NEW v \in Slots,
             ST(x, f, v) \/ NativeStore(x, f, v)
      PROVE  GInv'
  BY <1>4, StoreStep DEF ST, NativeStore
<1>5. CASE UNCHANGED vars
  BY <1>5 DEF vars, GInv, TypeOK, Visited, Together, Remembering, Whole, Fresh,
     Pointers, Idle, Older, Young, Old, Live, Remembered, At
<1> QED
  BY <1>1, <1>2, <1>3, <1>4, <1>5, StartStep, ServeStep, EndStep DEF Next

LEMMA Invariance ==
  ASSUME Unsafe = {} PROVE Spec => []GInv
<1>1. GInv /\ [Next]_vars => GInv'
  BY NextStep
<1> QED
  BY InitGInv, <1>1, PTL DEF Spec

(* Every variable keeps its type, and the scavenge keeps to its bounds.    *)
THEOREM Typed ==
  ASSUME Unsafe = {} PROVE Spec => []TypeOK
<1>1. GInv => TypeOK
  BY DEF GInv
<1> QED
  BY Invariance, <1>1, PTL

(* memory.c:1040: the remember set has every slot of an old object that    *)
(* points to a young one, whatever the program stores and whichever objects*)
(* are promoted, as long as none is promoted beside a copied neighbour and *)
(* no native function stores without the barrier.                          *)
THEOREM RememberSetComplete ==
  ASSUME Unsafe = {} PROVE Spec => []OldToNew
<1>1. GInv => OldToNew
  BY DEF GInv, OldToNew, Idle, Remembering
<1> QED
  BY Invariance, <1>1, PTL

(* README: an object a root names grows older in every scavenge.           *)
THEOREM Ageing ==
  ASSUME Unsafe = {} PROVE Spec => RootsAge
<1>1. ASSUME GInv, [Next]_vars, phase = "gc", phase' = "run",
             NEW x \in Root, root[x] \in Id
      PROVE  gen'[root[x]] \in {YOUNG2, OLD}
  <2>1. EndScavenge
    BY <1>1 DEF Next, vars, New, Assign, Load, ST, NativeStore, StartScavenge,
       VisitRoot, VisitRemembered, EndScavenge
  <2>2. root[x] \in copied \cup Old
    BY <1>1, <2>1, GenAssumption DEF GInv, Visited, EndScavenge, TypeOK, Root
  <2>3. gen[root[x]] \in {YOUNG2, OLD}
    BY <1>1, <2>2 DEF GInv, Older, Old
  <2>4. root[x] \notin Young \ Survivors
    BY <1>1, <2>1, <2>2, EndFacts DEF Young, Old, YOUNG1, YOUNG2, OLD
  <2> QED
    BY <1>1, <2>1, <2>3, <2>4 DEF EndScavenge
<1>2. GInv /\ [Next]_vars =>
        [phase = "gc" /\ phase' = "run"
           => \A x \in Root : root[x] \in Id => gen'[root[x]] \in {YOUNG2, OLD}]_vars
  BY <1>1
<1> QED
  BY Invariance, <1>2, PTL DEF Spec, RootsAge

---------------------------------------------------------------------------
(* The refinement of Heap.                                                 *)
Object(i) == [id |-> i, t |-> "object", flds |-> [f \in Fld |-> Ptr(flds[i][f])]]
Graph == {Object(i) : i \in Live}
Hroot == [x \in Root |-> Ptr(root[x])]

LEMMA GraphIds == H!Ids(Graph) = Live
<1>1. \A i : Object(i).id = i
  BY DEF Object
<1>2. H!Ids(Graph) = {o.id : o \in Graph}
  BY DEF H!Ids
<1> QED
  BY <1>1, <1>2 DEF Graph

LEMMA SameHeap ==
  ASSUME Live' = Live, UNCHANGED <<flds, root>>
  PROVE  Graph' = Graph /\ Hroot' = Hroot
  BY DEF Graph, Hroot, Object, Ptr

LEMMA NewHeap ==
  ASSUME GInv, NEW x \in Root, NEW i \in Id, New(x, i)
  PROVE  H!HeapNext
<1>1. /\ Live' = Live \cup {i} /\ i \notin Live /\ flds[i] = Nowhere /\ flds' = flds
      /\ root' = [root EXCEPT ![x] = i] /\ root \in [Root -> Val]
  BY DEF GInv, New, Young, Old, Live, TypeOK, Fresh, YOUNG1, YOUNG2, OLD, NONE
<1>2. Graph' = Graph \cup {[id |-> i, t |-> "object", flds |-> [f \in Fld |-> NIL]]}
  <2>1. Object(i) = [id |-> i, t |-> "object", flds |-> [f \in Fld |-> NIL]]
    BY <1>1 DEF Object, Nowhere, Ptr
  <2>2. \A j : Object(j)' = Object(j)
    BY <1>1 DEF Object, Ptr
  <2>3. Graph' = {Object(j) : j \in Live \cup {i}}
    BY <1>1, <2>2 DEF Graph
  <2> QED
    BY <2>1, <2>3 DEF Graph
<1>3. Hroot' = [Hroot EXCEPT ![x] = i]
  BY <1>1, GenAssumption DEF Hroot, Ptr
<1>4. i \in Id \ H!Ids(Graph)
  BY <1>1, GraphIds
<1>5. H!New(x, "object")
  BY <1>2, <1>3, <1>4 DEF H!New, Graph, Hroot, Object
<1> QED
  BY <1>5 DEF H!HeapNext

LEMMA RootHeap ==
  ASSUME GInv, NEW x \in Root, NEW v \in Val, root' = [root EXCEPT ![x] = v],
         UNCHANGED <<gen, flds>>
  PROVE  Graph' = Graph /\ Hroot' = [Hroot EXCEPT ![x] = Ptr(v)]
<1>1. Live' = Live
  BY DEF Live, Young, Old
<1>2. Graph' = Graph
  BY <1>1 DEF Graph, Object, Ptr
<1>3. root \in [Root -> Val]
  BY DEF GInv, TypeOK
<1> QED
  BY <1>2, <1>3 DEF Hroot, Ptr

LEMMA AssignHeap ==
  ASSUME GInv, NEW x \in Root, NEW v \in Slots, Assign(x, v)
  PROVE  H!HeapNext
<1>1. v \in Val
  BY SlotsWhole DEF Val, Live, Young, Old
<1>2. Graph' = Graph /\ Hroot' = [Hroot EXCEPT ![x] = Ptr(v)]
  BY <1>1, RootHeap DEF Assign
<1>3. Ptr(v) \in H!Slots
  <2>1. H!Slots = {Hroot[y] : y \in Root} \cup {NIL}
    BY DEF H!Slots, Hroot
  <2>2. \A y \in Root : Hroot[y] = Ptr(root[y])
    BY DEF Hroot
  <2> QED
    BY <2>1, <2>2 DEF Slots, Ptr
<1>4. H!Assign(x, Ptr(v))
  BY <1>2 DEF H!Assign, Graph, Hroot, Object
<1> QED
  BY <1>3, <1>4 DEF H!HeapNext

\* The object a root slot names.
LEMMA NamedHeap ==
  ASSUME GInv, NEW x \in Root, root[x] \in Id
  PROVE  Object(root[x]) \in H!Named(x)
<1>1. root[x] \in Live /\ Hroot[x] = root[x]
  BY RootLive, GenAssumption DEF Hroot, Ptr
<1>2. Object(root[x]) \in Graph /\ Object(root[x]).id = root[x]
  BY <1>1 DEF Graph, Object
<1>3. H!Named(x) = {o \in Graph : o.id = Hroot[x]}
  BY DEF H!Named, Graph, Hroot, Object
<1> QED
  BY <1>1, <1>2, <1>3

LEMMA LoadHeap ==
  ASSUME GInv, NEW x \in Root, NEW y \in Root, NEW f \in Fld, Load(x, y, f)
  PROVE  H!HeapNext
<1> DEFINE i == root[y]
<1>1. i \in Id /\ flds[i][f] \in Val
  BY DEF Load, GInv, TypeOK
<1>2. Graph' = Graph /\ Hroot' = [Hroot EXCEPT ![x] = Ptr(flds[i][f])]
  BY <1>1, RootHeap DEF Load
<1>3. Object(i).flds[f] = Ptr(flds[i][f])
  BY DEF Object
<1>4. Hroot' = [Hroot EXCEPT ![x] = Object(i).flds[f]]
  BY <1>2, <1>3
<1>5. \A o : Graph' = Graph /\ Hroot' = [Hroot EXCEPT ![x] = o.flds[f]] => H!Load(x, o, f)
  BY DEF H!Load, Graph, Hroot, Object
<1>6. H!Load(x, Object(i), f)
  BY <1>2, <1>4, <1>5
<1>7. Object(i) \in H!Named(y)
  BY <1>1, NamedHeap
<1> QED
  BY <1>6, <1>7 DEF H!HeapNext

LEMMA PutFlds ==
  ASSUME NEW i, NEW F, NEW h
  PROVE  [[id |-> i, t |-> "object", flds |-> F] EXCEPT !.flds = h]
           = [id |-> i, t |-> "object", flds |-> h]
  OBVIOUS

LEMMA StoreHeap ==
  ASSUME GInv, NEW x \in Root, NEW f \in Fld, NEW v \in Slots,
         root[x] \in Id, Write(root[x], f, v)
  PROVE  H!HeapNext
<1> DEFINE i == root[x]
           o == Object(i)
           n == [o EXCEPT !.flds = [@ EXCEPT ![f] = Ptr(v)]]
<1>1. /\ Live' = Live /\ i \in Live /\ i \in Id /\ Live \subseteq Id
      /\ flds \in [Id -> [Fld -> Val]]
      /\ flds' = [flds EXCEPT ![i][f] = v] /\ root' = root
  BY RootLive DEF Write, Live, Young, Old, GInv, TypeOK
<1>2. Hroot' = Hroot
  BY <1>1 DEF Hroot, Ptr
<1>3. \A j \in Live : j # i => Object(j)' = Object(j)
  BY <1>1 DEF Object, Ptr
<1>4. Object(i)' = n
  <2>1. flds'[i] = [flds[i] EXCEPT ![f] = v] /\ i' = i
    BY <1>1
  <2>2. flds[i] \in [Fld -> Val]
    BY <1>1
  <2>3. [g \in Fld |-> Ptr(flds'[i][g])] = [[g \in Fld |-> Ptr(flds[i][g])] EXCEPT ![f] = Ptr(v)]
    BY <2>1, <2>2 DEF Ptr
  <2>4. o.flds = [g \in Fld |-> Ptr(flds[i][g])]
    BY DEF Object
  <2>5. n = [o EXCEPT !.flds = [g \in Fld |-> Ptr(flds'[i][g])]]
    BY <2>3, <2>4
  <2>6. \A h : [o EXCEPT !.flds = h] = [id |-> i, t |-> "object", flds |-> h]
    BY PutFlds DEF Object
  <2>7. Object(i)' = [id |-> i, t |-> "object", flds |-> [g \in Fld |-> Ptr(flds'[i][g])]]
    BY <2>1 DEF Object, Ptr
  <2> QED
    BY <2>5, <2>6, <2>7
<1>5. Graph' = (Graph \ {o}) \cup {n}
  <2>1. \A j, k : Object(j) = Object(k) => j = k
    BY DEF Object
  <2>2. Graph' = {Object(j)' : j \in Live}
    BY <1>1 DEF Graph, Object
  <2>3. Graph \ {o} = {Object(j) : j \in Live \ {i}}
    BY <1>1, <2>1 DEF Graph
  <2>4. {Object(j)' : j \in Live} = {Object(j) : j \in Live \ {i}} \cup {n}
    BY <1>1, <1>3, <1>4
  <2> QED
    BY <2>2, <2>3, <2>4
<1>6. o \in H!Named(x)
  BY NamedHeap
<1>7. Ptr(v) \in H!Slots
  <2>1. H!Slots = {Hroot[y] : y \in Root} \cup {NIL}
    BY DEF H!Slots, Hroot
  <2>2. \A y \in Root : Hroot[y] = Ptr(root[y])
    BY DEF Hroot
  <2> QED
    BY <2>1, <2>2 DEF Slots, Ptr
<1>8. \A p, w : /\ Graph' = (Graph \ {p}) \cup {[p EXCEPT !.flds = [@ EXCEPT ![f] = w]]}
                /\ Hroot' = Hroot
                => H!Store(p, f, w)
  BY DEF H!Store, Graph, Hroot, Object
<1>9. H!Store(o, f, Ptr(v))
  BY <1>2, <1>5, <1>8
<1> QED
  BY <1>6, <1>7, <1>9 DEF H!HeapNext

LEMMA EndHeap ==
  ASSUME GInv, EndScavenge PROVE H!HeapNext
<1>1. /\ Live' \subseteq Live
      /\ \A x \in Root : root[x] \in Live' \cup {NIL, INT}
      /\ \A i \in Live', f \in Fld :
           flds[i][f] \in Live' \cup {NIL, INT} /\ flds'[i][f] = flds[i][f]
  BY EndFacts
<1>2. root' = root
  BY DEF EndScavenge
<1>3. Hroot' = Hroot
  BY <1>2 DEF Hroot, Ptr
<1>4. \A i \in Live' : Object(i)' = Object(i)
  BY <1>1 DEF Object, Ptr
<1>5. Graph' = {Object(i) : i \in Live'}
  BY <1>4 DEF Graph
<1>6. Graph' \subseteq Graph
  BY <1>1, <1>5 DEF Graph
<1>7. {o.id : o \in Graph'} = Live'
  <2>1. \A i : Object(i).id = i
    BY DEF Object
  <2> QED
    BY <1>5, <2>1
<1>8. \A x \in Root : Hroot[x] \in Live' \cup {NIL}
  BY <1>1, GenAssumption DEF Hroot, Ptr
<1>9. \A o \in Graph', f \in Fld : o.flds[f] \in Live' \cup {NIL}
  BY <1>1, <1>5 DEF Object, Ptr
<1>10. \A g : /\ \A x \in Root : Hroot[x] \in {o.id : o \in g} \cup {NIL}
              /\ \A o \in g, f \in Fld : o.flds[f] \in {p.id : p \in g} \cup {NIL}
              => H!Closed(Hroot, g)
  BY DEF H!Closed, H!Ids
<1>11. H!Closed(Hroot, Graph')
  BY <1>7, <1>8, <1>9, <1>10
<1>12. H!Collect
  BY <1>3, <1>6, <1>11 DEF H!Collect, Graph, Hroot, Object
<1> QED
  BY <1>12 DEF H!HeapNext

\* README: the generations are not seen by the program.  The collector with
\* old space and remember set implements the heap that never moves anything.
THEOREM Refinement ==
  ASSUME Unsafe = {} PROVE Spec => ImplementsHeap
<1>1. Init => H!HeapInit
  <2> SUFFICES ASSUME Init PROVE H!HeapInit
    OBVIOUS
  <2>1. Live = {}
    BY DEF Init, Live, Young, Old, YOUNG1, YOUNG2, OLD, NONE
  <2>2. Graph = {} /\ Hroot = [x \in Root |-> NIL]
    BY <2>1 DEF Init, Graph, Hroot, Ptr
  <2> QED
    BY <2>2 DEF H!HeapInit, Graph, Hroot, Object
<1>2. ASSUME GInv, [Next]_vars PROVE H!HeapNext \/ (Graph' = Graph /\ Hroot' = Hroot)
  <2>1. CASE StartScavenge \/ UNCHANGED vars
    <3>1. Live' = Live /\ UNCHANGED <<flds, root>>
      BY <2>1 DEF StartScavenge, vars, Live, Young, Old
    <3> QED
      BY <3>1, SameHeap
  <2>2. CASE VisitRoot \/ VisitRemembered
    BY <1>2, <2>2, ServeStep, SameHeap
  <2>3. ASSUME NEW x \in Root, NEW f \in Fld, NEW v \in Slots,
               ST(x, f, v) \/ NativeStore(x, f, v)
        PROVE  H!HeapNext
    BY <1>2, <2>3, StoreHeap DEF ST, NativeStore
  <2> QED
    BY <1>2, <2>1, <2>2, <2>3, NewHeap, AssignHeap, LoadHeap, EndHeap DEF Next
<1>3. GInv /\ [Next]_vars => [H!HeapNext]_(H!hvars)
  BY <1>2 DEF H!hvars, Graph, Hroot, Object
<1> QED
  BY Invariance, <1>1, <1>3, PTL DEF Spec, ImplementsHeap, H!HeapSpec

=============================================================================
