------------------------ MODULE Activations_proofs ------------------------
(***************************************************************************)
(* The frames of the interpreter, for every set of well-typed programs and *)
(* every size of the stack: the saved registers always lead through whole  *)
(* frames down to the one that vm_call_main built, the stack never leaves  *)
(* its memory, and no step writes below the current frame.                 *)
(*                                                                         *)
(* The callers of a frame are described by a set that contains them and is *)
(* closed under unwinding.  A call adds a member to the set, a return or   *)
(* an exception drops those above the frame it goes on in.                 *)
(***************************************************************************)
EXTENDS Activations, FiniteSetTheorems, SequenceTheorems, LeastNumber, TLAPS

Checked == {p \in Programs : WellTyped(p)}

Frame == [ap : Nat, fp : Nat, sp : Nat, ret : Int]

\* The locals of method m in the frame w.
LocalCells(w, m) == (w.fp + 1)..(w.fp + prog.locals[m])

\* The operands ops lie on top of the locals of the frame w; there may be
\* others in between, left there when a statement was abandoned.
Carries(w, m, ops) ==
  /\ m \in DOMAIN prog.entry
  /\ FrameOK(w, m)
  /\ w.fp + prog.locals[m] + Len(ops) < w.sp
  /\ \A j \in 1..Len(ops) :
       ops[j] = "address" => stack[w.sp - Len(ops) + j - 1] \in LocalCells(w, m)

\* The frame w with shape t on top.
Shaped(w, m, t) == t.info => stack[w.fp] = ExInfo[m]

\* The frame w waits for the result of its call, the only operand missing.
Waits(w) ==
  LET t == Shape(prog)[w.ret]
      m == MethodAt(prog, w.ret)
  IN /\ w.ret \in DOMAIN Shape(prog) /\ w.ret - 1 \in DOMAIN Shape(prog)
     /\ prog.code[w.ret].op = "CALL"
     /\ MethodAt(prog, w.ret - 1) = m
     /\ t.ops # <<>> /\ t.ops[Len(t.ops)] = "value"
     /\ Carries(w, m, Without(t.ops, 1)) /\ Shaped(w, m, t)

\* S contains all frames below its members, down to the end.
Callers(S) ==
  /\ S \subseteq Frame
  /\ \A w \in S : \/ w.ret = NATIVE /\ w.sp = 0
                  \/ w.ret # NATIVE /\ Waits(w) /\ Unwound(w) \in S

Current == At(ap, fp, sp, ip + 1)

Executing ==
  /\ ip \in DOMAIN Shape(prog)
  /\ Carries(Current, MethodAt(prog, ip), Shape(prog)[ip].ops)
  /\ Shaped(Current, MethodAt(prog, ip), Shape(prog)[ip])

\* The invariant.
IInv ==
  /\ prog \in Checked
  /\ DOMAIN stack = 0..(StackSize + Slack - 1)
  /\ ap \in Nat /\ fp \in Nat /\ sp \in Nat /\ InMemory
  /\ DOMAIN exobj = DOMAIN prog.entry
  /\ status.end = "run" => status = Running
  /\ status = Running => Executing /\ \E S : Callers(S) /\ Unwound(Current) \in S

Untouched == \A c \in 0..(ap - 1) : stack'[c] = stack[c]

---------------------------------------------------------------------------
(* The code.                                                               *)

LEMMA CodeFacts ==
  ASSUME prog \in Checked, NEW a \in DOMAIN Shape(prog)
  PROVE  LET o == prog.code[a + 1]
             m == MethodAt(prog, a)
             t == Shape(prog)[a]
         IN /\ a \in 0..(Len(prog.code) - 1)
            /\ m \in DOMAIN prog.entry
            /\ t.ops \in Seq(Kinds) /\ Len(t.ops) \in Nat
            /\ ReliesOn(prog, m, o, t)
            /\ \A b \in Successors(o, a) :
                 /\ b \in DOMAIN Shape(prog) /\ MethodAt(prog, b) = m
                 /\ Shape(prog)[b].ops = Effect(o, t.ops)
                 /\ Shape(prog)[b].info => t.info \/ o.op = "ST_EXINFO"
<1>1. WellTyped(prog)
  BY DEF Checked
<1>2. Shape(prog)[a].ops \in Seq(Kinds)
  BY <1>1 DEF WellTyped
<1>3. Len(Shape(prog)[a].ops) \in Nat
  BY <1>2, LenProperties
<1>4. a \in 0..(Len(prog.code) - 1) /\ MethodAt(prog, a) \in DOMAIN prog.entry
  BY <1>1 DEF WellTyped
<1>5. ReliesOn(prog, MethodAt(prog, a), prog.code[a + 1], Shape(prog)[a])
  BY <1>1 DEF WellTyped
<1>6. \A b \in Successors(prog.code[a + 1], a) :
        /\ b \in DOMAIN Shape(prog) /\ MethodAt(prog, b) = MethodAt(prog, a)
        /\ Shape(prog)[b].ops = Effect(prog.code[a + 1], Shape(prog)[a].ops)
        /\ Shape(prog)[b].info => Shape(prog)[a].info \/ prog.code[a + 1].op = "ST_EXINFO"
  BY <1>1 DEF WellTyped
<1> QED
  BY <1>2, <1>3, <1>4, <1>5, <1>6

LEMMA MethodFacts ==
  ASSUME prog \in Checked, NEW m \in DOMAIN prog.entry
  PROVE  /\ prog.locals[m] \in Nat /\ prog.locals[m] < Slack /\ Slack \in Nat
         /\ StackSize \in Nat /\ 5 <= StackSize
         /\ m \in DOMAIN ExInfo /\ ExInfo[m] # NULL
         /\ InfoOf(ExInfo[m]) = m
<1>1. m \in DOMAIN ExInfo /\ prog.locals[m] \in Nat /\ prog.locals[m] < Slack
  BY ProgramAssumption DEF Checked
<1>2. InfoOf(ExInfo[m]) \in DOMAIN ExInfo /\ ExInfo[InfoOf(ExInfo[m])] = ExInfo[m]
  BY <1>1 DEF InfoOf
<1> QED
  BY <1>1, <1>2, StackAssumption

\* Operands that stay, operands that come.
LEMMA OneMore ==
  ASSUME NEW s \in Seq(Kinds), NEW v \in Kinds
  PROVE  /\ s \o <<v>> \in Seq(Kinds) /\ Len(s \o <<v>>) = Len(s) + 1
         /\ \A j \in 1..Len(s) : (s \o <<v>>)[j] = s[j]
         /\ (s \o <<v>>)[Len(s) + 1] = v
<1>1. <<v>> \in Seq(Kinds) /\ Len(<<v>>) = 1 /\ <<v>>[1] = v /\ Len(s) \in Nat
  BY LenProperties
<1> DEFINE u == <<v>>
<1> HIDE DEF u
<1>2. /\ s \o u \in Seq(Kinds) /\ Len(s \o u) = Len(s) + 1
      /\ \A j \in 1..(Len(s) + 1) : (s \o u)[j] = IF j <= Len(s) THEN s[j] ELSE u[j - Len(s)]
  BY <1>1, ConcatProperties DEF u
<1>3. (s \o u)[Len(s) + 1] = v
  BY <1>1, <1>2 DEF u
<1> QED
  BY <1>1, <1>2, <1>3 DEF u

LEMMA TwoMore ==
  ASSUME NEW s \in Seq(Kinds), NEW v \in Kinds, NEW w \in Kinds
  PROVE  /\ Len(s \o <<v, w>>) = Len(s) + 2
         /\ \A j \in 1..Len(s) : (s \o <<v, w>>)[j] = s[j]
         /\ (s \o <<v, w>>)[Len(s) + 1] = v /\ (s \o <<v, w>>)[Len(s) + 2] = w
<1>1. /\ <<v, w>> \in Seq(Kinds) /\ Len(<<v, w>>) = 2 /\ <<v, w>>[1] = v /\ <<v, w>>[2] = w
      /\ Len(s) \in Nat
  BY LenProperties
<1> DEFINE u == <<v, w>>
<1> HIDE DEF u
<1>2. /\ Len(s \o u) = Len(s) + 2
      /\ \A j \in 1..(Len(s) + 2) : (s \o u)[j] = IF j <= Len(s) THEN s[j] ELSE u[j - Len(s)]
  BY <1>1, ConcatProperties DEF u
<1>3. (s \o u)[Len(s) + 1] = v /\ (s \o u)[Len(s) + 2] = w
  BY <1>1, <1>2 DEF u
<1> QED
  BY <1>1, <1>2, <1>3 DEF u

LEMMA Fewer ==
  ASSUME NEW s \in Seq(Kinds), NEW n \in Nat, n <= Len(s)
  PROVE  /\ Without(s, n) \in Seq(Kinds) /\ Len(Without(s, n)) = Len(s) - n
         /\ Len(s) \in Nat
         /\ \A j \in 1..(Len(s) - n) : Without(s, n)[j] = s[j]
<1>1. Len(s) \in Nat /\ \A j \in 1..(Len(s) - n) : s[j] \in Kinds
  BY LenProperties, ElementOfSeq
<1>2. /\ SubSeq(s, 1, Len(s) - n) \in Seq(Kinds)
      /\ Len(SubSeq(s, 1, Len(s) - n)) = IF 1 <= Len(s) - n THEN Len(s) - n - 1 + 1 ELSE 0
      /\ \A j \in 1..(Len(s) - n - 1 + 1) : SubSeq(s, 1, Len(s) - n)[j] = s[1 + j - 1]
  <2>1. 1 \in Int /\ Len(s) - n \in Int
    BY <1>1
  <2> QED
    BY <1>1, <2>1, SubSeqProperties
<1> QED
  BY <1>1, <1>2 DEF Without

---------------------------------------------------------------------------
(* The stack.                                                              *)
LEMMA PutOne ==
  ASSUME NEW i \in Int, NEW v
  PROVE  Put(i, <<v>>) = [c \in DOMAIN stack |-> IF c = i THEN v ELSE stack[c]]
  BY DEF Put

LEMMA PutTwo ==
  ASSUME NEW i \in Int, NEW v, NEW w
  PROVE  Put(i, <<v, w>>) = [c \in DOMAIN stack |-> IF c = i THEN v ELSE IF c = i + 1 THEN w
                                                     ELSE stack[c]]
  BY DEF Put

---------------------------------------------------------------------------
(* Frames that wait.                                                       *)
LEMMA WaitFacts ==
  ASSUME prog \in Checked, NEW w \in Frame, w.ret # NATIVE, Waits(w)
  PROVE  LET m == MethodAt(prog, w.ret)
             n == Len(Without(Shape(prog)[w.ret].ops, 1))
         IN /\ w.ap \in Nat /\ w.sp \in Nat /\ w.fp = w.ap + 5
            /\ m \in DOMAIN prog.entry /\ prog.locals[m] \in Nat
            /\ n \in Nat /\ w.fp + prog.locals[m] + n < w.sp
            /\ Unwound(w) = At(stack[w.fp - 2], stack[w.fp - 1], w.ap, stack[w.fp - 3])
<1>1. w.ret \in DOMAIN Shape(prog)
  BY DEF Waits
<1>2. PICK s : s = Shape(prog)[w.ret].ops
  OBVIOUS
<1>3. s \in Seq(Kinds) /\ s # <<>>
  BY <1>1, <1>2, CodeFacts DEF Waits
<1>4. Len(s) \in Nat /\ 1 <= Len(s)
  BY <1>3, EmptySeq
<1>5. Len(Without(s, 1)) \in Nat
  BY <1>3, <1>4, Fewer
<1>6. PICK m : m = MethodAt(prog, w.ret)
  OBVIOUS
<1>7. Carries(w, m, Without(s, 1))
  BY <1>2, <1>6 DEF Waits
<1>8. m \in DOMAIN prog.entry /\ prog.locals[m] \in Nat
  BY <1>7, MethodFacts DEF Carries
<1>9. /\ w.ap \in Nat /\ w.sp \in Nat /\ w.fp = w.ap + 5
      /\ w.fp + prog.locals[m] + Len(Without(s, 1)) < w.sp
  BY <1>7 DEF Carries, FrameOK, Frame
<1>10. Unwound(w) = At(stack[w.fp - 2], stack[w.fp - 1], w.ap, stack[w.fp - 3])
  BY DEF Unwound
<1> QED
  BY <1>2, <1>5, <1>6, <1>8, <1>9, <1>10

\* A frame that waits does so while nothing is written below its top.
LEMMA StillWaits ==
  ASSUME prog \in Checked, prog' = prog, NEW a \in Nat, \A c \in 0..(a - 1) : stack'[c] = stack[c],
         NEW w \in Frame, w.ret # NATIVE, Waits(w), w.sp <= a
  PROVE  Waits(w)' /\ Unwound(w)' = Unwound(w)
<1>1. PICK m : m = MethodAt(prog, w.ret)
  OBVIOUS
<1>2. PICK s : s = Without(Shape(prog)[w.ret].ops, 1)
  OBVIOUS
<1>3. /\ w.ap \in Nat /\ w.sp \in Nat /\ w.fp = w.ap + 5
      /\ prog.locals[m] \in Nat /\ Len(s) \in Nat /\ w.fp + prog.locals[m] + Len(s) < w.sp
  BY <1>1, <1>2, WaitFacts
<1>4. /\ stack'[w.fp] = stack[w.fp] /\ stack'[w.fp - 1] = stack[w.fp - 1]
      /\ stack'[w.fp - 2] = stack[w.fp - 2] /\ stack'[w.fp - 3] = stack[w.fp - 3]
      /\ stack'[w.fp - 4] = stack[w.fp - 4]
  <2>1. /\ w.fp \in 0..(a - 1) /\ w.fp - 1 \in 0..(a - 1) /\ w.fp - 2 \in 0..(a - 1)
        /\ w.fp - 3 \in 0..(a - 1) /\ w.fp - 4 \in 0..(a - 1)
    <3>1. PICK k \in Nat : k = prog.locals[m]
      BY <1>3
    <3>2. PICK n \in Nat : n = Len(s)
      BY <1>3
    <3>3. PICK b \in Nat : b = w.ap
      BY <1>3
    <3>4. PICK t \in Nat : t = w.sp
      BY <1>3
    <3>5. w.fp = b + 5 /\ b + 5 + k + n < t /\ t <= a
      BY <1>3, <3>1, <3>2, <3>3, <3>4
    <3>6. /\ b + 5 \in 0..(a - 1) /\ b + 5 - 1 \in 0..(a - 1) /\ b + 5 - 2 \in 0..(a - 1)
          /\ b + 5 - 3 \in 0..(a - 1) /\ b + 5 - 4 \in 0..(a - 1)
      BY <3>5
    <3> QED
      BY <3>5, <3>6
  <2> QED
    BY <2>1
<1>5. \A j \in 1..Len(s) : stack'[w.sp - Len(s) + j - 1] = stack[w.sp - Len(s) + j - 1]
  <2>1. ASSUME NEW j \in 1..Len(s) PROVE w.sp - Len(s) + j - 1 \in 0..(a - 1)
    <3>1. PICK k \in Nat : k = prog.locals[m]
      BY <1>3
    <3>2. PICK n \in Nat : n = Len(s)
      BY <1>3
    <3>3. PICK b \in Nat : b = w.ap
      BY <1>3
    <3>4. PICK t \in Nat : t = w.sp
      BY <1>3
    <3>5. b + 5 + k + n < t /\ t <= a /\ j \in 1..n
      BY <1>3, <3>1, <3>2, <3>3, <3>4
    <3>6. t - n + j - 1 \in 0..(a - 1)
      BY <3>5
    <3> QED
      BY <3>2, <3>4, <3>6
  <2> QED
    BY <2>1
<1>6. Carries(w, m, s)
  BY <1>1, <1>2 DEF Waits
<1>7. Carries(w, m, s)'
  <2>1. FrameOK(w, m)'
    BY <1>4, <1>6 DEF Carries, FrameOK
  <2>2. \A j \in 1..Len(s) : s[j] = "address" =>
          stack'[w.sp - Len(s) + j - 1] \in (LocalCells(w, m))'
    BY <1>5, <1>6 DEF Carries, LocalCells
  <2> QED
    BY <1>6, <2>1, <2>2 DEF Carries
<1>8. Waits(w)'
  BY <1>1, <1>2, <1>4, <1>7 DEF Waits, Shaped
<1>9. Unwound(w)' = Unwound(w)
  BY <1>4 DEF Unwound
<1> QED
  BY <1>8, <1>9

\* Whoever waits below a goes on waiting while nothing is written below a.
LEMMA Kept ==
  ASSUME prog \in Checked, prog' = prog, NEW a \in Nat, \A c \in 0..(a - 1) : stack'[c] = stack[c],
         NEW S, Callers(S)
  PROVE  Callers({w \in S : w.sp <= a})'
<1> DEFINE R == {w \in S : w.sp <= a}
<1>1. R \subseteq Frame
  BY DEF Callers
<1>2. ASSUME NEW w \in R
      PROVE  \/ w.ret = NATIVE /\ w.sp = 0
             \/ w.ret # NATIVE /\ Waits(w)' /\ Unwound(w)' \in R
  <2>1. CASE w.ret = NATIVE
    BY <2>1 DEF Callers
  <2>2. CASE w.ret # NATIVE
    <3>1. w \in Frame /\ Waits(w) /\ Unwound(w) \in S
      BY <2>2 DEF Callers
    <3>2. Waits(w)' /\ Unwound(w)' = Unwound(w)
      BY <2>2, <3>1, StillWaits
    <3>3. Unwound(w).sp <= a
      <4>1. /\ Unwound(w).sp = w.ap /\ w.ap \in Nat /\ w.sp \in Nat
            /\ w.ap <= w.sp
        <5>1. PICK k : k = prog.locals[MethodAt(prog, w.ret)]
          OBVIOUS
        <5>2. PICK n : n = Len(Without(Shape(prog)[w.ret].ops, 1))
          OBVIOUS
        <5>3. /\ w.ap \in Nat /\ w.sp \in Nat /\ w.fp = w.ap + 5
              /\ k \in Nat /\ n \in Nat /\ w.fp + k + n < w.sp
          BY <2>2, <3>1, <5>1, <5>2, WaitFacts
        <5>4. Unwound(w).sp = w.ap
          BY <2>2, <3>1, WaitFacts DEF At
        <5> QED
          BY <5>3, <5>4
      <4> QED
        BY <4>1
    <3> QED
      BY <2>2, <3>1, <3>2, <3>3
  <2> QED
    BY <2>1, <2>2
<1> QED
  BY <1>1, <1>2 DEF Callers

---------------------------------------------------------------------------
(* The frame that executes.                                                *)
LEMMA CurrentFacts ==
  ASSUME IInv, status = Running
  PROVE  LET m == MethodAt(prog, ip)
             n == Len(Shape(prog)[ip].ops)
         IN /\ prog \in Checked /\ ip \in DOMAIN Shape(prog) /\ ip \in Nat
            /\ m \in DOMAIN prog.entry
            /\ prog.locals[m] \in Nat /\ prog.locals[m] < Slack /\ n \in Nat
            /\ ap \in Nat /\ fp = ap + 5 /\ sp \in Nat
            /\ fp + prog.locals[m] + n < sp
            /\ stack[fp - 4] = THISCLS /\ stack[fp] \in {NULL, ExInfo[m]}
<1>1. prog \in Checked /\ ip \in DOMAIN Shape(prog) /\ ap \in Nat /\ sp \in Nat
  BY DEF IInv, Executing
<1>2. ip \in Nat /\ Len(Shape(prog)[ip].ops) \in Nat /\ MethodAt(prog, ip) \in DOMAIN prog.entry
  BY <1>1, CodeFacts
<1>3. prog.locals[MethodAt(prog, ip)] \in Nat /\ prog.locals[MethodAt(prog, ip)] < Slack
  BY <1>1, <1>2, MethodFacts
<1>4. Carries(Current, MethodAt(prog, ip), Shape(prog)[ip].ops)
  BY DEF IInv, Executing
<1>5. /\ fp = ap + 5
      /\ fp + prog.locals[MethodAt(prog, ip)] + Len(Shape(prog)[ip].ops) < sp
      /\ stack[fp - 4] = THISCLS /\ stack[fp] \in {NULL, ExInfo[MethodAt(prog, ip)]}
  BY <1>4 DEF Carries, FrameOK, Current, At
<1> QED
  BY <1>1, <1>2, <1>3, <1>5

LEMMA CallerOfCurrent ==
  ASSUME IInv, status = Running
  PROVE  Unwound(Current) = At(stack[fp - 2], stack[fp - 1], ap, stack[fp - 3])
<1>1. ip + 1 # NATIVE
  <2>1. ip \in Nat
    BY CurrentFacts
  <2> QED
    BY <2>1 DEF NATIVE
<1> QED
  BY <1>1 DEF Unwound, Current, At

\* A step to the address b in the same frame that writes locals or operands only.
LEMMA SameFrame ==
  ASSUME IInv, status = Running, prog' = prog, ap' = ap, fp' = fp, status' = status,
         DOMAIN exobj' = DOMAIN exobj,
         ip' \in Successors(Op, ip),
         DOMAIN stack' = DOMAIN stack,
         \A c \in 0..(fp - 1) : stack'[c] = stack[c],
         stack'[fp] = IF Op.op = "ST_EXINFO" THEN ExInfo[MethodAt(prog, ip)] ELSE stack[fp],
         sp' \in Nat, sp' <= StackSize + Slack,
         sp' - Len(Effect(Op, Shape(prog)[ip].ops)) = sp - Len(Shape(prog)[ip].ops),
         \A j \in 1..Len(Effect(Op, Shape(prog)[ip].ops)) :
           Effect(Op, Shape(prog)[ip].ops)[j] = "address" =>
             stack'[sp' - Len(Effect(Op, Shape(prog)[ip].ops)) + j - 1]
               \in LocalCells(Current, MethodAt(prog, ip))
  PROVE  IInv' /\ Untouched
<1>1. PICK m : m = MethodAt(prog, ip)
  OBVIOUS
<1>2. PICK t : t = Shape(prog)[ip]
  OBVIOUS
<1>3. PICK e : e = Effect(Op, t.ops)
  OBVIOUS
<1>4. PICK k : k = prog.locals[m]
  OBVIOUS
<1>5. /\ prog \in Checked /\ ip \in DOMAIN Shape(prog) /\ m \in DOMAIN prog.entry
      /\ k \in Nat /\ k < Slack /\ Len(t.ops) \in Nat
      /\ ap \in Nat /\ fp = ap + 5 /\ sp \in Nat
      /\ fp + k + Len(t.ops) < sp
      /\ stack[fp - 4] = THISCLS /\ stack[fp] \in {NULL, ExInfo[m]}
  BY <1>1, <1>2, <1>4, CurrentFacts
<1>6. /\ ip' \in DOMAIN Shape(prog) /\ MethodAt(prog, ip') = m
      /\ Shape(prog)[ip'].ops = e
      /\ Shape(prog)[ip'].info => t.info \/ Op.op = "ST_EXINFO"
  BY <1>1, <1>2, <1>3, <1>5, CodeFacts DEF Op
<1>7. ip' \in Nat /\ Len(e) \in Nat
  BY <1>5, <1>6, CodeFacts
<1>8. Untouched
  BY <1>5 DEF Untouched
<1>9. \E S : Callers(S)' /\ Unwound(Current)' \in S
  <2>1. PICK S : Callers(S) /\ Unwound(Current) \in S
    BY DEF IInv
  <2>2. Callers({w \in S : w.sp <= ap})'
    BY <1>5, <1>8, <2>1, Kept DEF Untouched
  <2>3. Unwound(Current) = At(stack[fp - 2], stack[fp - 1], ap, stack[fp - 3])
    BY CallerOfCurrent
  <2>4. Unwound(Current)' = At(stack'[fp - 2], stack'[fp - 1], ap, stack'[fp - 3])
    <3>1. PICK i \in Nat : i = ip'
      BY <1>7
    <3>2. i + 1 # NATIVE
      BY DEF NATIVE
    <3> QED
      BY <3>1, <3>2 DEF Unwound, Current, At
  <2>5. /\ stack'[fp - 1] = stack[fp - 1] /\ stack'[fp - 2] = stack[fp - 2]
        /\ stack'[fp - 3] = stack[fp - 3]
    <3>1. PICK b \in Nat : b = ap
      BY <1>5
    <3>2. fp = b + 5
      BY <1>5, <3>1
    <3>3. /\ b + 5 - 1 \in 0..(b + 5 - 1) /\ b + 5 - 2 \in 0..(b + 5 - 1)
          /\ b + 5 - 3 \in 0..(b + 5 - 1)
      OBVIOUS
    <3> QED
      BY <3>2, <3>3
  <2>6. Unwound(Current)' \in {w \in S : w.sp <= ap}
    <3>1. Unwound(Current)' = Unwound(Current)
      BY <2>3, <2>4, <2>5
    <3>2. Unwound(Current).sp <= ap
      BY <1>5, <2>3 DEF At
    <3> QED
      BY <2>1, <3>1, <3>2
  <2> QED
    BY <2>2, <2>6
<1>10. Executing'
  <2>1. FrameOK(Current, m)'
    <3>1. stack'[fp - 4] = THISCLS
      BY <1>5, SMTT(30)
    <3>2. stack'[fp] \in {NULL, ExInfo[m]}
      BY <1>1, <1>5
    <3>3. fp' = ap' + 5 /\ fp' + k < sp'
      <4>1. PICK n \in Nat : n = Len(t.ops)
        BY <1>5
      <4>2. PICK x \in Nat : x = Len(e)
        BY <1>7
      <4>3. sp' - x = sp - n /\ fp + k + n < sp
        BY <1>2, <1>3, <1>5, <4>1, <4>2
      <4>4. fp + k < sp'
        <5>1. PICK f \in Nat : f = fp
          BY <1>5
        <5>2. PICK y \in Nat : y = sp
          BY <1>5
        <5>3. PICK z \in Nat : z = sp'
          OBVIOUS
        <5>4. k \in Nat /\ z - x = y - n /\ f + k + n < y
          BY <1>5, <4>3, <5>1, <5>2, <5>3
        <5>5. f + k < z
          BY <5>4
        <5> QED
          BY <5>1, <5>3, <5>5
      <4> QED
        BY <1>5, <4>4
    <3> QED
      BY <1>4, <3>1, <3>2, <3>3 DEF FrameOK, Current, At
  <2>2. fp' + k + Len(e) < sp'
    <3>1. PICK n \in Nat : n = Len(t.ops)
      BY <1>5
    <3>2. PICK x \in Nat : x = Len(e)
      BY <1>7
    <3>3. sp' - x = sp - n /\ fp + k + n < sp
      BY <1>2, <1>3, <1>5, <3>1, <3>2
    <3> QED
      BY <1>5, <3>2, <3>3
  <2>3. \A j \in 1..Len(e) :
          e[j] = "address" => stack'[sp' - Len(e) + j - 1] \in LocalCells(Current, m)'
    BY <1>1, <1>2, <1>3 DEF LocalCells, Current, At
  <2>4. Carries(Current, m, e)'
    BY <1>4, <1>5, <2>1, <2>2, <2>3 DEF Carries, Current, At
  <2>5. Shape(prog)[ip'].info => stack'[fp] = ExInfo[m]
    <3>1. t.info => stack[fp] = ExInfo[m]
      BY <1>1, <1>2 DEF IInv, Executing, Shaped, Current, At
    <3> QED
      BY <1>1, <1>6, <3>1
  <2>6. PICK u : u = Shape(prog)[ip']
    OBVIOUS
  <2>7. Shaped(Current, m, u)'
    BY <2>5, <2>6 DEF Shaped, Current, At
  <2>8. /\ ip' \in DOMAIN Shape(prog') /\ MethodAt(prog', ip') = m
        /\ Shape(prog')[ip'] = u /\ u.ops = e
    BY <1>6, <2>6
  <2> QED
    BY <2>4, <2>7, <2>8 DEF Executing
<1>11. IInv'
  <2>1. prog' \in Checked /\ DOMAIN stack' = 0..(StackSize + Slack - 1)
    BY <1>5 DEF IInv
  <2>2. ap' \in Nat /\ fp' \in Nat /\ sp' \in Nat /\ InMemory'
    BY <1>5 DEF IInv, InMemory
  <2>3. DOMAIN exobj' = DOMAIN prog'.entry /\ (status'.end = "run" => status' = Running)
    BY DEF IInv
  <2> QED
    BY <1>9, <1>10, <2>1, <2>2, <2>3 DEF IInv, Running
<1> QED
  BY <1>8, <1>11

\* The operands begin at B.
Base == sp - Len(Shape(prog)[ip].ops)

\* An operand of the kind address is the address of a local of this frame.
Addresses(s, B) ==
  \A j \in 1..Len(s) : s[j] = "address" => stack[B + j - 1] \in LocalCells(Current, MethodAt(prog, ip))

LEMMA BaseFacts ==
  ASSUME IInv, status = Running
  PROVE  LET s == Shape(prog)[ip].ops
             m == MethodAt(prog, ip)
         IN /\ s \in Seq(Kinds) /\ Len(s) \in Nat
            /\ Base \in Nat /\ sp = Base + Len(s)
            /\ fp \in Nat /\ fp < Base /\ fp + prog.locals[m] < Base
            /\ Addresses(s, Base)
            /\ ReliesOn(prog, m, Op, Shape(prog)[ip])
            /\ sp \in Nat /\ sp <= StackSize + Slack
            /\ DOMAIN stack = 0..(StackSize + Slack - 1) /\ StackSize \in Nat /\ Slack \in Nat
<1>1. PICK m : m = MethodAt(prog, ip)
  OBVIOUS
<1>2. PICK t : t = Shape(prog)[ip]
  OBVIOUS
<1>3. PICK k : k = prog.locals[m]
  OBVIOUS
<1>4. /\ prog \in Checked /\ ip \in DOMAIN Shape(prog)
      /\ k \in Nat /\ Len(t.ops) \in Nat
      /\ ap \in Nat /\ fp = ap + 5 /\ sp \in Nat
      /\ fp + k + Len(t.ops) < sp
  BY <1>1, <1>2, <1>3, CurrentFacts
<1>5. t.ops \in Seq(Kinds) /\ ReliesOn(prog, m, Op, t)
  BY <1>1, <1>2, <1>4, CodeFacts DEF Op
<1>6. Base \in Nat /\ sp = Base + Len(t.ops) /\ fp \in Nat /\ fp < Base /\ fp + k < Base
  <2>1. PICK n \in Nat : n = Len(t.ops)
    BY <1>4
  <2>2. PICK y \in Nat : y = sp
    BY <1>4
  <2>3. PICK a \in Nat : a = ap
    BY <1>4
  <2>4. Base = y - n /\ a + 5 + k + n < y /\ fp = a + 5
    BY <1>2, <1>4, <2>1, <2>2, <2>3 DEF Base
  <2>5. y - n \in Nat /\ y = (y - n) + n /\ a + 5 \in Nat /\ a + 5 < y - n /\ a + 5 + k < y - n
    BY <1>4, <2>4
  <2> QED
    BY <2>1, <2>2, <2>4, <2>5
<1>7. Addresses(t.ops, Base)
  <2>1. Carries(Current, m, t.ops)
    BY <1>1, <1>2 DEF IInv, Executing
  <2>2. \A j \in 1..Len(t.ops) :
          t.ops[j] = "address" => stack[sp - Len(t.ops) + j - 1] \in LocalCells(Current, m)
    BY <2>1 DEF Carries, Current, At
  <2> QED
    BY <1>1, <1>2, <2>2 DEF Addresses, Base
<1>8. /\ sp <= StackSize + Slack
      /\ DOMAIN stack = 0..(StackSize + Slack - 1) /\ StackSize \in Nat /\ Slack \in Nat
  BY StackAssumption DEF IInv, InMemory
<1> QED
  BY <1>1, <1>2, <1>3, <1>4, <1>5, <1>6, <1>7, <1>8

\* The same in terms of the base.
LEMMA Straight ==
  ASSUME IInv, status = Running, prog' = prog, ap' = ap, fp' = fp, status' = status,
         DOMAIN exobj' = DOMAIN exobj,
         ip' \in Successors(Op, ip),
         DOMAIN stack' = DOMAIN stack,
         \A c \in 0..(fp - 1) : stack'[c] = stack[c],
         stack'[fp] = IF Op.op = "ST_EXINFO" THEN ExInfo[MethodAt(prog, ip)] ELSE stack[fp],
         NEW e, e = Effect(Op, Shape(prog)[ip].ops), Len(e) \in Nat,
         sp' = Base + Len(e), sp' <= StackSize + Slack,
         \A j \in 1..Len(e) : e[j] = "address" =>
           stack'[Base + j - 1] \in LocalCells(Current, MethodAt(prog, ip))
  PROVE  IInv' /\ Untouched
<1>1. PICK n \in Nat : n = Len(Shape(prog)[ip].ops)
  BY BaseFacts
<1>2. PICK x \in Nat : x = Len(e)
  OBVIOUS
<1>3. PICK B \in Nat : B = Base
  BY BaseFacts
<1>4. sp = B + n
  BY <1>1, <1>3, BaseFacts
<1>5. sp' = B + x
  BY <1>2, <1>3
<1>6. sp' \in Nat /\ sp' - x = sp - n /\ sp' - x = B
  BY <1>4, <1>5
<1>7. \A j \in 1..Len(e) : e[j] = "address" =>
         stack'[sp' - Len(e) + j - 1] \in LocalCells(Current, MethodAt(prog, ip))
  BY <1>2, <1>3, <1>6
<1>8. sp' - Len(e) = sp - Len(Shape(prog)[ip].ops)
  BY <1>1, <1>2, <1>6
<1> QED
  BY <1>6, <1>7, <1>8, SameFrame

---------------------------------------------------------------------------
(* The instructions that stay in their frame.                              *)

\* A value is pushed.
LEMMA PushedStep ==
  ASSUME IInv, NEW o \in {"LVBI_C", "LVBI_ARG", "LVBI_LOC", "LD_EXOBJ"}, Runs(o), NEW v, Pushed(v)
  PROVE  IInv' /\ Untouched
<1>1. PICK s : s = Shape(prog)[ip].ops
  OBVIOUS
<1>2. PICK B \in Nat : B = Base
  BY BaseFacts DEF Runs
<1>3. /\ s \in Seq(Kinds) /\ Len(s) \in Nat /\ sp = B + Len(s)
      /\ fp \in Nat /\ fp < B /\ Addresses(s, B)
      /\ DOMAIN stack = 0..(StackSize + Slack - 1) /\ StackSize \in Nat /\ Slack \in Nat
  BY <1>1, <1>2, BaseFacts DEF Runs
<1>4. PICK n \in Nat : n = Len(s)
  BY <1>3
<1>5. Effect(Op, s) = s \o <<"value">> /\ Successors(Op, ip) = {ip + 1}
  BY DEF Effect, Successors, Runs
<1>6. PICK e : e = s \o <<"value">>
  OBVIOUS
<1>7. Len(e) = n + 1 /\ (\A j \in 1..n : e[j] = s[j]) /\ e[n + 1] = "value"
  BY <1>3, <1>4, <1>6, OneMore DEF Kinds
<1>8. sp' = sp + 1 /\ sp' <= StackSize
  BY DEF Pushed, Runs, Fits, Pushes
<1>9. stack' = [c \in DOMAIN stack |-> IF c = sp THEN v ELSE stack[c]]
  BY <1>3, <1>4, PutOne DEF Pushed
<1>10. \A c \in 0..fp : c \in DOMAIN stack /\ c # sp
  BY <1>3, <1>4, <1>8
<1>11. \A c \in 0..fp : stack'[c] = stack[c]
  BY <1>9, <1>10
<1>12. ASSUME NEW j \in 1..Len(e), e[j] = "address"
       PROVE  stack'[B + j - 1] \in LocalCells(Current, MethodAt(prog, ip))
  <2>1. j \in 1..n
    BY <1>7, <1>12
  <2>2. B + j - 1 \in DOMAIN stack /\ B + j - 1 # sp
    BY <1>3, <1>4, <1>8, <2>1
  <2> QED
    BY <1>3, <1>4, <1>7, <1>9, <1>12, <2>1, <2>2 DEF Addresses
<1>13. sp' = B + Len(e) /\ sp' <= StackSize + Slack /\ Len(e) \in Nat
  BY <1>3, <1>4, <1>7, <1>8
<1>14. stack'[fp] = stack[fp] /\ \A c \in 0..(fp - 1) : stack'[c] = stack[c]
  BY <1>3, <1>11
<1>15. DOMAIN stack' = DOMAIN stack
  BY <1>9
<1>16. /\ status = Running /\ prog' = prog /\ ap' = ap /\ fp' = fp /\ status' = status /\ exobj' = exobj
       /\ ip' = ip + 1 /\ Op.op # "ST_EXINFO"
  BY DEF Pushed, Runs
<1>17. \A j \in 1..Len(e) : e[j] = "address" =>
          stack'[Base + j - 1] \in LocalCells(Current, MethodAt(prog, ip))
  BY <1>2, <1>12
<1> QED
  BY <1>1, <1>2, <1>5, <1>6, <1>13, <1>14, <1>15, <1>16, <1>17, Straight

\* An instruction that leaves the locals and the first n operands alone.
LEMMA Operates ==
  ASSUME IInv, status = Running, prog' = prog, ap' = ap, fp' = fp, status' = status,
         exobj' = exobj, Op.op # "ST_EXINFO",
         ip' \in Successors(Op, ip),
         DOMAIN stack' = DOMAIN stack,
         NEW e, e = Effect(Op, Shape(prog)[ip].ops), Len(e) \in Nat,
         sp' = Base + Len(e), sp' <= StackSize + Slack,
         NEW n \in Nat, n <= Len(Shape(prog)[ip].ops), n <= Len(e),
         \A c \in 0..(Base + n - 1) : stack'[c] = stack[c],
         \A j \in 1..n : e[j] = Shape(prog)[ip].ops[j],
         \A j \in (n + 1)..Len(e) : e[j] = "address" =>
           stack'[Base + j - 1] \in LocalCells(Current, MethodAt(prog, ip))
  PROVE  IInv' /\ Untouched
<1>1. PICK s : s = Shape(prog)[ip].ops
  OBVIOUS
<1>2. PICK B \in Nat : B = Base
  BY BaseFacts
<1>3. /\ Len(s) \in Nat /\ fp \in Nat /\ fp < B /\ Addresses(s, B) /\ n <= Len(s)
  BY <1>1, <1>2, BaseFacts
<1>4. /\ \A c \in 0..(fp - 1) : stack'[c] = stack[c]
      /\ stack'[fp] = stack[fp]
  <2>1. \A c \in 0..(B + n - 1) : stack'[c] = stack[c]
    BY <1>2
  <2>2. \A c \in 0..fp : c \in 0..(B + n - 1)
    BY <1>3
  <2> QED
    BY <1>3, <2>1, <2>2
<1>5. ASSUME NEW j \in 1..Len(e), e[j] = "address"
      PROVE  stack'[B + j - 1] \in LocalCells(Current, MethodAt(prog, ip))
  <2>1. CASE j \in (n + 1)..Len(e)
    BY <1>2, <1>5, <2>1
  <2>2. CASE j \in 1..n
    <3>1. j \in 1..Len(s) /\ s[j] = "address"
      BY <1>1, <1>3, <1>5, <2>2
    <3>2. stack[B + j - 1] \in LocalCells(Current, MethodAt(prog, ip))
      BY <1>3, <3>1 DEF Addresses
    <3>3. B + j - 1 \in 0..(B + n - 1)
      BY <2>2
    <3> QED
      BY <1>2, <3>2, <3>3
  <2> QED
    BY <2>1, <2>2
<1> QED
  BY <1>1, <1>2, <1>4, <1>5, Straight

\* Instructions that only drop operands, or none.
LEMMA DropStep ==
  ASSUME IInv, NEW o \in {"POP", "WRT", "IFNJ", "JU"}, Runs(o),
         prog' = prog, ap' = ap, fp' = fp, status' = status, exobj' = exobj,
         ip' \in Successors(Op, ip), stack' = stack,
         sp' = IF o = "JU" THEN sp ELSE sp - 1
  PROVE  IInv' /\ Untouched
<1>1. PICK s : s = Shape(prog)[ip].ops
  OBVIOUS
<1>2. PICK B \in Nat : B = Base
  BY BaseFacts DEF Runs
<1>3. /\ s \in Seq(Kinds) /\ Len(s) \in Nat /\ sp = B + Len(s)
      /\ ReliesOn(prog, MethodAt(prog, ip), Op, Shape(prog)[ip])
      /\ sp <= StackSize + Slack /\ StackSize \in Nat /\ Slack \in Nat
  BY <1>1, <1>2, BaseFacts DEF Runs
<1>4. PICK e : e = Effect(Op, s)
  OBVIOUS
<1>5. /\ Len(e) \in Nat /\ Len(e) <= Len(s) /\ sp' = B + Len(e)
      /\ \A j \in 1..Len(e) : e[j] = s[j]
  <2>1. CASE o = "JU"
    BY <1>3, <1>4, <2>1 DEF Effect, Runs
  <2>2. CASE o # "JU"
    <3>1. Takes(Op) = 1 /\ Effect(Op, s) = Without(s, Takes(Op))
      BY <2>2 DEF Effect, Takes, Runs
    <3>2. 1 <= Len(s)
      BY <1>1, <1>3, <3>1 DEF ReliesOn
    <3>3. e = Without(s, 1)
      BY <1>4, <3>1
    <3>4. Len(e) = Len(s) - 1 /\ \A j \in 1..(Len(s) - 1) : e[j] = s[j]
      BY <1>3, <3>2, <3>3, Fewer
    <3> QED
      BY <1>3, <2>2, <3>2, <3>4
  <2> QED
    BY <2>1, <2>2
<1>6. sp' <= StackSize + Slack
  <2>1. PICK n \in Nat : n = Len(e)
    BY <1>5
  <2>2. PICK y \in Nat : y = Len(s)
    BY <1>3
  <2> QED
    BY <1>3, <1>5, <2>1, <2>2
<1>7. \A j \in (Len(e) + 1)..Len(e) : FALSE
  BY <1>5
<1>8. status = Running /\ Op.op # "ST_EXINFO"
  BY DEF Runs
<1> QED
  BY <1>1, <1>2, <1>4, <1>5, <1>6, <1>7, <1>8, Operates

\* The last operands, one or two, become one value.
LEMMA ReplaceStep ==
  ASSUME IInv, NEW o \in {"DR", "BOP", "UNM", "NOT", "CALL"}, Runs(o), NEW v,
         prog' = prog, ap' = ap, fp' = fp, status' = status, exobj' = exobj,
         ip' = ip + 1,
         stack' = Put(sp - Takes(Op), <<v>>),
         sp' = sp - Takes(Op) + 1
  PROVE  IInv' /\ Untouched
<1>1. PICK s : s = Shape(prog)[ip].ops
  OBVIOUS
<1>2. PICK B \in Nat : B = Base
  BY BaseFacts DEF Runs
<1>3. /\ s \in Seq(Kinds) /\ Len(s) \in Nat /\ sp = B + Len(s)
      /\ ReliesOn(prog, MethodAt(prog, ip), Op, Shape(prog)[ip])
      /\ sp <= StackSize + Slack /\ StackSize \in Nat /\ Slack \in Nat
      /\ DOMAIN stack = 0..(StackSize + Slack - 1)
  BY <1>1, <1>2, BaseFacts DEF Runs
<1>4. /\ Takes(Op) \in {1, 2} /\ Effect(Op, s) = Without(s, Takes(Op)) \o <<"value">>
      /\ Successors(Op, ip) = {ip + 1} /\ Op.op # "ST_EXINFO" /\ status = Running
  BY DEF Effect, Takes, Runs, Successors
<1>5. PICK d \in Nat : d = Takes(Op) /\ (d = 1 \/ d = 2)
  BY <1>4
<1>6. d <= Len(s)
  <2>1. Takes(Op) <= Len(Shape(prog)[ip].ops)
    BY <1>3 DEF ReliesOn
  <2> QED
    BY <1>1, <1>5, <2>1
<1>7. PICK n \in Nat : n = Len(s) - d
  <2>1. Len(s) - d \in Nat
    <3>1. PICK y \in Nat : y = Len(s)
      BY <1>3
    <3>2. d <= y
      BY <1>6, <3>1
    <3> QED
      BY <3>1, <3>2
  <2> QED
    BY <2>1
<1>8. /\ Without(s, d) \in Seq(Kinds) /\ Len(Without(s, d)) = n
      /\ \A j \in 1..n : Without(s, d)[j] = s[j]
  BY <1>3, <1>6, <1>7, Fewer
<1>9. PICK e : e = Effect(Op, s)
  OBVIOUS
<1>10. Len(e) = n + 1 /\ (\A j \in 1..n : e[j] = s[j]) /\ e[n + 1] = "value"
  <2>1. e = Without(s, d) \o <<"value">>
    BY <1>4, <1>5, <1>9
  <2>2. PICK u \in Seq(Kinds) : u = Without(s, d)
    BY <1>8
  <2>3. /\ Len(u \o <<"value">>) = Len(u) + 1
        /\ \A j \in 1..Len(u) : (u \o <<"value">>)[j] = u[j]
        /\ (u \o <<"value">>)[Len(u) + 1] = "value"
    BY OneMore DEF Kinds
  <2> QED
    BY <1>8, <2>1, <2>2, <2>3
<1>11. sp - d = B + n /\ sp' = B + n + 1 /\ B + n + 1 <= StackSize + Slack
  <2>1. PICK y \in Nat : y = Len(s)
    BY <1>3
  <2>2. y = n + d /\ sp = B + y
    BY <1>3, <1>7, <2>1
  <2>3. sp = B + n + d /\ sp - d = B + n /\ sp - d + 1 = B + n + 1
    <3>1. PICK z \in Nat : z = B + n + d
      OBVIOUS
    <3>2. z - d = B + n /\ z - d + 1 = B + n + 1
      BY <3>1
    <3>3. sp = z
      BY <2>2, <3>1
    <3> QED
      BY <3>1, <3>2, <3>3
  <2>4. B + n + 1 <= StackSize + Slack
    <3>1. PICK z \in Nat : z = StackSize + Slack
      BY <1>3
    <3>2. B + n + d <= z
      BY <1>3, <2>3, <3>1
    <3>3. B + n + 1 <= z
      BY <1>5, <3>2
    <3> QED
      BY <3>1, <3>3
  <2> QED
    BY <1>5, <2>3, <2>4
<1>12. stack' = [c \in DOMAIN stack |-> IF c = B + n THEN v ELSE stack[c]]
  BY <1>5, <1>11, PutOne
<1>13. \A c \in 0..(B + n - 1) : c \in DOMAIN stack /\ c # B + n
  BY <1>3, <1>11
<1>14. /\ DOMAIN stack' = DOMAIN stack
       /\ \A c \in 0..(B + n - 1) : stack'[c] = stack[c]
  BY <1>12, <1>13
<1>15. \A j \in (n + 1)..Len(e) : e[j] # "address"
  BY <1>10
<1>16. n <= Len(s) /\ n <= Len(e) /\ Len(e) \in Nat /\ sp' = B + Len(e) /\ sp' <= StackSize + Slack
  <2>1. n <= Len(s)
    <3>1. PICK y \in Nat : y = Len(s)
      BY <1>3
    <3> QED
      BY <1>7, <3>1
  <2> QED
    BY <1>10, <1>11, <2>1
<1> QED
  BY <1>1, <1>2, <1>4, <1>9, <1>10, <1>14, <1>15, <1>16, Operates

\* Two values are pushed: the variable's object and its address, or a pair again.
LEMMA TwoStep ==
  ASSUME IInv, NEW o \in {"LABI_LOC", "DUP"}, Runs(o), NEW v, NEW w,
         NEW kv \in Kinds, NEW kw \in Kinds,
         Effect(Op, Shape(prog)[ip].ops) = Shape(prog)[ip].ops \o <<kv, kw>>,
         kv = "address" => v \in LocalCells(Current, MethodAt(prog, ip)),
         kw = "address" => w \in LocalCells(Current, MethodAt(prog, ip)),
         prog' = prog, ap' = ap, fp' = fp, status' = status, exobj' = exobj,
         ip' = ip + 1, stack' = Put(sp, <<v, w>>), sp' = sp + 2
  PROVE  IInv' /\ Untouched
<1>1. PICK s : s = Shape(prog)[ip].ops
  OBVIOUS
<1>2. PICK B \in Nat : B = Base
  BY BaseFacts DEF Runs
<1>3. /\ s \in Seq(Kinds) /\ Len(s) \in Nat /\ sp = B + Len(s)
      /\ DOMAIN stack = 0..(StackSize + Slack - 1) /\ StackSize \in Nat /\ Slack \in Nat
  BY <1>1, <1>2, BaseFacts DEF Runs
<1>4. PICK n \in Nat : n = Len(s)
  BY <1>3
<1>5. PICK e : e = s \o <<kv, kw>>
  OBVIOUS
<1>6. Len(e) = n + 2 /\ (\A j \in 1..n : e[j] = s[j]) /\ e[n + 1] = kv /\ e[n + 2] = kw
  BY <1>3, <1>4, <1>5, TwoMore
<1>7. B + n + 2 <= StackSize
  <2>1. Pushes = 2
    BY DEF Runs, Pushes
  <2> QED
    BY <1>3, <1>4, <2>1 DEF Runs, Fits
<1>8. stack' = [c \in DOMAIN stack |-> IF c = B + n THEN v ELSE IF c = B + n + 1 THEN w ELSE stack[c]]
  <2>1. sp = B + n /\ sp \in Int
    BY <1>3, <1>4
  <2>2. stack' = [c \in DOMAIN stack |-> IF c = sp THEN v ELSE IF c = sp + 1 THEN w ELSE stack[c]]
    BY <2>1, PutTwo
  <2> QED
    BY <2>1, <2>2
<1>9. /\ \A c \in 0..(B + n - 1) : c \in DOMAIN stack /\ c # B + n /\ c # B + n + 1
      /\ B + n \in DOMAIN stack /\ B + n + 1 \in DOMAIN stack /\ B + n # B + n + 1
  BY <1>3, <1>7
<1>10. /\ DOMAIN stack' = DOMAIN stack
       /\ \A c \in 0..(B + n - 1) : stack'[c] = stack[c]
       /\ stack'[B + n] = v /\ stack'[B + n + 1] = w
  BY <1>8, <1>9
<1>11. ASSUME NEW j \in (n + 1)..Len(e), e[j] = "address"
       PROVE  stack'[B + j - 1] \in LocalCells(Current, MethodAt(prog, ip))
  <2>1. j = n + 1 \/ j = n + 2
    BY <1>6
  <2>2. CASE j = n + 1
    <3>1. B + j - 1 = B + n
      BY <2>2
    <3> QED
      BY <1>6, <1>10, <1>11, <2>2, <3>1
  <2>3. CASE j = n + 2
    <3>1. B + j - 1 = B + n + 1
      BY <2>3
    <3> QED
      BY <1>6, <1>10, <1>11, <2>3, <3>1
  <2> QED
    BY <2>1, <2>2, <2>3
<1>12. n <= Len(s) /\ n <= Len(e) /\ Len(e) \in Nat /\ sp' = B + Len(e) /\ sp' <= StackSize + Slack
  <2>1. sp' = B + n + 2 /\ Len(e) = n + 2
    BY <1>3, <1>4, <1>6
  <2> QED
    BY <1>3, <1>4, <1>7, <2>1
<1>13. Successors(Op, ip) = {ip + 1} /\ Op.op # "ST_EXINFO" /\ status = Running
  BY DEF Successors, Runs
<1> QED
  BY <1>1, <1>2, <1>5, <1>6, <1>10, <1>11, <1>12, <1>13, Operates

LEMMA LABI_LOCStep == ASSUME IInv, LABI_LOC PROVE IInv' /\ Untouched
<1>1. Runs("LABI_LOC")
  BY DEF LABI_LOC
<1>2. Effect(Op, Shape(prog)[ip].ops) = Shape(prog)[ip].ops \o <<"value", "address">>
  BY <1>1 DEF Runs, Effect
<1>3. Op.x \in 0..(prog.locals[MethodAt(prog, ip)] - 1)
  BY <1>1, BaseFacts DEF Runs, ReliesOn
<1>4. LOCaddr(Op.x) \in LocalCells(Current, MethodAt(prog, ip))
  <2>1. PICK k \in Nat : k = prog.locals[MethodAt(prog, ip)]
    BY <1>1, CurrentFacts DEF Runs
  <2>2. PICK x : x = Op.x
    OBVIOUS
  <2>3. PICK f \in Nat : f = fp
    BY <1>1, BaseFacts DEF Runs
  <2>4. x \in 0..(k - 1)
    BY <1>3, <2>1, <2>2
  <2>5. f + x + 1 \in (f + 1)..(f + k)
    BY <2>4
  <2> QED
    BY <2>1, <2>2, <2>3, <2>5 DEF LOCaddr, LocalCells, Current, At
<1>5. "value" \in Kinds /\ "address" \in Kinds /\ "value" # "address"
  BY DEF Kinds
<1> QED
  BY <1>1, <1>2, <1>4, <1>5, TwoStep DEF LABI_LOC

LEMMA DUPStep == ASSUME IInv, DUP PROVE IInv' /\ Untouched
<1>1. Runs("DUP")
  BY DEF DUP
<1>2. PICK s : s = Shape(prog)[ip].ops
  OBVIOUS
<1>3. PICK B \in Nat : B = Base
  BY <1>1, BaseFacts DEF Runs
<1>4. s \in Seq(Kinds) /\ Len(s) \in Nat /\ sp = B + Len(s) /\ Addresses(s, B)
  BY <1>1, <1>2, <1>3, BaseFacts DEF Runs
<1>5. PICK n \in Nat : n = Len(s)
  BY <1>4
<1>6. 2 <= n
  <2>1. Takes(Op) = 2
    BY <1>1 DEF Takes, Runs
  <2>2. Takes(Op) <= Len(Shape(prog)[ip].ops)
    BY <1>1, BaseFacts DEF Runs, ReliesOn
  <2> QED
    BY <1>2, <1>5, <2>1, <2>2
<1>7. Effect(Op, s) = s \o <<s[n - 1], s[n]>>
  BY <1>1, <1>5 DEF Runs, Effect
<1>8. n - 1 \in 1..Len(s) /\ n \in 1..Len(s)
  BY <1>5, <1>6
<1>9. s[n - 1] \in Kinds /\ s[n] \in Kinds
  BY <1>4, <1>8, ElementOfSeq
<1>10. sp - 2 = B + (n - 1) - 1 /\ sp - 1 = B + n - 1
  BY <1>4, <1>5
<1>11. /\ s[n - 1] = "address" => stack[sp - 2] \in LocalCells(Current, MethodAt(prog, ip))
       /\ s[n] = "address" => Top \in LocalCells(Current, MethodAt(prog, ip))
  BY <1>4, <1>8, <1>10 DEF Addresses, Top
<1> QED
  BY <1>1, <1>2, <1>7, <1>9, <1>11, TwoStep DEF DUP

\* The store goes to a local variable of the frame.
LEMMA STStep == ASSUME IInv, ST PROVE IInv' /\ Untouched
<1>1. Runs("ST") /\ status = Running /\ Op.op = "ST"
  BY DEF ST, Runs
<1>2. PICK s : s = Shape(prog)[ip].ops
  OBVIOUS
<1>3. PICK B \in Nat : B = Base
  BY <1>1, BaseFacts
<1>4. PICK k : k = prog.locals[MethodAt(prog, ip)]
  OBVIOUS
<1>5. /\ s \in Seq(Kinds) /\ Len(s) \in Nat /\ sp = B + Len(s) /\ Addresses(s, B)
      /\ fp \in Nat /\ k \in Nat /\ fp + k < B
      /\ ReliesOn(prog, MethodAt(prog, ip), Op, Shape(prog)[ip])
      /\ DOMAIN stack = 0..(StackSize + Slack - 1) /\ StackSize \in Nat /\ Slack \in Nat
      /\ sp <= StackSize + Slack
  BY <1>1, <1>2, <1>3, <1>4, BaseFacts, CurrentFacts
<1>6. PICK n \in Nat : n = Len(s)
  BY <1>5
<1>7. Takes(Op) = 3 /\ Effect(Op, s) = Without(s, Takes(Op)) /\ Successors(Op, ip) = {ip + 1}
  BY <1>1 DEF Takes, Effect, Successors
<1>8. 3 <= n /\ s[n - 1] = "address"
  BY <1>1, <1>2, <1>5, <1>6, <1>7 DEF ReliesOn
<1>9. PICK a : a = stack[sp - 2]
  OBVIOUS
<1>10. PICK f \in Nat : f = fp
  BY <1>5
<1>11. a \in (f + 1)..(f + k)
  <2>1. n - 1 \in 1..Len(s) /\ sp - 2 = B + (n - 1) - 1
    BY <1>5, <1>6, <1>8
  <2>2. a \in LocalCells(Current, MethodAt(prog, ip))
    BY <1>5, <1>8, <1>9, <2>1 DEF Addresses
  <2> QED
    BY <1>4, <1>10, <2>2 DEF LocalCells, Current, At
<1>12. stack' = [c \in DOMAIN stack |-> IF c = a THEN Top ELSE stack[c]]
  <2>1. a \in Int
    BY <1>11, <1>5
  <2> QED
    BY <1>9, <2>1, PutOne DEF ST
<1>13. B + n <= StackSize + Slack /\ f + k < B
  BY <1>5, <1>6, <1>10
<1>14. \A c \in 0..f : c \in DOMAIN stack /\ c # a
  BY <1>5, <1>11, <1>13
<1>15. stack'[fp] = stack[fp] /\ \A c \in 0..(fp - 1) : stack'[c] = stack[c]
  BY <1>10, <1>12, <1>14
<1>16. PICK e : e = Without(s, 3)
  OBVIOUS
<1>17. Len(e) = n - 3 /\ \A j \in 1..(n - 3) : e[j] = s[j]
  <2>1. 3 \in Nat /\ 3 <= Len(s)
    BY <1>6, <1>8
  <2>2. Len(Without(s, 3)) = Len(s) - 3 /\ \A j \in 1..(Len(s) - 3) : Without(s, 3)[j] = s[j]
    BY <1>5, <2>1, Fewer
  <2> QED
    BY <1>6, <1>16, <2>2
<1>18. ASSUME NEW j \in 1..Len(e), e[j] = "address"
       PROVE  stack'[Base + j - 1] \in LocalCells(Current, MethodAt(prog, ip))
  <2>1. j \in 1..(n - 3) /\ j \in 1..Len(s)
    BY <1>6, <1>8, <1>17
  <2>2. stack[B + j - 1] \in LocalCells(Current, MethodAt(prog, ip))
    BY <1>5, <1>17, <1>18, <2>1 DEF Addresses
  <2>3. B + j - 1 \in DOMAIN stack /\ B + j - 1 # a
    BY <1>5, <1>11, <1>13, <2>1
  <2> QED
    BY <1>3, <1>12, <2>2, <2>3
<1>19. Len(e) \in Nat /\ sp' = Base + Len(e) /\ sp' <= StackSize + Slack
  <2>1. sp' = B + n - 3
    BY <1>5, <1>6 DEF ST
  <2> QED
    BY <1>3, <1>5, <1>8, <1>13, <1>17, <2>1
<1>20. DOMAIN stack' = DOMAIN stack
  BY <1>12
<1>21. /\ prog' = prog /\ ap' = ap /\ fp' = fp /\ status' = status /\ exobj' = exobj
       /\ ip' \in Successors(Op, ip)
  BY <1>7 DEF ST
<1> QED
  BY <1>1, <1>2, <1>7, <1>15, <1>16, <1>18, <1>19, <1>20, <1>21, Straight

\* The cell of the exception info gets that of the method.
LEMMA ST_EXINFOStep == ASSUME IInv, ST_EXINFO PROVE IInv' /\ Untouched
<1>1. Runs("ST_EXINFO") /\ status = Running /\ Op.op = "ST_EXINFO"
  BY DEF ST_EXINFO, Runs
<1>2. PICK s : s = Shape(prog)[ip].ops
  OBVIOUS
<1>3. PICK B \in Nat : B = Base
  BY <1>1, BaseFacts
<1>4. /\ s \in Seq(Kinds) /\ Len(s) \in Nat /\ sp = B + Len(s) /\ Addresses(s, B)
      /\ fp \in Nat /\ fp < B
      /\ ReliesOn(prog, MethodAt(prog, ip), Op, Shape(prog)[ip])
      /\ DOMAIN stack = 0..(StackSize + Slack - 1) /\ StackSize \in Nat /\ Slack \in Nat
      /\ sp <= StackSize + Slack
  BY <1>1, <1>2, <1>3, BaseFacts
<1>5. Effect(Op, s) = s /\ Successors(Op, ip) = {ip + 1} /\ Op.x = MethodAt(prog, ip)
  BY <1>1, <1>4 DEF Effect, Successors, ReliesOn
<1>6. PICK f \in Nat : f = fp
  BY <1>4
<1>7. stack' = [c \in DOMAIN stack |-> IF c = f THEN ExInfo[MethodAt(prog, ip)] ELSE stack[c]]
  BY <1>5, <1>6, PutOne DEF ST_EXINFO
<1>8. PICK n \in Nat : n = Len(s)
  BY <1>4
<1>9. B + n <= StackSize + Slack /\ f < B
  BY <1>4, <1>6, <1>8
<1>10. f \in DOMAIN stack /\ \A c \in 0..(f - 1) : c \in DOMAIN stack /\ c # f
  BY <1>4, <1>9
<1>11. /\ stack'[fp] = ExInfo[MethodAt(prog, ip)] /\ \A c \in 0..(fp - 1) : stack'[c] = stack[c]
       /\ DOMAIN stack' = DOMAIN stack
  BY <1>6, <1>7, <1>10
<1>12. ASSUME NEW j \in 1..Len(s), s[j] = "address"
       PROVE  stack'[Base + j - 1] \in LocalCells(Current, MethodAt(prog, ip))
  <2>1. stack[B + j - 1] \in LocalCells(Current, MethodAt(prog, ip))
    BY <1>4, <1>12 DEF Addresses
  <2>2. B + j - 1 \in DOMAIN stack /\ B + j - 1 # f
    BY <1>4, <1>8, <1>9
  <2> QED
    BY <1>3, <1>7, <2>1, <2>2
<1>13. /\ prog' = prog /\ ap' = ap /\ fp' = fp /\ sp' = sp /\ status' = status /\ exobj' = exobj
       /\ ip' \in Successors(Op, ip)
  BY <1>5 DEF ST_EXINFO
<1>14. sp' = Base + Len(s) /\ sp' <= StackSize + Slack
  BY <1>3, <1>4, <1>13
<1>15. s = Effect(Op, Shape(prog)[ip].ops)
  BY <1>2, <1>5
<1> QED
  BY <1>1, <1>4, <1>11, <1>12, <1>13, <1>14, <1>15, Straight

\* Operands and jumps.
LEMMA PlainStep ==
  ASSUME IInv,
         LVBI_C \/ LVBI_ARG \/ LVBI_LOC \/ LD_EXOBJ \/ POP \/ WRT \/ DR \/ BOP \/ UNM \/ NOT
           \/ JU \/ IFNJ
  PROVE  IInv' /\ Untouched
<1>1. CASE LVBI_C
  BY <1>1, PushedStep DEF LVBI_C
<1>2. CASE LVBI_ARG
  BY <1>2, PushedStep DEF LVBI_ARG
<1>3. CASE LVBI_LOC
  BY <1>3, PushedStep DEF LVBI_LOC
<1>4. CASE LD_EXOBJ
  BY <1>4, PushedStep DEF LD_EXOBJ
<1>5. CASE POP
  <2>1. Runs("POP") /\ ip' \in Successors(Op, ip)
    BY <1>5 DEF POP, Runs, Successors
  <2> QED
    BY <1>5, <2>1, DropStep DEF POP
<1>6. CASE WRT
  <2>1. Runs("WRT") /\ ip' \in Successors(Op, ip)
    BY <1>6 DEF WRT, Runs, Successors
  <2> QED
    BY <1>6, <2>1, DropStep DEF WRT
<1>7. CASE JU
  <2>1. Runs("JU") /\ ip' \in Successors(Op, ip)
    BY <1>7 DEF JU, Runs, Successors
  <2> QED
    BY <1>7, <2>1, DropStep DEF JU
<1>8. CASE IFNJ
  <2>1. Runs("IFNJ") /\ ip' \in Successors(Op, ip)
    BY <1>8 DEF IFNJ, Runs, Successors
  <2> QED
    BY <1>8, <2>1, DropStep DEF IFNJ
<1>9. ASSUME status = Running PROVE sp - 2 + 1 = sp - 1 /\ sp - 1 + 1 = sp
  <2>1. sp \in Nat
    BY <1>9, BaseFacts
  <2> QED
    BY <2>1
<1>10. CASE DR
  <2>1. Runs("DR") /\ Takes(Op) = 2 /\ status = Running
    BY <1>10 DEF DR, Runs, Takes
  <2> QED
    BY <1>9, <1>10, <2>1, ReplaceStep DEF DR
<1>11. CASE BOP
  <2>1. Runs("BOP") /\ Takes(Op) = 2 /\ status = Running
    BY <1>11 DEF BOP, Runs, Takes
  <2> QED
    BY <1>9, <1>11, <2>1, ReplaceStep DEF BOP
<1>12. CASE UNM
  <2>1. Runs("UNM") /\ Takes(Op) = 1 /\ status = Running
    BY <1>12 DEF UNM, Runs, Takes
  <2> QED
    BY <1>9, <1>12, <2>1, ReplaceStep DEF UNM
<1>13. CASE NOT
  <2>1. Runs("NOT") /\ Takes(Op) = 1 /\ status = Running
    BY <1>13 DEF NOT, Runs, Takes
  <2> QED
    BY <1>9, <1>13, <2>1, ReplaceStep DEF NOT
<1> QED
  BY <1>1, <1>2, <1>3, <1>4, <1>5, <1>6, <1>7, <1>8, <1>10, <1>11, <1>12, <1>13

\* A native method that returns its argument leaves everything as it is.
LEMMA NativeStays == ASSUME IInv, NativeReturn, ~TailCall PROVE IInv' /\ Untouched
<1>1. /\ Runs("CALL") /\ status = Running /\ Op.op = "CALL"
      /\ ip' = ip + 1 /\ stack' = stack /\ sp' = sp /\ ap' = ap /\ fp' = fp /\ status' = status
      /\ prog' = prog /\ exobj' = exobj
  BY DEF NativeReturn, Runs
<1>2. PICK s : s = Shape(prog)[ip].ops
  OBVIOUS
<1>3. PICK B \in Nat : B = Base
  BY <1>1, BaseFacts
<1>4. /\ s \in Seq(Kinds) /\ Len(s) \in Nat /\ sp = B + Len(s) /\ sp <= StackSize + Slack
      /\ ReliesOn(prog, MethodAt(prog, ip), Op, Shape(prog)[ip])
  BY <1>1, <1>2, <1>3, BaseFacts
<1>5. /\ Takes(Op) = 1 /\ Effect(Op, s) = Without(s, Takes(Op)) \o <<"value">>
      /\ Successors(Op, ip) = {ip + 1}
  BY <1>1 DEF Takes, Effect, Successors
<1>6. 1 <= Len(s)
  BY <1>2, <1>4, <1>5 DEF ReliesOn
<1>7. PICK n \in Nat : n = Len(s) - 1
  <2>1. PICK y \in Nat : y = Len(s)
    BY <1>4
  <2>2. y - 1 \in Nat
    BY <1>6, <2>1
  <2> QED
    BY <2>1, <2>2
<1>8. PICK u \in Seq(Kinds) : u = Without(s, 1) /\ Len(u) = n /\ \A j \in 1..n : u[j] = s[j]
  BY <1>4, <1>6, <1>7, Fewer
<1>9. PICK e : e = u \o <<"value">>
  OBVIOUS
<1>10. Len(e) = n + 1 /\ (\A j \in 1..n : e[j] = s[j]) /\ e[n + 1] = "value"
  <2>1. /\ Len(u \o <<"value">>) = Len(u) + 1
        /\ \A j \in 1..Len(u) : (u \o <<"value">>)[j] = u[j]
        /\ (u \o <<"value">>)[Len(u) + 1] = "value"
    BY OneMore DEF Kinds
  <2> QED
    BY <1>8, <1>9, <2>1
<1>11. Len(s) = n + 1
  BY <1>4, <1>7
<1>12. sp' = Base + Len(e) /\ Len(e) \in Nat /\ n <= Len(s) /\ n <= Len(e)
  BY <1>1, <1>3, <1>4, <1>10, <1>11
<1>13. \A j \in (n + 1)..Len(e) : e[j] # "address"
  BY <1>10
<1>14. e = Effect(Op, Shape(prog)[ip].ops)
  BY <1>2, <1>5, <1>8, <1>9
<1>15. ip' \in Successors(Op, ip)
  BY <1>1, <1>5
<1>16. n <= Len(Shape(prog)[ip].ops) /\ \A j \in 1..n : e[j] = Shape(prog)[ip].ops[j]
  BY <1>2, <1>10, <1>12
<1> QED
  BY <1>1, <1>4, <1>12, <1>13, <1>14, <1>15, <1>16, Operates

\* The program ends.
LEMMA EndStep ==
  ASSUME IInv, prog' = prog, DOMAIN stack' = DOMAIN stack, DOMAIN exobj' = DOMAIN exobj,
         ap' \in Nat, fp' \in Nat, sp' \in Nat, sp' <= StackSize + Slack,
         NEW how \in {"error", "overflow", "wild", "return", "throw"}, NEW v,
         status' = Ended(how, v)
  PROVE  IInv'
<1>1. status'.end # "run" /\ status' # Running
  BY DEF Ended, Running
<1> QED
  BY <1>1 DEF IInv, InMemory

---------------------------------------------------------------------------
(* Calls.                                                                  *)

\* A method begins, or a catch block.
LEMMA Entered ==
  ASSUME prog \in Checked, prog' = prog, NEW m \in DOMAIN prog.entry,
         ip' \in Nat, Begins(prog, Shape(prog), ip', m),
         Shape(prog)[ip'].info => stack'[fp'] = ExInfo[m],
         fp' = ap' + 5, fp' \in Nat, sp' \in Nat, fp' + prog.locals[m] < sp',
         stack'[fp' - 4] = THISCLS, stack'[fp'] \in {NULL, ExInfo[m]}
  PROVE  Executing' /\ Unwound(Current)' = At(stack'[fp' - 2], stack'[fp' - 1], ap', stack'[fp' - 3])
<1>1. PICK i \in Nat : i = ip'
  OBVIOUS
<1>2. i + 1 # NATIVE
  BY DEF NATIVE
<1>3. Unwound(Current)' = At(stack'[fp' - 2], stack'[fp' - 1], ap', stack'[fp' - 3])
  BY <1>1, <1>2 DEF Unwound, Current, At
<1>4. PICK t : t = Shape(prog)[i]
  OBVIOUS
<1>5. i \in DOMAIN Shape(prog) /\ MethodAt(prog, i) = m /\ t.ops = <<>>
  BY <1>1, <1>4 DEF Begins
<1>6. fp' + prog.locals[m] + Len(<<>>) < sp'
  <2>1. PICK k \in Nat : k = prog.locals[m]
    BY MethodFacts
  <2>2. Len(<<>>) = 0
    BY EmptySeq
  <2> QED
    BY <2>1, <2>2
<1>7. FrameOK(Current, m)'
  BY DEF FrameOK, Current, At
<1>8. Carries(Current, m, <<>>)'
  <2>1. 1..Len(<<>>) = {}
    BY EmptySeq
  <2> QED
    BY <1>6, <1>7, <2>1 DEF Carries, Current, At
<1>9. Shaped(Current, m, t)'
  BY <1>1, <1>4 DEF Shaped, Current, At
<1>10. Executing'
  BY <1>1, <1>4, <1>5, <1>8, <1>9 DEF Executing
<1> QED
  BY <1>3, <1>10

\* What a call and a tail call write.
LEMMA Joined ==
  ASSUME NEW K, NEW a \in Seq(K), NEW b \in Seq(K)
  PROVE  /\ a \o b \in Seq(K) /\ Len(a \o b) = Len(a) + Len(b)
         /\ \A i \in 1..Len(a) : (a \o b)[i] = a[i]
         /\ \A i \in 1..Len(b) : (a \o b)[Len(a) + i] = b[i]
<1>1. /\ a \o b \in Seq(K) /\ Len(a \o b) = Len(a) + Len(b)
      /\ \A i \in 1..(Len(a) + Len(b)) : (a \o b)[i] = IF i <= Len(a) THEN a[i] ELSE b[i - Len(a)]
  BY ConcatProperties
<1>2. PICK p \in Nat : p = Len(a)
  BY LenProperties
<1>3. PICK q \in Nat : q = Len(b)
  BY LenProperties
<1>4. \A i \in 1..(p + q) : (a \o b)[i] = IF i <= p THEN a[i] ELSE b[i - p]
  BY <1>1, <1>2, <1>3
<1>5. ASSUME NEW i \in 1..p PROVE (a \o b)[i] = a[i]
  <2>1. i \in 1..(p + q) /\ i <= p
    OBVIOUS
  <2> QED
    BY <1>4, <2>1
<1>6. ASSUME NEW i \in 1..q PROVE (a \o b)[p + i] = b[i]
  <2>1. PICK x \in Nat : x = p + i
    OBVIOUS
  <2>2. x \in 1..(p + q) /\ ~(x <= p) /\ x - p = i
    BY <2>1
  <2>3. (a \o b)[x] = b[x - p]
    BY <1>4, <2>2
  <2> QED
    BY <2>1, <2>2, <2>3
<1> QED
  BY <1>1, <1>2, <1>3, <1>5, <1>6

\* k cells of NULL.
LEMMA Nulls ==
  ASSUME NEW K, NULL \in K, NEW k \in Nat
  PROVE  [i \in 1..k |-> NULL] \in Seq(K) /\ Len([i \in 1..k |-> NULL]) = k
<1>1. PICK b : b = [i \in 1..k |-> NULL]
  OBVIOUS
<1>2. b \in [1..k -> K] /\ DOMAIN b = 1..k
  BY <1>1
<1>3. b \in Seq(K)
  BY <1>2, SeqDef
<1>4. PICK n \in Nat : n = Len(b)
  BY <1>3, LenProperties
<1>5. 1..n = 1..k
  BY <1>2, <1>3, <1>4, LenProperties
<1>6. n = k
  BY <1>5
<1> QED
  BY <1>1, <1>3, <1>4, <1>6

LEMMA FrameCells ==
  ASSUME NEW t, NEW r, NEW k \in Nat
  PROVE  LET s == <<t>> \o FrameTail(r, k)
         IN Len(s) = 5 + k /\ s[1] = t /\ s[2] = r /\ s[3] = ap /\ s[4] = fp /\ s[5] = NULL
<1>1. PICK K : K = {t, r, ap, fp, NULL}
  OBVIOUS
<1>2. PICK a : a = <<r, ap, fp, NULL>>
  OBVIOUS
<1>3. a \in Seq(K) /\ Len(a) = 4 /\ a[1] = r /\ a[2] = ap /\ a[3] = fp /\ a[4] = NULL
  BY <1>1, <1>2
<1>4. PICK b \in Seq(K) : b = [i \in 1..k |-> NULL] /\ Len(b) = k
  BY <1>1, Nulls
<1>5. PICK h \in Seq(K) : h = <<t>> /\ Len(h) = 1 /\ h[1] = t
  <2>1. t \in K
    BY <1>1
  <2>2. <<t>> \in Seq(K) /\ Len(<<t>>) = 1 /\ <<t>>[1] = t
    BY <2>1
  <2> QED
    BY <2>2
<1>6. PICK c \in Seq(K) : c = a \o b /\ Len(c) = 4 + k /\ \A i \in 1..4 : c[i] = a[i]
  <2>1. /\ a \o b \in Seq(K) /\ Len(a \o b) = Len(a) + Len(b)
        /\ \A i \in 1..Len(a) : (a \o b)[i] = a[i]
    <3>1. a \in Seq(K)
      BY <1>3
    <3> QED
      BY <3>1, Joined
  <2> QED
    BY <1>3, <1>4, <2>1
<1>7. c[1] = r /\ c[2] = ap /\ c[3] = fp /\ c[4] = NULL
  <2>1. 1 \in 1..4 /\ 2 \in 1..4 /\ 3 \in 1..4 /\ 4 \in 1..4
    OBVIOUS
  <2> QED
    BY <1>3, <1>6, <2>1
<1>8. PICK q \in Nat : q = 4 + k
  OBVIOUS
<1>9. /\ Len(h \o c) = 1 + q
      /\ \A i \in 1..1 : (h \o c)[i] = h[i]
      /\ \A i \in 1..q : (h \o c)[1 + i] = c[i]
  <2>1. /\ Len(h \o c) = Len(h) + Len(c)
        /\ \A i \in 1..Len(h) : (h \o c)[i] = h[i]
        /\ \A i \in 1..Len(c) : (h \o c)[Len(h) + i] = c[i]
    BY Joined
  <2> QED
    BY <1>5, <1>6, <1>8, <2>1
<1>10. /\ (h \o c)[1] = t /\ (h \o c)[2] = r /\ (h \o c)[3] = ap /\ (h \o c)[4] = fp
       /\ (h \o c)[5] = NULL
  <2>1. /\ 1 \in 1..1 /\ 1 \in 1..q /\ 2 \in 1..q /\ 3 \in 1..q /\ 4 \in 1..q
    BY <1>8
  <2>2. /\ (h \o c)[1] = h[1] /\ (h \o c)[1 + 1] = c[1] /\ (h \o c)[1 + 2] = c[2]
        /\ (h \o c)[1 + 3] = c[3] /\ (h \o c)[1 + 4] = c[4]
    BY <1>9, <2>1
  <2>3. 1 + 1 = 2 /\ 1 + 2 = 3 /\ 1 + 3 = 4 /\ 1 + 4 = 5
    OBVIOUS
  <2> QED
    BY <1>5, <1>7, <2>2, <2>3
<1>11. <<t>> \o FrameTail(r, k) = h \o c
  BY <1>2, <1>4, <1>5, <1>6 DEF FrameTail
<1>12. Len(h \o c) = 5 + k
  BY <1>8, <1>9
<1> QED
  BY <1>10, <1>11, <1>12

LEMMA ReusedCells ==
  ASSUME NEW t1, NEW t2, NEW t3, NEW t4, NEW t5, NEW k \in Nat
  PROVE  LET s == <<t1, t2, t3, t4, t5, NULL>> \o [i \in 1..k |-> NULL]
         IN /\ Len(s) = 6 + k /\ s[1] = t1 /\ s[2] = t2 /\ s[3] = t3 /\ s[4] = t4 /\ s[5] = t5
            /\ s[6] = NULL
<1>1. PICK K : K = {t1, t2, t3, t4, t5, NULL}
  OBVIOUS
<1>2. PICK a : a = <<t1, t2, t3, t4, t5, NULL>>
  OBVIOUS
<1>3. /\ a \in Seq(K) /\ Len(a) = 6
      /\ a[1] = t1 /\ a[2] = t2 /\ a[3] = t3 /\ a[4] = t4 /\ a[5] = t5 /\ a[6] = NULL
  BY <1>1, <1>2
<1>4. PICK b \in Seq(K) : b = [i \in 1..k |-> NULL] /\ Len(b) = k
  BY <1>1, Nulls
<1>5. PICK c : c = a \o b /\ Len(c) = 6 + k /\ \A i \in 1..6 : c[i] = a[i]
  <2>1. Len(a \o b) = Len(a) + Len(b) /\ \A i \in 1..Len(a) : (a \o b)[i] = a[i]
    <3>1. a \in Seq(K)
      BY <1>3
    <3> QED
      BY <3>1, Joined
  <2> QED
    BY <1>3, <1>4, <2>1
<1>6. /\ 1 \in 1..6 /\ 2 \in 1..6 /\ 3 \in 1..6 /\ 4 \in 1..6 /\ 5 \in 1..6 /\ 6 \in 1..6
  OBVIOUS
<1>7. c = <<t1, t2, t3, t4, t5, NULL>> \o [i \in 1..k |-> NULL]
  BY <1>2, <1>4, <1>5
<1> QED
  BY <1>3, <1>5, <1>6, <1>7

\* A method that executes CALL waits for one operand.
LEMMA Suspended ==
  ASSUME IInv, status = Running, Op.op = "CALL"
  PROVE  LET w == At(ap, fp, sp - 1, ip + 1)
         IN /\ w \in Frame /\ w.ret # NATIVE /\ Waits(w) /\ Unwound(w) = Unwound(Current)
            /\ 1 <= sp
<1>1. PICK m : m = MethodAt(prog, ip)
  OBVIOUS
<1>2. PICK s : s = Shape(prog)[ip].ops
  OBVIOUS
<1>3. PICK k : k = prog.locals[m]
  OBVIOUS
<1>4. /\ prog \in Checked /\ ip \in DOMAIN Shape(prog) /\ ip \in Nat /\ m \in DOMAIN prog.entry
      /\ k \in Nat /\ ap \in Nat /\ fp = ap + 5 /\ sp \in Nat
      /\ stack[fp - 4] = THISCLS /\ stack[fp] \in {NULL, ExInfo[m]}
  BY <1>1, <1>3, CurrentFacts
<1>5. PICK B \in Nat : B = Base
  BY BaseFacts
<1>6. /\ s \in Seq(Kinds) /\ Len(s) \in Nat /\ sp = B + Len(s) /\ Addresses(s, B)
      /\ fp \in Nat /\ fp + k < B /\ ReliesOn(prog, m, Op, Shape(prog)[ip])
  BY <1>1, <1>2, <1>3, <1>5, BaseFacts
<1>7. PICK i \in Nat : i = ip
  BY <1>4
<1>8. /\ Takes(Op) = 1 /\ Effect(Op, s) = Without(s, Takes(Op)) \o <<"value">>
      /\ Successors(Op, ip) = {i + 1}
  BY <1>7 DEF Takes, Effect, Successors
<1>9. PICK n \in Nat : Len(s) = n + 1
  <2>1. PICK y \in Nat : y = Len(s)
    BY <1>6
  <2>2. 1 <= y
    BY <1>2, <1>6, <1>8, <2>1 DEF ReliesOn
  <2>3. y - 1 \in Nat /\ y = (y - 1) + 1
    BY <2>2
  <2> QED
    BY <2>1, <2>3
<1>10. PICK u \in Seq(Kinds) : u = Without(s, 1) /\ Len(u) = n /\ \A j \in 1..n : u[j] = s[j]
  <2>1. 1 <= Len(s) /\ Len(s) - 1 = n
    BY <1>9
  <2> QED
    BY <1>6, <2>1, Fewer
<1>11. PICK t : t = Shape(prog)[i + 1]
  OBVIOUS
<1>12. /\ i + 1 \in DOMAIN Shape(prog) /\ MethodAt(prog, i + 1) = m
       /\ t.ops = u \o <<"value">> /\ (t.info => Shape(prog)[ip].info)
  <2>1. /\ i + 1 \in DOMAIN Shape(prog) /\ MethodAt(prog, i + 1) = m
        /\ t.ops = Effect(Op, s) /\ (t.info => Shape(prog)[ip].info \/ Op.op = "ST_EXINFO")
    BY <1>1, <1>2, <1>4, <1>8, <1>11, CodeFacts DEF Op
  <2> QED
    BY <1>8, <1>10, <2>1
<1>13. /\ Len(t.ops) = n + 1 /\ (\A j \in 1..n : t.ops[j] = u[j]) /\ t.ops[n + 1] = "value"
       /\ t.ops \in Seq(Kinds)
  <2>1. /\ Len(u \o <<"value">>) = Len(u) + 1
        /\ \A j \in 1..Len(u) : (u \o <<"value">>)[j] = u[j]
        /\ (u \o <<"value">>)[Len(u) + 1] = "value"
        /\ u \o <<"value">> \in Seq(Kinds)
    BY OneMore DEF Kinds
  <2> QED
    BY <1>10, <1>12, <2>1
<1>14. Without(t.ops, 1) = u
  <2>1. PICK q \in Seq(Kinds) : q = t.ops
    BY <1>13
  <2>2. Len(q) = n + 1 /\ 1 <= Len(q) /\ Len(q) - 1 = n
    BY <1>13, <2>1
  <2>3. /\ Without(q, 1) \in Seq(Kinds) /\ Len(Without(q, 1)) = Len(q) - 1
        /\ \A j \in 1..(Len(q) - 1) : Without(q, 1)[j] = q[j]
    BY <2>2, Fewer
  <2>4. PICK x \in Seq(Kinds) : x = Without(q, 1)
    BY <2>3
  <2>5. Len(x) = Len(u) /\ \A j \in 1..Len(x) : x[j] = u[j]
    BY <1>10, <1>13, <2>1, <2>2, <2>3, <2>4
  <2> QED
    BY <2>1, <2>4, <2>5, SeqEqual
<1>15. PICK w : w = At(ap, fp, sp - 1, ip + 1)
  OBVIOUS
<1>16. w.ap = ap /\ w.fp = fp /\ w.sp = B + n /\ w.ret = i + 1 /\ i + 1 # NATIVE /\ 1 <= sp
  <2>1. PICK z \in Nat : z = B + n
    OBVIOUS
  <2>2. sp = z + 1
    BY <1>6, <1>9, <2>1
  <2>3. sp - 1 = z /\ 1 <= sp
    BY <2>2
  <2>4. i + 1 # NATIVE
    BY DEF NATIVE
  <2> QED
    BY <1>7, <1>15, <2>1, <2>3, <2>4 DEF At
<1>17. w \in Frame
  <2>1. w = At(ap, fp, B + n, i + 1)
    BY <1>15, <1>16 DEF At
  <2> QED
    BY <1>4, <1>6, <2>1 DEF At, Frame
<1>18. Carries(w, m, u)
  <2>1. PICK f \in Nat : f = fp
    BY <1>6
  <2>2. f + k + n < B + n /\ f + k < B + n
    BY <1>4, <1>6, <2>1
  <2>3. FrameOK(w, m)
    BY <1>3, <1>4, <1>16, <2>1, <2>2 DEF FrameOK
  <2>4. ASSUME NEW j \in 1..Len(u), u[j] = "address"
        PROVE  stack[w.sp - Len(u) + j - 1] \in LocalCells(w, m)
    <3>1. j \in 1..n /\ j \in 1..Len(s)
      BY <1>9, <1>10
    <3>2. stack[B + j - 1] \in LocalCells(Current, m)
      BY <1>1, <1>6, <1>10, <2>4, <3>1 DEF Addresses
    <3>3. w.sp - Len(u) + j - 1 = B + j - 1
      BY <1>10, <1>16, <3>1
    <3> QED
      BY <1>16, <3>2, <3>3 DEF LocalCells, Current, At
  <2>5. w.fp + prog.locals[m] + Len(u) < w.sp
    BY <1>3, <1>10, <1>16, <2>1, <2>2
  <2> QED
    BY <1>4, <2>3, <2>4, <2>5 DEF Carries
<1>19. Shaped(w, m, t)
  <2>1. Shape(prog)[ip].info => stack[fp] = ExInfo[m]
    BY <1>1 DEF IInv, Executing, Shaped, Current, At
  <2> QED
    BY <1>12, <1>16, <2>1 DEF Shaped
<1>20. Waits(w)
  <2>1. i + 1 - 1 = i /\ i \in DOMAIN Shape(prog) /\ MethodAt(prog, i) = m
    BY <1>1, <1>4, <1>7
  <2>2. prog.code[i + 1].op = "CALL"
    BY <1>7 DEF Op
  <2>3. t.ops # <<>>
    <3>1. PICK q : q = t.ops
      OBVIOUS
    <3>2. Len(q) = n + 1
      BY <1>13, <3>1
    <3>3. q # <<>>
      BY <3>2, EmptySeq
    <3> QED
      BY <3>1, <3>3
  <2>4. t.ops[Len(t.ops)] = "value"
    BY <1>13
  <2>5. Shape(prog)[w.ret] = t /\ MethodAt(prog, w.ret) = m
    BY <1>11, <1>12, <1>16
  <2>6. w.ret \in DOMAIN Shape(prog) /\ w.ret - 1 \in DOMAIN Shape(prog)
    BY <1>12, <1>16, <2>1
  <2>7. prog.code[w.ret].op = "CALL" /\ MethodAt(prog, w.ret - 1) = m
    BY <1>16, <2>1, <2>2
  <2>8. Carries(w, m, Without(t.ops, 1))
    BY <1>14, <1>18
  <2> QED
    BY <1>19, <2>3, <2>4, <2>5, <2>6, <2>7, <2>8 DEF Waits
<1>21. Unwound(w) = Unwound(Current)
  <2>1. Unwound(w) = At(stack[fp - 2], stack[fp - 1], ap, stack[fp - 3])
    BY <1>16 DEF Unwound
  <2> QED
    BY <2>1, CallerOfCurrent
<1> QED
  BY <1>15, <1>16, <1>17, <1>20, <1>21

LEMMA EntryFacts ==
  ASSUME prog \in Checked, NEW m \in DOMAIN prog.entry
  PROVE  /\ prog.entry[m] \in Nat /\ Begins(prog, Shape(prog), prog.entry[m], m)
         /\ ~Shape(prog)[prog.entry[m]].info
<1>1. Begins(prog, Shape(prog), prog.entry[m], m) /\ ~Shape(prog)[prog.entry[m]].info
  BY DEF Checked, WellTyped
<1>2. prog.entry[m] \in DOMAIN Shape(prog)
  BY <1>1 DEF Begins
<1>3. prog.entry[m] \in Nat
  BY <1>2, CodeFacts
<1> QED
  BY <1>1, <1>3

\* The caller joins the frames below, the callee's frame lies on top of it.
LEMMA BC_CALLStep ==
  ASSUME IInv, NEW m \in DOMAIN prog.entry, BC_CALL(m) PROVE IInv' /\ Untouched
<1>1. /\ Runs("CALL") /\ status = Running /\ Op.op = "CALL"
      /\ prog' = prog /\ exobj' = exobj /\ status' = status
  BY DEF BC_CALL, Runs
<1>2. PICK k \in Nat : k = prog.locals[m] /\ k < Slack
  BY MethodFacts DEF IInv
<1>3. /\ prog \in Checked /\ ip \in Nat /\ ap \in Nat /\ fp = ap + 5 /\ sp \in Nat
      /\ stack[fp - 4] = THISCLS
      /\ Slack \in Nat /\ StackSize \in Nat /\ DOMAIN stack = 0..(StackSize + Slack - 1)
  BY <1>1, CurrentFacts, BaseFacts
<1>4. PICK w : w = At(ap, fp, sp - 1, ip + 1)
  OBVIOUS
<1>5. w \in Frame /\ w.ret # NATIVE /\ Waits(w) /\ Unwound(w) = Unwound(Current) /\ 1 <= sp
  BY <1>1, <1>4, Suspended
<1>6. PICK c \in Nat : sp = c + 1
  <2>1. PICK z \in Nat : z = sp
    BY <1>3
  <2>2. z - 1 \in Nat /\ z = (z - 1) + 1
    BY <1>5, <2>1
  <2> QED
    BY <2>1, <2>2
<1>7. PICK s : s = <<THIS>> \o FrameTail(ip + 1, k)
  OBVIOUS
<1>8. Len(s) = 5 + k /\ s[1] = THIS /\ s[2] = ip + 1 /\ s[3] = ap /\ s[4] = fp /\ s[5] = NULL
  BY <1>7, FrameCells
<1>9. c + 5 <= StackSize
  <2>1. Pushes = 4
    BY <1>1 DEF Pushes, BC_CALL
  <2> QED
    BY <1>1, <1>6, <2>1 DEF Runs, Fits
<1>10. stack' = [i \in DOMAIN stack |->
                   IF i \in (c + 1)..(c + 5 + k) THEN s[i - c] ELSE stack[i]]
  <2>1. stack' = Put(sp, s)
    BY <1>2, <1>7 DEF BC_CALL
  <2>2. sp + Len(s) - 1 = c + 5 + k /\ sp = c + 1
    BY <1>6, <1>8
  <2>3. stack' = [i \in DOMAIN stack |->
                   IF i \in (c + 1)..(c + 5 + k) THEN s[i - (c + 1) + 1] ELSE stack[i]]
    BY <2>1, <2>2 DEF Put
  <2>4. \A i \in DOMAIN stack : i - (c + 1) + 1 = i - c
    BY <1>3
  <2> QED
    BY <2>3, <2>4
<1>11. /\ \A i \in 0..c : stack'[i] = stack[i]
       /\ DOMAIN stack' = DOMAIN stack
  <2>1. \A i \in 0..c : i \in DOMAIN stack /\ i \notin (c + 1)..(c + 5 + k)
    BY <1>3, <1>9
  <2> QED
    BY <1>10, <2>1
<1>12. /\ stack'[c + 1] = THISCLS /\ stack'[c + 2] = ip + 1 /\ stack'[c + 3] = ap
       /\ stack'[c + 4] = fp /\ stack'[c + 5] = NULL
  <2>1. ASSUME NEW d \in 1..5
        PROVE  stack'[c + d] = s[d]
    <3>1. PICK x \in Nat : x = c + d
      OBVIOUS
    <3>2. x \in (c + 1)..(c + 5 + k) /\ x - c = d /\ x \in DOMAIN stack
      <4>1. x \in (c + 1)..(c + 5 + k) /\ x - c = d
        BY <3>1
      <4>2. PICK M \in Nat : M = StackSize
        BY <1>3
      <4>3. PICK N \in Nat : N = Slack
        BY <1>3
      <4>4. c + 5 <= M /\ k < N
        BY <1>2, <1>9, <4>2, <4>3
      <4>5. x \in 0..(M + N - 1)
        BY <3>1, <4>4
      <4> QED
        BY <1>3, <4>1, <4>2, <4>3, <4>5
    <3>3. stack'[x] = s[x - c]
      BY <1>10, <3>2
    <3> QED
      BY <3>1, <3>2, <3>3
  <2>2. THIS = THISCLS
    BY <1>3 DEF THIS
  <2>3. 1 \in 1..5 /\ 2 \in 1..5 /\ 3 \in 1..5 /\ 4 \in 1..5 /\ 5 \in 1..5
    OBVIOUS
  <2> QED
    BY <1>8, <2>1, <2>2, <2>3
<1>13. ap' = c /\ fp' = c + 5 /\ sp' = c + 6 + k /\ ip' = prog.entry[m]
  BY <1>2, <1>6 DEF BC_CALL
<1>14. ap <= c
  <2>1. PICK t \in Nat : t = prog.locals[MethodAt(prog, ip)]
    BY <1>1, CurrentFacts
  <2>2. PICK n \in Nat : n = Len(Shape(prog)[ip].ops)
    BY <1>1, CurrentFacts
  <2>3. fp + t + n < sp
    BY <1>1, <2>1, <2>2, CurrentFacts
  <2>4. PICK a \in Nat : a = ap
    BY <1>3
  <2>5. a + 5 + t + n < c + 1
    BY <1>3, <1>6, <2>3, <2>4
  <2>6. a <= c
    BY <2>5
  <2> QED
    BY <2>4, <2>6
<1>15. Untouched
  <2>1. PICK a \in Nat : a = ap
    BY <1>3
  <2>2. \A i \in 0..(a - 1) : i \in 0..c
    BY <1>14, <2>1
  <2> QED
    BY <1>11, <2>1, <2>2 DEF Untouched
<1>16. Executing' /\ Unwound(Current)' = w
  <2>1. Begins(prog, Shape(prog), ip', m) /\ ip' \in Nat /\ ~Shape(prog)[ip'].info
    BY <1>3, <1>13, EntryFacts
  <2>2. /\ fp' = ap' + 5 /\ fp' \in Nat /\ sp' \in Nat /\ fp' + prog.locals[m] < sp'
    BY <1>2, <1>13
  <2>3. fp' - 4 = c + 1 /\ fp' - 3 = c + 2 /\ fp' - 2 = c + 3 /\ fp' - 1 = c + 4
    BY <1>13
  <2>4. stack'[fp' - 4] = THISCLS /\ stack'[fp'] \in {NULL, ExInfo[m]}
    BY <1>12, <1>13, <2>3
  <2>5. Executing' /\ Unwound(Current)' = At(stack'[fp' - 2], stack'[fp' - 1], ap', stack'[fp' - 3])
    BY <1>1, <1>3, <2>1, <2>2, <2>4, Entered
  <2>6. w = At(ap, fp, c, ip + 1)
    <3>1. sp - 1 = c
      BY <1>6
    <3> QED
      BY <1>4, <3>1
  <2> QED
    BY <1>12, <1>13, <2>3, <2>5, <2>6
<1>17. \E S : Callers(S)' /\ w \in S
  <2>1. PICK S : Callers(S) /\ Unwound(Current) \in S
    BY <1>1 DEF IInv
  <2>2. PICK R : R = {x \in S : x.sp <= ap}
    OBVIOUS
  <2>3. Callers(R)'
    BY <1>1, <1>3, <1>15, <2>1, <2>2, Kept DEF Untouched
  <2>4. w.sp = c
    BY <1>4, <1>6 DEF At
  <2>5. Waits(w)' /\ Unwound(w)' = Unwound(w)
    <3>1. \A i \in 0..(c - 1) : stack'[i] = stack[i]
      BY <1>11
    <3>2. w.sp <= c
      BY <2>4
    <3> QED
      BY <1>1, <1>3, <1>5, <3>1, <3>2, StillWaits
  <2>6. Unwound(w)' \in R
    <3>1. Unwound(w) = At(stack[fp - 2], stack[fp - 1], ap, stack[fp - 3])
      BY <1>1, <1>5, CallerOfCurrent
    <3>2. Unwound(w).sp <= ap
      BY <1>3, <3>1 DEF At
    <3> QED
      BY <1>5, <2>1, <2>2, <2>5, <3>2
  <2>7. Callers(R \cup {w})'
    BY <1>5, <2>3, <2>5, <2>6 DEF Callers
  <2> QED
    BY <2>7
<1>18. sp' <= StackSize + Slack /\ ap' \in Nat /\ fp' \in Nat /\ sp' \in Nat
  BY <1>2, <1>3, <1>9, <1>13
<1> QED
  BY <1>1, <1>3, <1>11, <1>15, <1>16, <1>17, <1>18 DEF IInv, InMemory, Running

\* The callee takes the place of its caller.
LEMMA BC_TCALLStep ==
  ASSUME IInv, NEW m \in DOMAIN prog.entry, BC_TCALL(m) PROVE IInv' /\ Untouched
<1>1. /\ Runs("CALL") /\ status = Running /\ Op.op = "CALL"
      /\ prog' = prog /\ exobj' = exobj /\ status' = status /\ ap' = ap
  BY DEF BC_TCALL, Runs
<1>2. PICK k \in Nat : k = prog.locals[m] /\ k < Slack
  BY MethodFacts DEF IInv
<1>3. /\ prog \in Checked /\ ip \in Nat /\ fp = ap + 5 /\ sp \in Nat
      /\ stack[fp - 4] = THISCLS
      /\ Slack \in Nat /\ StackSize \in Nat /\ DOMAIN stack = 0..(StackSize + Slack - 1)
  BY <1>1, CurrentFacts, BaseFacts
<1>4. PICK c \in Nat : c = ap
  BY <1>1, CurrentFacts
<1>5. c + 5 <= StackSize
  <2>1. PICK t \in Nat : t = prog.locals[MethodAt(prog, ip)]
    BY <1>1, CurrentFacts
  <2>2. PICK n \in Nat : n = Len(Shape(prog)[ip].ops)
    BY <1>1, CurrentFacts
  <2>3. fp + t + n < sp
    BY <1>1, <2>1, <2>2, CurrentFacts
  <2>4. Pushes = 1
    BY <1>1 DEF Pushes, BC_TCALL
  <2>5. sp + 1 <= StackSize
    BY <1>1, <2>4 DEF Runs, Fits
  <2> QED
    BY <1>3, <1>4, <2>3, <2>5
<1>6. PICK s : s = <<Top, THIS, stack[fp - 3], stack[fp - 2], stack[fp - 1], NULL>>
                   \o [i \in 1..k |-> NULL]
  OBVIOUS
<1>7. /\ Len(s) = 6 + k /\ s[2] = THIS /\ s[3] = stack[fp - 3] /\ s[4] = stack[fp - 2]
      /\ s[5] = stack[fp - 1] /\ s[6] = NULL
  BY <1>6, ReusedCells
<1>8. stack' = [i \in DOMAIN stack |->
                  IF i \in c..(c + 5 + k) THEN s[i - c + 1] ELSE stack[i]]
  <2>1. stack' = Put(c, s)
    BY <1>2, <1>4, <1>6 DEF BC_TCALL
  <2>2. c + Len(s) - 1 = c + 5 + k
    BY <1>7
  <2> QED
    BY <2>1, <2>2 DEF Put
<1>9. DOMAIN stack' = DOMAIN stack /\ \A i \in 0..(c - 1) : stack'[i] = stack[i]
  <2>1. \A i \in 0..(c - 1) : i \in DOMAIN stack /\ i \notin c..(c + 5 + k)
    BY <1>3, <1>5
  <2> QED
    BY <1>8, <2>1
<1>10. /\ stack'[c + 1] = THISCLS /\ stack'[c + 2] = stack[fp - 3] /\ stack'[c + 3] = stack[fp - 2]
       /\ stack'[c + 4] = stack[fp - 1] /\ stack'[c + 5] = NULL
  <2>1. ASSUME NEW d \in 1..5
        PROVE  stack'[c + d] = s[d + 1]
    <3>1. PICK x \in Nat : x = c + d
      OBVIOUS
    <3>2. x \in c..(c + 5 + k) /\ x - c + 1 = d + 1 /\ x \in DOMAIN stack
      BY <1>2, <1>3, <1>5, <3>1
    <3>3. stack'[x] = s[x - c + 1]
      BY <1>8, <3>2
    <3> QED
      BY <3>1, <3>2, <3>3
  <2>2. THIS = THISCLS
    BY <1>3 DEF THIS
  <2>3. 1 \in 1..5 /\ 2 \in 1..5 /\ 3 \in 1..5 /\ 4 \in 1..5 /\ 5 \in 1..5
    OBVIOUS
  <2>4. /\ stack'[c + 1] = s[1 + 1] /\ stack'[c + 2] = s[2 + 1] /\ stack'[c + 3] = s[3 + 1]
        /\ stack'[c + 4] = s[4 + 1] /\ stack'[c + 5] = s[5 + 1]
    BY <2>1, <2>3
  <2>5. 1 + 1 = 2 /\ 2 + 1 = 3 /\ 3 + 1 = 4 /\ 4 + 1 = 5 /\ 5 + 1 = 6
    OBVIOUS
  <2> QED
    BY <1>7, <2>2, <2>4, <2>5
<1>11. fp' = c + 5 /\ sp' = c + 6 + k /\ ip' = prog.entry[m]
  BY <1>2, <1>4 DEF BC_TCALL
<1>12. Untouched
  BY <1>4, <1>9 DEF Untouched
<1>13. Executing' /\ Unwound(Current)' = Unwound(Current)
  <2>1. Begins(prog, Shape(prog), ip', m) /\ ip' \in Nat /\ ~Shape(prog)[ip'].info
    BY <1>3, <1>11, EntryFacts
  <2>2. /\ fp' = ap' + 5 /\ fp' \in Nat /\ sp' \in Nat /\ fp' + prog.locals[m] < sp'
    BY <1>1, <1>2, <1>4, <1>11
  <2>3. fp' - 4 = c + 1 /\ fp' - 3 = c + 2 /\ fp' - 2 = c + 3 /\ fp' - 1 = c + 4
    BY <1>11
  <2>4. stack'[fp' - 4] = THISCLS /\ stack'[fp'] \in {NULL, ExInfo[m]}
    BY <1>10, <1>11, <2>3
  <2>5. Executing' /\ Unwound(Current)' = At(stack'[fp' - 2], stack'[fp' - 1], ap', stack'[fp' - 3])
    BY <1>1, <1>3, <2>1, <2>2, <2>4, Entered
  <2>6. Unwound(Current) = At(stack[fp - 2], stack[fp - 1], ap, stack[fp - 3])
    BY <1>1, CallerOfCurrent
  <2> QED
    BY <1>1, <1>10, <2>3, <2>5, <2>6
<1>14. \E S : Callers(S)' /\ Unwound(Current) \in S
  <2>1. PICK S : Callers(S) /\ Unwound(Current) \in S
    BY <1>1 DEF IInv
  <2>2. PICK R : R = {x \in S : x.sp <= c}
    OBVIOUS
  <2>3. Callers(R)'
    BY <1>1, <1>3, <1>9, <2>1, <2>2, Kept
  <2>4. Unwound(Current) \in R
    <3>1. Unwound(Current) = At(stack[fp - 2], stack[fp - 1], ap, stack[fp - 3])
      BY <1>1, CallerOfCurrent
    <3>2. Unwound(Current).sp <= c
      BY <1>4, <3>1 DEF At
    <3> QED
      BY <2>1, <2>2, <3>2
  <2> QED
    BY <2>3, <2>4
<1>15. sp' <= StackSize + Slack /\ ap' \in Nat /\ fp' \in Nat /\ sp' \in Nat
  BY <1>1, <1>2, <1>3, <1>4, <1>5, <1>11
<1> QED
  BY <1>1, <1>3, <1>9, <1>12, <1>13, <1>14, <1>15 DEF IInv, InMemory, Running

---------------------------------------------------------------------------
(* Returns.                                                                *)

\* The frame of a caller, going on behind its call with the value v.
LEMMA Resumed ==
  ASSUME IInv, status = Running, prog' = prog, exobj' = exobj, NEW v,
         stack' = Put(ap, <<v>>), sp' = ap + 1,
         ap' = stack[fp - 2], fp' = stack[fp - 1], ip' = stack[fp - 3],
         NEW how \in {"wild", "return"}, NEW x,
         status' = IF stack[fp - 3] = NATIVE THEN Ended(how, x) ELSE status
  PROVE  IInv' /\ Untouched
<1>1. PICK c \in Nat : c = ap
  BY CurrentFacts
<1>2. /\ prog \in Checked /\ sp \in Nat /\ sp <= StackSize + Slack
      /\ Slack \in Nat /\ StackSize \in Nat /\ DOMAIN stack = 0..(StackSize + Slack - 1)
  BY CurrentFacts, BaseFacts
<1>3. c + 1 <= StackSize + Slack
  <2>1. PICK f \in Nat : f = fp
    BY BaseFacts
  <2>2. f < sp
    <3>1. PICK B \in Nat : B = Base
      BY BaseFacts
    <3>2. PICK n \in Nat : n = Len(Shape(prog)[ip].ops)
      BY BaseFacts
    <3>3. f < B /\ sp = B + n
      BY <2>1, <3>1, <3>2, BaseFacts
    <3> QED
      BY <3>3
  <2>3. f = c + 5
    BY <1>1, <2>1, CurrentFacts
  <2> QED
    BY <1>2, <2>2, <2>3
<1>4. stack' = [i \in DOMAIN stack |-> IF i = c THEN v ELSE stack[i]]
  BY <1>1, PutOne
<1>5. DOMAIN stack' = DOMAIN stack /\ \A i \in 0..(c - 1) : stack'[i] = stack[i]
  <2>1. \A i \in 0..(c - 1) : i \in DOMAIN stack /\ i # c
    BY <1>2, <1>3
  <2> QED
    BY <1>4, <2>1
<1>6. Untouched
  BY <1>1, <1>5 DEF Untouched
<1>7. PICK S : Callers(S) /\ Unwound(Current) \in S
  BY DEF IInv
<1>8. PICK w : w = Unwound(Current)
  OBVIOUS
<1>9. /\ w \in S /\ w \in Frame
      /\ w.ap = ap' /\ w.fp = fp' /\ w.ret = ip' /\ w.sp = c
  <2>1. w = At(stack[fp - 2], stack[fp - 1], ap, stack[fp - 3])
    BY <1>8, CallerOfCurrent
  <2> QED
    BY <1>1, <1>7, <1>8, <2>1 DEF Callers, At
<1>10. ap' \in Nat /\ fp' \in Nat /\ sp' = c + 1 /\ sp' \in Nat /\ sp' <= StackSize + Slack
  BY <1>1, <1>3, <1>9 DEF Frame
<1>11. CASE w.ret = NATIVE
  <2>1. status' = Ended(how, x)
    BY <1>9, <1>11
  <2> QED
    BY <1>5, <1>6, <1>10, <2>1, EndStep
<1>12. CASE w.ret # NATIVE
  <2>1. status' = status
    BY <1>9, <1>12
  <2>2. Waits(w) /\ Unwound(w) \in S
    BY <1>7, <1>9, <1>12 DEF Callers
  <2>3. Waits(w)' /\ Unwound(w)' = Unwound(w)
    <3>1. w.sp <= c
      BY <1>9
    <3> QED
      BY <1>2, <1>5, <1>9, <1>12, <2>2, <3>1, StillWaits
  <2>4. PICK i : i = ip'
    OBVIOUS
  <2>5. PICK t : t = Shape(prog)[i]
    OBVIOUS
  <2>6. PICK m : m = MethodAt(prog, i)
    OBVIOUS
  <2>7. i \in DOMAIN Shape(prog) /\ w.ret = i
    BY <1>9, <2>2, <2>4 DEF Waits
  <2>8. PICK s \in Seq(Kinds) : s = t.ops
    BY <1>2, <2>5, <2>7, CodeFacts
  <2>9. s # <<>> /\ s[Len(s)] = "value"
    BY <2>2, <2>5, <2>7, <2>8 DEF Waits
  <2>10. PICK n \in Nat : Len(s) = n + 1
    <3>1. PICK y \in Nat : y = Len(s)
      BY LenProperties
    <3>2. y # 0
      BY <2>9, <3>1, EmptySeq
    <3>3. y - 1 \in Nat /\ y = (y - 1) + 1
      BY <3>2
    <3> QED
      BY <3>1, <3>3
  <2>11. PICK u : u = Without(s, 1) /\ Len(u) = n /\ \A j \in 1..n : u[j] = s[j]
    <3>1. 1 <= Len(s) /\ Len(s) - 1 = n
      BY <2>10
    <3>2. /\ Len(Without(s, 1)) = Len(s) - 1
          /\ \A j \in 1..(Len(s) - 1) : Without(s, 1)[j] = s[j]
      BY <3>1, Fewer
    <3> QED
      BY <3>1, <3>2
  <2>12. Carries(w, m, u)'
    BY <1>9, <2>3, <2>4, <2>5, <2>6, <2>7, <2>8, <2>11 DEF Waits
  <2>13. Shaped(w, m, t)'
    BY <1>9, <2>3, <2>4, <2>5, <2>6, <2>7 DEF Waits
  <2>14. PICK k \in Nat : k = prog.locals[m]
    <3>1. m \in DOMAIN prog.entry
      BY <2>12 DEF Carries
    <3> QED
      BY <1>2, <3>1, MethodFacts
  <2>15. /\ m \in DOMAIN prog.entry
         /\ fp' = ap' + 5 /\ fp' + k < c /\ fp' + k + n < c
         /\ stack'[fp' - 4] = THISCLS /\ stack'[fp'] \in {NULL, ExInfo[m]}
         /\ \A j \in 1..n : u[j] = "address" => stack'[c - n + j - 1] \in (fp' + 1)..(fp' + k)
    BY <1>9, <2>11, <2>12, <2>14 DEF Carries, FrameOK, LocalCells
  <2>16. Carries(Current, m, s)'
    <3>1. PICK f \in Nat : f = fp'
      BY <1>10
    <3>2. FrameOK(Current, m)'
      <4>1. f + k < c + 1
        BY <2>15, <3>1
      <4> QED
        BY <1>10, <2>14, <2>15, <3>1, <4>1 DEF FrameOK, Current, At
    <3>3. f + k + Len(s) < c + 1
      <4>1. f + k + n < c
        BY <2>15, <3>1
      <4>2. f + k + (n + 1) < c + 1
        BY <4>1
      <4> QED
        BY <2>10, <4>2
    <3>4. ASSUME NEW j \in 1..Len(s), s[j] = "address"
          PROVE  stack'[sp' - Len(s) + j - 1] \in (fp' + 1)..(fp' + k)
      <4>1. j \in 1..n
        <5>1. j # n + 1
          BY <2>9, <2>10, <3>4
        <5> QED
          BY <2>10, <5>1
      <4>2. sp' - Len(s) + j - 1 = c - n + j - 1
        BY <1>10, <2>10
      <4> QED
        BY <2>11, <2>15, <3>4, <4>1, <4>2
    <3> QED
      BY <1>10, <2>14, <2>15, <3>1, <3>2, <3>3, <3>4 DEF Carries, LocalCells, Current, At
  <2>17. Shaped(Current, m, t)'
    BY <1>9, <2>13 DEF Shaped, Current, At
  <2>18. Executing'
    BY <2>4, <2>5, <2>6, <2>7, <2>8, <2>16, <2>17 DEF Executing
  <2>19. Unwound(Current)' = Unwound(w)
    <3>1. PICK y \in Nat : y = ip'
      BY <1>2, <2>4, <2>7, CodeFacts
    <3>2. y + 1 # NATIVE
      BY DEF NATIVE
    <3>3. Unwound(Current)' = At(stack'[fp' - 2], stack'[fp' - 1], ap', stack'[fp' - 3])
      BY <3>1, <3>2 DEF Unwound, Current, At
    <3>4. Unwound(w)' = At(stack'[w.fp - 2], stack'[w.fp - 1], w.ap, stack'[w.fp - 3])
      BY <1>12 DEF Unwound
    <3> QED
      BY <1>9, <2>3, <3>3, <3>4
  <2>20. \E R : Callers(R)' /\ Unwound(Current)' \in R
    <3>1. PICK R : R = {y \in S : y.sp <= c}
      OBVIOUS
    <3>2. Callers(R)'
      BY <1>2, <1>5, <1>7, <3>1, Kept
    <3>3. Unwound(w).sp = w.ap
      BY <1>12 DEF Unwound, At
    <3>4. w.ap <= c
      <4>1. PICK f \in Nat : f = w.ap
        BY <1>9, <1>10
      <4>2. f + 5 + k < c
        BY <1>9, <2>15, <4>1
      <4>3. f <= c
        BY <4>2
      <4> QED
        BY <4>1, <4>3
    <3> QED
      BY <2>2, <2>19, <3>1, <3>2, <3>3, <3>4
  <2> QED
    BY <1>2, <1>5, <1>6, <1>10, <2>1, <2>18, <2>20 DEF IInv, InMemory
<1> QED
  BY <1>11, <1>12

LEMMA ReturnStep ==
  ASSUME IInv, RET \/ NativeReturn PROVE IInv' /\ Untouched
<1>1. CASE RET
  BY <1>1, Resumed DEF RET, Runs
<1>2. CASE NativeReturn /\ TailCall
  BY <1>2, Resumed DEF NativeReturn, Runs
<1>3. CASE NativeReturn /\ ~TailCall
  BY <1>3, NativeStays
<1> QED
  BY <1>1, <1>2, <1>3

---------------------------------------------------------------------------
(* The frames below a frame, as the machine finds them.                    *)

LEMMA FramesRecur ==
  ASSUME NEW w, NEW N \in Nat, N = w.sp
  PROVE  /\ Frames(w)[0] = w
         /\ \A n \in 1..N : Frames(w)[n] = Unwound(Frames(w)[n - 1])
<1> DEFINE Is(f, k) == f = [n \in 0..k |-> IF n = 0 THEN w ELSE Unwound(f[n - 1])]
           T == {k \in Nat : \E f : Is(f, k)}
<1>1. 0 \in T
  <2>1. PICK f : f = [n \in 0..0 |-> w]
    OBVIOUS
  <2>2. f = [n \in 0..0 |-> IF n = 0 THEN w ELSE Unwound(f[n - 1])]
    <3>1. \A n \in 0..0 : n = 0
      OBVIOUS
    <3> QED
      BY <2>1, <3>1
  <2> QED
    BY <2>2
<1>2. ASSUME NEW k \in T PROVE k + 1 \in T
  <2>1. PICK f : f = [n \in 0..k |-> IF n = 0 THEN w ELSE Unwound(f[n - 1])]
    OBVIOUS
  <2>2. PICK g : g = [n \in 0..(k + 1) |-> IF n <= k THEN f[n] ELSE Unwound(f[k])]
    OBVIOUS
  <2>3. ASSUME NEW n \in 0..(k + 1)
        PROVE  g[n] = IF n = 0 THEN w ELSE Unwound(g[n - 1])
    <3>1. CASE n = 0
      <4>1. n <= k /\ n \in 0..k
        BY <3>1
      <4> QED
        BY <2>1, <2>2, <3>1, <4>1
    <3>2. CASE n # 0 /\ n <= k
      <4>1. n \in 0..k /\ n - 1 \in 0..k /\ n - 1 \in 0..(k + 1) /\ n - 1 <= k
        BY <3>2
      <4>2. g[n] = f[n] /\ g[n - 1] = f[n - 1]
        BY <2>2, <3>2, <4>1
      <4>3. f[n] = Unwound(f[n - 1])
        BY <2>1, <3>2, <4>1
      <4> QED
        BY <3>2, <4>2, <4>3
    <3>3. CASE ~(n <= k)
      <4>1. n = k + 1 /\ n - 1 = k /\ k \in 0..(k + 1) /\ k <= k /\ n # 0
        BY <3>3
      <4> QED
        BY <2>2, <3>3, <4>1
    <3> QED
      BY <3>1, <3>2, <3>3
  <2>4. g = [n \in 0..(k + 1) |-> IF n = 0 THEN w ELSE Unwound(g[n - 1])]
    BY <2>2, <2>3
  <2> QED
    BY <2>4
<1>3. \E f : Is(f, N)
  <2>1. T = Nat
    <3> HIDE DEF T
    <3>1. T \in SUBSET Nat
      BY DEF T
    <3> QED
      BY <1>1, <1>2, <3>1, Climb
  <2> QED
    BY <2>1
<1>4. PICK f : f = Frames(w)
  OBVIOUS
<1>5. f = [n \in 0..N |-> IF n = 0 THEN w ELSE Unwound(f[n - 1])]
  BY <1>3, <1>4 DEF Frames
<1>6. f[0] = w
  BY <1>5
<1>7. \A n \in 1..N : n \in 0..N /\ n # 0
  OBVIOUS
<1> QED
  BY <1>4, <1>5, <1>6, <1>7

\* A frame that an exception can meet: the last one, or a whole frame whose
\* caller is in S.
Linked(w, S) ==
  /\ w \in Frame
  /\ w.ret # NATIVE => /\ Unwound(w) \in S
                       /\ \E m \in DOMAIN prog.entry : FrameOK(w, m)

LEMMA LinkedMember ==
  ASSUME NEW S, Callers(S), NEW w \in S PROVE Linked(w, S)
<1>1. w \in Frame
  BY DEF Callers
<1>2. ASSUME w.ret # NATIVE
      PROVE  Unwound(w) \in S /\ \E m \in DOMAIN prog.entry : FrameOK(w, m)
  <2>1. Waits(w) /\ Unwound(w) \in S
    BY <1>2 DEF Callers
  <2>2. PICK m : Carries(w, m, Without(Shape(prog)[w.ret].ops, 1))
    BY <2>1 DEF Waits
  <2> QED
    BY <2>1, <2>2 DEF Carries
<1> QED
  BY <1>1, <1>2 DEF Linked

\* Unwinding goes down.
LEMMA Lower ==
  ASSUME prog \in Checked, NEW S, Callers(S), NEW w, Linked(w, S), w.ret # NATIVE
  PROVE  /\ Linked(Unwound(w), S) /\ Unwound(w) \in S
         /\ Unwound(w).sp \in Nat /\ Unwound(w).sp < w.sp
<1>1. Unwound(w) \in S /\ w \in Frame
  BY DEF Linked
<1>2. PICK m \in DOMAIN prog.entry : FrameOK(w, m)
  BY DEF Linked
<1>3. PICK k \in Nat : k = prog.locals[m]
  BY MethodFacts
<1>4. PICK a \in Nat : a = w.ap
  BY <1>1 DEF Frame
<1>5. PICK s \in Nat : s = w.sp
  BY <1>1 DEF Frame
<1>6. a + 5 + k < s
  BY <1>2, <1>3, <1>4, <1>5 DEF FrameOK
<1>7. a < s
  BY <1>6
<1>8. Unwound(w).sp = w.ap
  BY DEF Unwound, At
<1> QED
  BY <1>1, <1>4, <1>5, <1>7, <1>8, LinkedMember

\* The frames below w are linked, each lower than the one above it, so that
\* the last of them is reached before the cells run out.
LEMMA Descent ==
  ASSUME prog \in Checked, NEW S, Callers(S), NEW w, Linked(w, S), NEW N \in Nat, N = w.sp,
         NEW F, F = Frames(w)
  PROVE  /\ F[0] = w
         /\ \A n \in 0..N : Linked(F[n], S) /\ F[n].sp <= N
         /\ \A n \in 1..N : F[n - 1].ret # NATIVE => F[n] \in S
         /\ F[N].ret = NATIVE
<1>1. F[0] = w /\ \A n \in 1..N : F[n] = Unwound(F[n - 1])
  BY FramesRecur
<1> DEFINE Good(n) == /\ Linked(F[n], S) /\ F[n].sp \in Nat /\ F[n].sp <= N
                      /\ F[n].ret = NATIVE \/ F[n].sp + n <= N
           T == {n \in Nat : n <= N => Good(n)}
<1>2. 0 \in T
  <2>1. Good(0)
    BY <1>1
  <2> QED
    BY <2>1
<1>3. ASSUME NEW n \in T PROVE n + 1 \in T
  <2>1. SUFFICES ASSUME n + 1 <= N PROVE Good(n + 1)
    OBVIOUS
  <2>2. Good(n)
    BY <2>1
  <2>3. PICK v : v = F[n]
    OBVIOUS
  <2>4. F[n + 1] = Unwound(v)
    <3>1. n + 1 \in 1..N /\ n + 1 - 1 = n
      BY <2>1
    <3> QED
      BY <1>1, <2>3, <3>1
  <2>5. CASE v.ret = NATIVE
    <3>1. Unwound(v) = v
      BY <2>5 DEF Unwound
    <3> QED
      BY <2>2, <2>3, <2>4, <2>5, <3>1
  <2>6. CASE v.ret # NATIVE
    <3>1. Linked(v, S) /\ v.sp \in Nat /\ v.sp <= N /\ v.sp + n <= N
      BY <2>2, <2>3, <2>6
    <3>2. /\ Linked(Unwound(v), S) /\ Unwound(v).sp \in Nat /\ Unwound(v).sp < v.sp
      BY <2>6, <3>1, Lower
    <3>3. PICK x \in Nat : x = v.sp
      BY <3>1
    <3>4. PICK y \in Nat : y = Unwound(v).sp
      BY <3>2
    <3>5. y <= N /\ y + (n + 1) <= N
      BY <3>1, <3>2, <3>3, <3>4
    <3> QED
      BY <2>4, <3>2, <3>4, <3>5
  <2> QED
    BY <2>5, <2>6
<1>4. \A n \in 0..N : Good(n)
  <2>1. T = Nat
    <3>1. T \in SUBSET Nat
      OBVIOUS
    <3> HIDE DEF T
    <3> QED
      BY <1>2, <1>3, <3>1, Climb
  <2> QED
    BY <2>1
<1>5. ASSUME NEW n \in 1..N, F[n - 1].ret # NATIVE PROVE F[n] \in S
  <2>1. n - 1 \in 0..N
    OBVIOUS
  <2>2. Linked(F[n - 1], S)
    BY <1>4, <2>1
  <2> QED
    BY <1>1, <1>5, <2>2, Lower
<1>6. F[N].ret = NATIVE
  <2>1. SUFFICES ASSUME F[N].ret # NATIVE PROVE FALSE
    OBVIOUS
  <2>2. N \in 0..N
    OBVIOUS
  <2>3. PICK v : v = F[N]
    OBVIOUS
  <2>4. Linked(v, S) /\ v.sp \in Nat /\ v.sp + N <= N /\ v.ret # NATIVE
    BY <1>4, <2>1, <2>2, <2>3
  <2>5. Unwound(v).sp \in Nat /\ Unwound(v).sp < v.sp
    BY <2>4, Lower
  <2> QED
    BY <2>4, <2>5
<1> QED
  BY <1>1, <1>4, <1>5, <1>6

---------------------------------------------------------------------------
(* Exceptions.                                                             *)

\* The search ends in a frame below w, a handler or the last one.
LEMMA Found ==
  ASSUME prog \in Checked, NEW S, Callers(S), NEW w, Linked(w, S)
  PROVE  LET h == FindHandler(w)
         IN Linked(h, S) /\ h.sp <= w.sp /\ Stops(h)
<1>1. PICK N \in Nat : N = w.sp
  BY DEF Linked, Frame
<1>2. PICK F : F = Frames(w)
  OBVIOUS
<1>3. (\A n \in 0..N : Linked(F[n], S) /\ F[n].sp <= N) /\ F[N].ret = NATIVE
  BY <1>1, <1>2, Descent
<1>4. PICK T : T = {k \in 0..N : Stops(F[k])}
  OBVIOUS
<1>5. T \in SUBSET Nat /\ T # {}
  <2>1. N \in 0..N /\ Stops(F[N])
    BY <1>3 DEF Stops
  <2> QED
    BY <1>4, <2>1
<1>6. PICK x \in T : \A y \in T : x <= y
  BY <1>5, Least
<1>7. x \in 0..N /\ Stops(F[x]) /\ \A j \in 0..(x - 1) : ~Stops(F[j])
  <2>1. x \in 0..N /\ Stops(F[x])
    BY <1>4
  <2>2. ASSUME NEW j \in 0..(x - 1), Stops(F[j]) PROVE FALSE
    <3>1. j \in 0..N /\ ~(x <= j)
      BY <2>1
    <3> QED
      BY <1>4, <1>6, <2>2, <3>1
  <2> QED
    BY <2>1, <2>2
<1>8. PICK n : n = CHOOSE k \in 0..N : Stops(F[k]) /\ \A j \in 0..(k - 1) : ~Stops(F[j])
  OBVIOUS
<1>9. n \in 0..N /\ Stops(F[n])
  BY <1>7, <1>8
<1>10. FindHandler(w) = F[n]
  BY <1>1, <1>2, <1>8 DEF FindHandler
<1> QED
  BY <1>1, <1>3, <1>9, <1>10

\* The catch block begins in the frame that is found, and nothing below it is
\* touched.
LEMMA ThrownStep ==
  ASSUME IInv, status = Running, NEW v, NEW w, NEW S, Callers(S), Linked(w, S), w.sp <= sp,
         Thrown(v, w), prog' = prog, stack' = stack
  PROVE  IInv' /\ Untouched
<1>1. /\ prog \in Checked /\ sp \in Nat /\ sp <= StackSize + Slack /\ ap \in Nat /\ fp \in Nat
      /\ Slack \in Nat /\ StackSize \in Nat /\ DOMAIN stack = 0..(StackSize + Slack - 1)
  BY CurrentFacts, BaseFacts
<1>2. PICK h : h = FindHandler(w)
  OBVIOUS
<1>3. Linked(h, S) /\ h.sp <= w.sp /\ Stops(h)
  BY <1>1, <1>2, Found
<1>4. h.ap \in Nat /\ h.fp \in Nat /\ h.sp \in Nat /\ w.sp \in Nat
  BY <1>3 DEF Linked, Frame
<1>5. h.sp <= StackSize + Slack
  <2>1. PICK x \in Nat : x = h.sp
    BY <1>4
  <2>2. PICK y \in Nat : y = w.sp
    BY <1>4
  <2> QED
    BY <1>1, <1>3, <2>1, <2>2
<1>6. Untouched
  BY DEF Untouched
<1>7. CASE h.ret = NATIVE
  <2>1. status' = Ended("throw", v) /\ sp' = sp /\ ap' = ap /\ fp' = fp /\ exobj' = exobj
    BY <1>2, <1>7 DEF Thrown
  <2> QED
    BY <1>1, <1>6, <2>1, EndStep
<1>8. CASE h.ret # NATIVE
  <2>1. PICK m \in DOMAIN prog.entry : FrameOK(h, m)
    BY <1>3, <1>8 DEF Linked
  <2>2. Unwound(h) \in S /\ Unwound(h).sp < h.sp /\ Unwound(h).sp \in Nat
    BY <1>1, <1>3, <1>8, Lower
  <2>3. Enclosing(h) # {}
    BY <1>3, <1>8 DEF Stops
  <2>4. stack[h.fp] = ExInfo[m]
    <3>1. stack[h.fp] # NULL
      BY <2>3 DEF Enclosing, Blocks
    <3> QED
      BY <2>1, <3>1 DEF FrameOK
  <2>5. Blocks(h) = prog.exinfo[m]
    BY <1>1, <2>4, MethodFacts DEF Blocks
  <2>6. PICK i : i = Around(h)
    OBVIOUS
  <2>7. i \in DOMAIN prog.exinfo[m]
    <3>1. Enclosing(h) \subseteq DOMAIN prog.exinfo[m]
      BY <2>5 DEF Enclosing
    <3>2. Enclosing(h) \in SUBSET Nat
      BY <1>1, <3>1, ProgramAssumption DEF Checked
    <3>3. \E x \in Enclosing(h) : \A y \in Enclosing(h) : x <= y
      BY <2>3, <3>2, Least
    <3>4. i \in Enclosing(h)
      BY <2>6, <3>3 DEF Around
    <3> QED
      BY <3>1, <3>4
  <2>8. PICK c : c = prog.exinfo[m][i].catch
    OBVIOUS
  <2>9. Begins(prog, Shape(prog), c, m)
    BY <1>1, <2>7, <2>8 DEF Checked, WellTyped
  <2>10. c \in Nat
    <3>1. c \in DOMAIN Shape(prog)
      BY <2>9 DEF Begins
    <3> QED
      BY <1>1, <3>1, CodeFacts
  <2>11. /\ ap' = h.ap /\ fp' = h.fp /\ sp' = h.sp /\ ip' = c
         /\ status' = status /\ DOMAIN exobj' = DOMAIN exobj
    BY <1>2, <1>8, <2>5, <2>6, <2>8 DEF Thrown
  <2>12. Executing' /\ Unwound(Current)' = Unwound(h)
    <3>1. /\ fp' = ap' + 5 /\ fp' + prog.locals[m] < sp'
          /\ stack'[fp' - 4] = THISCLS /\ stack'[fp'] = ExInfo[m]
      BY <2>1, <2>4, <2>11 DEF FrameOK
    <3>2. Begins(prog, Shape(prog), ip', m) /\ ip' \in Nat /\ fp' \in Nat /\ sp' \in Nat
      BY <1>4, <2>9, <2>10, <2>11
    <3>3. Executing' /\ Unwound(Current)' = At(stack'[fp' - 2], stack'[fp' - 1], ap', stack'[fp' - 3])
      BY <1>1, <3>1, <3>2, Entered
    <3>4. Unwound(h) = At(stack[h.fp - 2], stack[h.fp - 1], h.ap, stack[h.fp - 3])
      BY <1>8 DEF Unwound
    <3> QED
      BY <2>11, <3>3, <3>4
  <2>13. \E R : Callers(R)' /\ Unwound(h) \in R
    <3>1. PICK a \in Nat : a = h.sp
      BY <1>4
    <3>2. PICK R : R = {x \in S : x.sp <= a}
      OBVIOUS
    <3>3. \A x \in 0..(a - 1) : stack'[x] = stack[x]
      OBVIOUS
    <3>4. Callers(R)'
      BY <1>1, <3>2, <3>3, Kept
    <3>5. Unwound(h).sp <= a
      BY <2>2, <3>1
    <3> QED
      BY <2>2, <3>2, <3>4, <3>5
  <2>14. prog' \in Checked /\ DOMAIN exobj' = DOMAIN prog'.entry
    BY <1>1, <2>11 DEF IInv
  <2> QED
    BY <1>1, <1>4, <1>5, <1>6, <2>11, <2>12, <2>13, <2>14 DEF IInv, InMemory
<1> QED
  BY <1>7, <1>8

LEMMA THROWStep == ASSUME IInv, THROW PROVE IInv' /\ Untouched
<1>1. /\ status = Running /\ Op.op = "THROW" /\ prog' = prog /\ stack' = stack
      /\ Thrown(Top, At(ap, fp, sp - 1, ip + 1 + 1))
  BY DEF THROW, Runs
<1>2. PICK S : Callers(S) /\ Unwound(Current) \in S
  BY <1>1 DEF IInv
<1>3. PICK w : w = At(ap, fp, sp - 1, ip + 1 + 1)
  OBVIOUS
<1>4. PICK m : m = MethodAt(prog, ip)
  OBVIOUS
<1>5. PICK k \in Nat : k = prog.locals[m]
  BY <1>1, <1>4, CurrentFacts
<1>6. PICK c \in Nat : sp = c + 1 /\ fp + k < c
  <2>1. PICK n \in Nat : n = Len(Shape(prog)[ip].ops)
    BY <1>1, CurrentFacts
  <2>2. 1 <= n
    <3>1. Takes(Op) = 1
      BY <1>1 DEF Takes
    <3> QED
      BY <1>1, <2>1, <3>1, BaseFacts DEF ReliesOn
  <2>3. PICK f \in Nat : f = fp
    BY <1>1, BaseFacts
  <2>4. PICK s \in Nat : s = sp
    BY <1>1, BaseFacts
  <2>5. f + k + n < s
    BY <1>1, <1>4, <1>5, <2>1, <2>3, <2>4, CurrentFacts
  <2>6. s - 1 \in Nat /\ s = (s - 1) + 1 /\ f + k < s - 1
    BY <2>2, <2>5
  <2> QED
    BY <2>3, <2>4, <2>6
<1>7. /\ w.ap = ap /\ w.fp = fp /\ w.sp = c /\ w.ret # NATIVE /\ w \in Frame
  <2>1. PICK i \in Nat : i = ip
    BY <1>1, CurrentFacts
  <2>2. i + 1 + 1 \in Int /\ i + 1 + 1 # NATIVE
    BY DEF NATIVE
  <2>3. ap \in Nat /\ fp \in Nat
    BY <1>1, CurrentFacts, BaseFacts
  <2>4. sp - 1 = c
    BY <1>6
  <2>5. w = At(ap, fp, c, i + 1 + 1)
    BY <1>3, <2>1, <2>4
  <2> QED
    BY <2>2, <2>3, <2>5 DEF At, Frame
<1>8. Linked(w, S)
  <2>1. m \in DOMAIN prog.entry /\ FrameOK(w, m)
    BY <1>1, <1>4, <1>5, <1>6, <1>7, CurrentFacts DEF FrameOK
  <2>2. Unwound(w) = Unwound(Current)
    <3>1. Unwound(w) = At(stack[fp - 2], stack[fp - 1], ap, stack[fp - 3])
      BY <1>7 DEF Unwound
    <3> QED
      BY <1>1, <3>1, CallerOfCurrent
  <2> QED
    BY <1>2, <1>7, <2>1, <2>2 DEF Linked
<1>9. w.sp <= sp
  BY <1>6, <1>7
<1> QED
  BY <1>1, <1>2, <1>3, <1>8, <1>9, ThrownStep

LEMMA NativeThrowStep == ASSUME IInv, NativeThrow PROVE IInv' /\ Untouched
<1>1. /\ status = Running /\ Op.op = "CALL" /\ prog' = prog /\ stack' = stack
  BY DEF NativeThrow, Runs
<1>2. PICK S : Callers(S) /\ Unwound(Current) \in S
  BY <1>1 DEF IInv
<1>3. PICK w : w = At(ap, fp, sp - 1, ip + 1)
  OBVIOUS
<1>4. w \in Frame /\ w.ret # NATIVE /\ Waits(w) /\ Unwound(w) = Unwound(Current)
  BY <1>1, <1>3, Suspended
<1>5. Linked(w, S)
  <2>1. PICK m : Carries(w, m, Without(Shape(prog)[w.ret].ops, 1))
    BY <1>4 DEF Waits
  <2> QED
    BY <1>2, <1>4, <2>1 DEF Carries, Linked
<1>6. PICK s \in Nat : s = sp
  BY <1>1, CurrentFacts
<1>7. w.sp <= sp /\ w.sp \in Nat
  <2>1. w.sp = s - 1
    BY <1>3, <1>6 DEF At
  <2> QED
    BY <1>4, <1>6, <2>1 DEF Frame
<1>8. CASE TailCall
  <2>1. Thrown(Top, Unwound(w))
    BY <1>3, <1>8 DEF NativeThrow
  <2>2. Linked(Unwound(w), S) /\ Unwound(w).sp \in Nat /\ Unwound(w).sp < w.sp
    BY <1>1, <1>2, <1>4, <1>5, CurrentFacts, Lower
  <2>3. PICK u : u = Unwound(w)
    OBVIOUS
  <2>4. u.sp <= sp
    <3>1. PICK x \in Nat : x = u.sp
      BY <2>2, <2>3
    <3>2. PICK y \in Nat : y = w.sp
      BY <1>7
    <3> QED
      BY <1>6, <1>7, <2>2, <2>3, <3>1, <3>2
  <2> QED
    BY <1>1, <1>2, <2>1, <2>2, <2>3, <2>4, ThrownStep
<1>9. CASE ~TailCall
  <2>1. Thrown(Top, w)
    BY <1>3, <1>9 DEF NativeThrow
  <2> QED
    BY <1>1, <1>2, <1>5, <1>7, <2>1, ThrownStep
<1> QED
  BY <1>8, <1>9

\* Steps at which the program ends where it stands.
LEMMA StopStep ==
  ASSUME IInv, VmError \/ StackOverflow PROVE IInv' /\ Untouched
<1>1. /\ prog' = prog /\ stack' = stack /\ sp' = sp /\ ap' = ap /\ fp' = fp /\ exobj' = exobj
      /\ \E how \in {"error", "overflow"}, v \in {0, NULL} : status' = Ended(how, v)
  BY DEF VmError, StackOverflow
<1>2. ap \in Nat /\ fp \in Nat /\ sp \in Nat /\ sp <= StackSize + Slack
  BY DEF IInv, InMemory
<1> QED
  BY <1>1, <1>2, EndStep DEF Untouched

---------------------------------------------------------------------------
(* The invariant.                                                          *)

LEMMA InitHolds == ASSUME AllWellTyped, Init PROVE IInv
<1>1. /\ prog \in Checked /\ ap = 0 /\ fp = 5 /\ sp = 6 + prog.locals[1] /\ ip = prog.entry[1]
      /\ exobj = [m \in DOMAIN prog.entry |-> NULL] /\ status = Running
  BY DEF Init, AllWellTyped, Checked
<1>2. /\ 1 \in DOMAIN prog.entry
      /\ Slack \in Nat /\ StackSize \in Nat /\ 5 <= StackSize
  BY <1>1, ProgramAssumption, StackAssumption DEF Checked
<1>3. PICK k \in Nat : k = prog.locals[1] /\ k < Slack
  BY <1>1, <1>2, MethodFacts
<1>4. sp = 6 + k /\ sp \in Nat /\ sp <= StackSize + Slack
  BY <1>1, <1>2, <1>3
<1>5. /\ DOMAIN stack = 0..(StackSize + Slack - 1)
      /\ stack[1] = THISCLS /\ stack[2] = NATIVE /\ stack[3] = 0 /\ stack[4] = 0 /\ stack[5] = NULL
  <2>1. /\ 1 \in 0..(StackSize + Slack - 1) /\ 2 \in 0..(StackSize + Slack - 1)
        /\ 3 \in 0..(StackSize + Slack - 1) /\ 4 \in 0..(StackSize + Slack - 1)
        /\ 5 \in 0..(StackSize + Slack - 1)
    BY <1>2, <1>3
  <2> QED
    BY <2>1 DEF Init
<1>6. /\ ip \in Nat /\ ip \in DOMAIN Shape(prog) /\ MethodAt(prog, ip) = 1
      /\ Shape(prog)[ip].ops = <<>> /\ ~Shape(prog)[ip].info
  BY <1>1, <1>2, EntryFacts DEF Begins
<1>7. FrameOK(Current, 1)
  BY <1>1, <1>3, <1>4, <1>5 DEF FrameOK, Current, At
<1>8. Executing
  <2>1. Len(<<>>) = 0 /\ 1..Len(<<>>) = {}
    BY EmptySeq
  <2>2. Carries(Current, 1, <<>>)
    <3>1. fp + prog.locals[1] + Len(<<>>) < sp
      BY <1>1, <1>3, <1>4, <2>1
    <3> QED
      BY <1>2, <1>7, <2>1, <3>1 DEF Carries, Current, At
  <2> QED
    BY <1>6, <2>2 DEF Executing, Shaped
<1>9. Callers({At(0, 0, 0, NATIVE)})
  BY DEF Callers, Frame, At, NATIVE
<1>10. Unwound(Current) = At(0, 0, 0, NATIVE)
  <2>1. ip + 1 # NATIVE
    BY <1>6 DEF NATIVE
  <2>2. Unwound(Current) = At(stack[fp - 2], stack[fp - 1], ap, stack[fp - 3])
    BY <2>1 DEF Unwound, Current, At
  <2>3. fp - 2 = 3 /\ fp - 1 = 4 /\ fp - 3 = 2
    BY <1>1
  <2> QED
    BY <1>1, <1>5, <2>2, <2>3
<1>11. ap \in Nat /\ fp \in Nat /\ DOMAIN exobj = DOMAIN prog.entry
  BY <1>1
<1> QED
  BY <1>1, <1>4, <1>5, <1>8, <1>9, <1>10, <1>11 DEF IInv, InMemory

LEMMA NextKeeps == ASSUME IInv, Next PROVE IInv' /\ Untouched
<1>1. CASE LVBI_C \/ LVBI_ARG \/ LVBI_LOC \/ LD_EXOBJ \/ POP \/ WRT \/ DR \/ BOP \/ UNM \/ NOT
             \/ JU \/ IFNJ
  BY <1>1, PlainStep
<1>2. CASE LABI_LOC
  BY <1>2, LABI_LOCStep
<1>3. CASE ST
  BY <1>3, STStep
<1>4. CASE DUP
  BY <1>4, DUPStep
<1>5. CASE ST_EXINFO
  BY <1>5, ST_EXINFOStep
<1>6. CASE VmError \/ StackOverflow
  BY <1>6, StopStep
<1>7. CASE \E m \in DOMAIN prog.entry : BC_CALL(m) \/ BC_TCALL(m)
  BY <1>7, BC_CALLStep, BC_TCALLStep
<1>8. CASE RET \/ NativeReturn
  BY <1>8, ReturnStep
<1>9. CASE THROW
  BY <1>9, THROWStep
<1>10. CASE NativeThrow
  BY <1>10, NativeThrowStep
<1> QED
  BY <1>1, <1>2, <1>3, <1>4, <1>5, <1>6, <1>7, <1>8, <1>9, <1>10 DEF Next

LEMMA StutterKeeps == ASSUME IInv, UNCHANGED vars PROVE IInv'
<1>1. /\ prog' = prog /\ stack' = stack /\ sp' = sp /\ ap' = ap /\ fp' = fp /\ ip' = ip
      /\ exobj' = exobj /\ status' = status
  BY DEF vars
<1>2. InMemory' = InMemory
  BY <1>1 DEF InMemory
<1>3. Executing' = Executing
  BY <1>1 DEF Executing, Carries, FrameOK, LocalCells, Shaped, Current, At
<1>4. Unwound(Current)' = Unwound(Current)
  BY <1>1 DEF Unwound, Current, At
<1>5. \A w : (Unwound(w)' = Unwound(w)) /\ (Waits(w)' = Waits(w))
  BY <1>1 DEF Unwound, Waits, Carries, FrameOK, LocalCells, Shaped
<1>6. \A S : Callers(S)' = Callers(S)
  BY <1>5 DEF Callers
<1> QED
  BY <1>1, <1>2, <1>3, <1>4, <1>6 DEF IInv

\* Execution always stands at an address whose operands are known, in a whole
\* frame above a set of whole frames that is closed under unwinding.
THEOREM Invariant == ASSUME AllWellTyped PROVE Spec => []IInv
<1>1. Init => IInv
  BY InitHolds
<1>2. IInv /\ [Next]_vars => IInv'
  BY NextKeeps, StutterKeeps
<1> QED
  BY <1>1, <1>2, PTL DEF Spec

---------------------------------------------------------------------------
(* What it gives.                                                          *)

\* Every register is an index and the next instruction is one of the program:
\* no jump, return or catch block leads out of bc_arr_g.
THEOREM RegistersValid == ASSUME AllWellTyped PROVE Spec => []Registers
<1>1. ASSUME IInv PROVE Registers
  <2>1. ASSUME status.end = "run" PROVE ip \in 0..(Len(prog.code) - 1)
    <3>1. status = Running
      BY <1>1, <2>1 DEF IInv
    <3>2. prog \in Checked /\ ip \in DOMAIN Shape(prog)
      BY <1>1, <3>1, CurrentFacts
    <3> QED
      BY <3>2, CodeFacts
  <2> QED
    BY <1>1, <2>1 DEF IInv, Registers
<1> QED
  BY <1>1, Invariant, PTL

\* The cells below the current frame are never written: not by the unchecked
\* stores of ST, the frames that calls build or reuse, returns or exceptions.
THEOREM CallersKept == ASSUME AllWellTyped PROVE Spec => CallersUntouched
<1>1. IInv /\ Next => \A c \in 0..(ap - 1) : stack'[c] = stack[c]
  BY NextKeeps DEF Untouched
<1>2. IInv /\ [Next]_vars => [\A c \in 0..(ap - 1) : stack'[c] = stack[c]]_vars
  BY <1>1
<1> QED
  BY <1>2, Invariant, PTL DEF Spec, CallersUntouched

\* The saved registers lead from the current frame through a whole frame of
\* every active method to the one that vm_call_main built.
THEOREM FramesWhole == ASSUME AllWellTyped PROVE Spec => []FrameChain
<1>1. ASSUME IInv PROVE FrameChain
  <2>1. SUFFICES ASSUME status = Running
                 PROVE  LET F == Frames(At(ap, fp, sp, ip + 1))
                        IN \E d \in 1..sp :
                             /\ \A n \in 0..(d - 1) :
                                  /\ n > 0 => prog.code[F[n].ret].op = "CALL"
                                  /\ FrameOK(F[n], MethodAt(prog, F[n].ret - 1))
                             /\ F[d].ret = NATIVE /\ F[d].sp = 0
    BY <1>1 DEF FrameChain, IInv
  <2>2. PICK S : Callers(S) /\ Unwound(Current) \in S
    BY <1>1, <2>1 DEF IInv
  <2>3. PICK N \in Nat : N = sp
    BY <1>1, <2>1, CurrentFacts
  <2>4. PICK i \in Nat : i = ip
    BY <1>1, <2>1, CurrentFacts
  <2>5. PICK w : w = At(ap, fp, sp, ip + 1)
    OBVIOUS
  <2>6. PICK F : F = Frames(w)
    OBVIOUS
  <2>7. /\ prog \in Checked /\ MethodAt(prog, ip) \in DOMAIN prog.entry
        /\ FrameOK(w, MethodAt(prog, ip))
    <3>1. Carries(Current, MethodAt(prog, ip), Shape(prog)[ip].ops)
      BY <1>1, <2>1 DEF IInv, Executing
    <3> QED
      BY <1>1, <2>1, <2>5, <3>1, CurrentFacts DEF Carries, Current
  <2>8. w.sp = N /\ w.ret = i + 1 /\ w.ret # NATIVE /\ w \in Frame
    <3>1. ap \in Nat /\ fp \in Nat
      BY <1>1 DEF IInv
    <3>2. i + 1 # NATIVE /\ i + 1 \in Int
      BY DEF NATIVE
    <3> QED
      BY <2>3, <2>4, <2>5, <3>1, <3>2 DEF At, Frame
  <2>9. Linked(w, S)
    <3>1. Unwound(w) \in S
      BY <2>2, <2>5 DEF Current
    <3> QED
      BY <2>7, <2>8, <3>1 DEF Linked
  <2>10. /\ F[0] = w /\ F[N].ret = NATIVE
         /\ \A n \in 1..N : F[n - 1].ret # NATIVE => F[n] \in S
    BY <2>2, <2>6, <2>7, <2>8, <2>9, Descent
  <2>11. PICK d \in {n \in 0..N : F[n].ret = NATIVE} :
           \A n \in {n \in 0..N : F[n].ret = NATIVE} : d <= n
    <3>1. PICK T : T = {n \in 0..N : F[n].ret = NATIVE}
      OBVIOUS
    <3>2. T \in SUBSET Nat /\ T # {}
      BY <2>10, <3>1
    <3> QED
      BY <3>1, <3>2, Least
  <2>12. d \in 1..N /\ F[d].ret = NATIVE
    <3>1. d # 0
      BY <2>8, <2>10, <2>11
    <3> QED
      BY <2>11, <3>1
  <2>13. \A n \in 0..(d - 1) : n \in 0..N /\ F[n].ret # NATIVE
    <3>1. \A n \in 0..(d - 1) : n \in 0..N /\ ~(d <= n)
      BY <2>12
    <3> QED
      BY <2>11, <3>1
  <2>14. \A n \in 1..d : F[n] \in S
    <3>1. \A n \in 1..d : n \in 1..N /\ n - 1 \in 0..(d - 1)
      BY <2>12
    <3> QED
      BY <2>10, <2>13, <3>1
  <2>15. F[d].sp = 0
    <3>1. F[d] \in S
      BY <2>12, <2>14
    <3> QED
      BY <2>2, <2>12, <3>1 DEF Callers
  <2>16. ASSUME NEW n \in 0..(d - 1)
         PROVE  /\ n > 0 => prog.code[F[n].ret].op = "CALL"
                /\ FrameOK(F[n], MethodAt(prog, F[n].ret - 1))
    <3>1. CASE n = 0
      <4>1. F[n].ret - 1 = i
        BY <2>8, <2>10, <3>1
      <4> QED
        BY <2>4, <2>7, <2>10, <3>1, <4>1
    <3>2. CASE n # 0
      <4>1. n \in 1..d
        BY <2>12, <3>2
      <4>2. PICK x : x = F[n]
        OBVIOUS
      <4>3. x \in S /\ x.ret # NATIVE
        BY <2>13, <2>14, <4>1, <4>2
      <4>4. Waits(x)
        BY <2>2, <4>3 DEF Callers
      <4>5. prog.code[x.ret].op = "CALL" /\ FrameOK(x, MethodAt(prog, x.ret - 1))
        BY <4>4 DEF Waits, Carries
      <4> QED
        BY <4>2, <4>5
    <3> QED
      BY <3>1, <3>2
  <2> QED
    BY <2>3, <2>5, <2>6, <2>12, <2>15, <2>16
<1> QED
  BY <1>1, Invariant, PTL
=============================================================================
