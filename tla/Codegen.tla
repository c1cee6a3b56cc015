------------------------------ MODULE Codegen ------------------------------
(***************************************************************************)
(* The code generator of the compiler (compiler/strom.cpp, the Translate   *)
(* methods, and compiler/bcout.cpp): from the syntax tree of a method to   *)
(* bytecode and to the table of its try blocks.                            *)
(*                                                                         *)
(* A syntax tree is a record with the kind of the node in field k.  An     *)
(* instruction takes one address, whatever its length in bytes is; the 16  *)
(* bytes of inline cache behind a call belong to the call.  Addresses start*)
(* at 0, as indices of bc_arr do.                                          *)
(***************************************************************************)
EXTENDS Integers, Sequences, SequencesExt

CONSTANT NIL      \* the NIL singleton of the language

---------------------------------------------------------------------------
(* Syntax trees.                                                           *)
Const(v) == [k |-> "Const", v |-> v]           \* Numb, String, Nil
Local(i) == [k |-> "Local", i |-> i]           \* Var of SC_LOCAL
Arg(i) == [k |-> "Arg", i |-> i]               \* Var of SC_ARG
ExObj(n) == [k |-> "ExObj", n |-> n]           \* Var of SC_EXOBJ named n
Call(m, e) == [k |-> "Call", m |-> m, e |-> e] \* m(e) as an expression
Bop(o, l, r) == [k |-> "Bop", o |-> o, left |-> l, right |-> r]
UnMinus(e) == [k |-> "UnMinus", e |-> e]
Not(e) == [k |-> "Not", e |-> e]

Empty == [k |-> "Empty"]
Write(e) == [k |-> "Write", e |-> e]
Assign(i, e) == [k |-> "Assign", i |-> i, e |-> e]
VoidCall(m, e) == [k |-> "VoidCall", m |-> m, e |-> e]
If(e, s, t) == [k |-> "If", e |-> e, s |-> s, t |-> t]
While(e, s) == [k |-> "While", e |-> e, s |-> s]
Break == [k |-> "Break"]
Try(s, n, t) == [k |-> "Try", s |-> s, n |-> n, t |-> t]
Throw(e) == [k |-> "Throw", e |-> e]
Return(e) == [k |-> "Return", e |-> e]
StatmList(l) == [k |-> "StatmList", l |-> l]
AssignWithBop(o, i, e) == [k |-> "AssignWithBop", o |-> o, i |-> i, e |-> e]
For(n, e, c, s) == [k |-> "For", init |-> n, e |-> e, counter |-> c, s |-> s]

\* switch: blocks of a statement and of the scopes that lead to it.
Case(e, b) == [k |-> "Case", e |-> e, b |-> b]
CaseBlock(scope, s) == [scope |-> scope, s |-> s]
ScopeElse == [type |-> 0]
ScopeNumber(eq) == [type |-> 1, eq |-> eq]
ScopeRange(lo, hi) == [type |-> 2, lo |-> lo, hi |-> hi]   \* lo, hi: Numb

---------------------------------------------------------------------------
(* Output: the code emitted and the try blocks added to the method's       *)
(* exception info, in that order.                                          *)
I(op) == [op |-> op]
I1(op, x) == [op |-> op, x |-> x]
I2(op, x, y) == [op |-> op, x |-> x, y |-> y]
IBop(o) == [op |-> "BOP", o |-> o]

Emit(code) == [code |-> code, blocks |-> <<>>]
Then(o, p) == [code |-> o.code \o p.code, blocks |-> o.blocks \o p.blocks]

\* A JU labelled BRK has no target until bco_resolve_break gives it one.
BRK == I("JU BRK")
ResolveBreak(code, target) ==
  [i \in DOMAIN code |-> IF code[i] = BRK THEN I1("JU", target) ELSE code[i]]

---------------------------------------------------------------------------
(* Expressions.                                                            *)
RECURSIVE TrE(_)
CallTranslate(e) == TrE(e.e) \o <<I2("CALL", e.m, 1)>>
VarTranslate(e) ==
  CASE e.k = "Local" -> <<I1("LVBI_LOC", e.i)>>
    [] e.k = "Arg" -> <<I1("LVBI_ARG", e.i)>>
    [] e.k = "ExObj" -> <<I("LD_EXOBJ")>>
BopTranslate(e) == TrE(e.left) \o TrE(e.right) \o <<IBop(e.o)>>
TrE(e) ==
  CASE e.k = "Const" -> <<I1("LVBI_C", e.v)>>
    [] e.k = "Call" -> CallTranslate(e)
    [] e.k = "Bop" -> BopTranslate(e)
    [] e.k = "UnMinus" -> TrE(e.e) \o <<I("UNM")>>
    [] e.k = "Not" -> TrE(e.e) \o <<I("NOT")>>
    [] OTHER -> VarTranslate(e)

---------------------------------------------------------------------------
(* Statements, translated at address a.                                    *)
RECURSIVE Tr(_, _)

AssignTranslate(s) == Emit(<<I1("LABI_LOC", s.i)>> \o TrE(s.e) \o <<I("ST")>>)

AssignWithBopUnkept(s) ==                              \* mutant: no DUP
  Emit(<<I1("LABI_LOC", s.i), I("DR")>> \o TrE(s.e) \o <<IBop(s.o), I("ST")>>)

\* The address of the variable is kept for ST while DR loads its value.
AssignWithBopTranslate(s) ==
  Emit(<<I1("LABI_LOC", s.i), I("DUP"), I("DR")>> \o TrE(s.e) \o <<IBop(s.o), I("ST")>>)

VoidCallUnpopped(s) == Emit(CallTranslate(s))                \* mutant: no POP
VoidCallTranslate(s) == Emit(CallTranslate(s) \o <<I("POP")>>)

IfTranslate(s, a) ==
  LET c == TrE(s.e)
      t == Tr(s.s, a + Len(c) + 1)
      b == a + Len(c) + 1 + Len(t.code)       \* after the then-branch
      e == Tr(s.t, b + 1)
  IN IF s.t = Empty
     THEN Then(Emit(c \o <<I1("IFNJ", b)>>), t)
     ELSE Then(Then(Emit(c \o <<I1("IFNJ", b + 1)>>), t),
               Then(Emit(<<I1("JU", b + 1 + Len(e.code))>>), e))

WhileFixedEarly(s, a) ==       \* mutant: the exit is fixed before JU is emitted
  LET c == TrE(s.e)
      t == Tr(s.s, a + Len(c) + 1)
      b == a + Len(c) + 1 + Len(t.code)
  IN [code |-> c \o <<I1("IFNJ", b)>> \o ResolveBreak(t.code, b + 1) \o <<I1("JU", a)>>,
      blocks |-> t.blocks]

WhileTranslate(s, a) ==
  LET c == TrE(s.e)
      t == Tr(s.s, a + Len(c) + 1)
      b == a + Len(c) + 1 + Len(t.code)        \* the jump back
  IN [code |-> c \o <<I1("IFNJ", b + 1)>> \o ResolveBreak(t.code, b + 1) \o <<I1("JU", a)>>,
      blocks |-> t.blocks]

\* break leaves the loop without running the counter.  init and counter are
\* assignments, so they have neither jumps nor blocks.
ForTranslate(s, a) ==
  LET n == Tr(s.init, a)
      c == TrE(s.e)
      cond == a + Len(n.code)
      t == Tr(s.s, cond + Len(c) + 1)
      k == Tr(s.counter, 0)
      b == cond + Len(c) + 1 + Len(t.code) + Len(k.code)      \* the jump back
  IN [code |-> n.code \o c \o <<I1("IFNJ", b + 1)>> \o ResolveBreak(t.code, b + 1)
               \o k.code \o <<I1("JU", cond)>>,
      blocks |-> t.blocks]

\* The tests of a case block that starts at address a; a match jumps to hit.
\* They evaluate the expression of the switch anew.
ScopeTranslate(e, x, a, hit) ==
  LET low == TrE(Bop("GreaterOrEq", e, x.lo))
      high == TrE(Bop("Greater", e, x.hi)) \o <<I1("IFNJ", hit)>>
  IN CASE x.type = 0 -> <<I1("JU", hit)>>
       [] x.type = 1 -> TrE(Bop("NotEq", e, x.eq)) \o <<I1("IFNJ", hit)>>
       [] x.type = 2 -> low \o <<I1("IFNJ", a + Len(low) + 1 + Len(high))>> \o high

ScopesTranslate(e, scope, a, hit) ==
  FoldLeft(LAMBDA c, x : c \o ScopeTranslate(e, x, a + Len(c), hit), <<>>, scope)

\* Every block but the last ends with a jump behind the switch.
RECURSIVE BlocksTranslate(_, _, _, _)
BlocksTranslate(e, b, a, end) ==
  IF b = <<>> THEN Emit(<<>>)
  ELSE LET hit == a + Len(ScopesTranslate(e, b[1].scope, a, 0)) + 1
           t == Tr(b[1].s, hit)
           leave == IF Len(b) > 1 THEN <<I1("JU", end)>> ELSE <<>>
           over == hit + Len(t.code) + Len(leave)
           tests == ScopesTranslate(e, b[1].scope, a, hit) \o <<I1("JU", over)>>
       IN Then(Then(Then(Emit(tests), t), Emit(leave)), BlocksTranslate(e, Tail(b), over, end))

CaseFallsThrough(s, a) == BlocksTranslate(s.e, s.b, a, a)   \* mutant: back to the tests
CaseTranslate(s, a) ==
  BlocksTranslate(s.e, s.b, a, a + Len(BlocksTranslate(s.e, s.b, a, 0).code))

\* The block is added after both parts have been translated, so a try block
\* nested in this one comes before it in the table.
TryTranslate(s, a) ==
  LET t == Tr(s.s, a)
      catch == a + Len(t.code) + 1
      c == Tr(s.t, catch)
      end == catch + Len(c.code)
  IN Then(Then(Then(t, Emit(<<I1("JU", end)>>)), c),
          [code |-> <<>>, blocks |-> <<[try |-> a, catch |-> catch]>>])

StatmListTranslate(s, a) ==
  FoldLeft(LAMBDA o, x : Then(o, Tr(x, a + Len(o.code))), Emit(<<>>), s.l)

Tr(s, a) ==
  CASE s.k = "Empty" -> Emit(<<>>)
    [] s.k = "Write" -> Emit(TrE(s.e) \o <<I("WRT")>>)
    [] s.k = "Assign" -> AssignTranslate(s)
    [] s.k = "VoidCall" -> VoidCallTranslate(s)
    [] s.k = "If" -> IfTranslate(s, a)
    [] s.k = "While" -> WhileTranslate(s, a)
    [] s.k = "Break" -> Emit(<<BRK>>)
    [] s.k = "Try" -> TryTranslate(s, a)
    [] s.k = "Throw" -> Emit(TrE(s.e) \o <<I("THROW")>>)
    [] s.k = "Return" -> Emit(TrE(s.e) \o <<I("RET")>>)
    [] s.k = "StatmList" -> StatmListTranslate(s, a)
    [] s.k = "AssignWithBop" -> AssignWithBopTranslate(s)
    [] s.k = "For" -> ForTranslate(s, a)
    [] s.k = "Case" -> CaseTranslate(s, a)

---------------------------------------------------------------------------
(* Methods.                                                                *)

\* The nodes of the tree n.
Parts(n) ==
  {n[f] : f \in DOMAIN n \cap {"e", "s", "t", "init", "counter", "left", "right"}}
  \cup (IF n.k = "StatmList" THEN ToSet(n.l) ELSE {})
  \cup (IF n.k = "Case"
        THEN UNION {{b.s} \cup {x.eq : x \in {y \in ToSet(b.scope) : y.type = 1}} : b \in ToSet(n.b)}
        ELSE {})
RECURSIVE Nodes(_)
Nodes(n) == {n} \cup UNION {Nodes(m) : m \in Parts(n)}

HasTry(l) == \E n \in Nodes(StatmList(l)) : n.k = "Try"

\* An implicit return is added unless the last statement is a return.
Body(l) == IF Last(l).k = "Return" THEN l ELSE Append(l, Return(Const(NIL)))

\* Method m with statements l at address a.  A method that declares a catch
\* variable stores its exception info into the frame first.
MethodTranslate(m, l, tries, a) ==
  LET exinfo == IF tries THEN Emit(<<I1("ST_EXINFO", m)>>) ELSE Emit(<<>>)
  IN Then(exinfo, Tr(StatmList(Body(l)), a + Len(exinfo.code)))

(* A program: its methods one after another.  A method of ast is a record  *)
(* [body, locals, tries]; all of them take one argument.                   *)
ProgTranslate(ast) ==
  LET Add(o, m) ==
        LET t == MethodTranslate(m, ast[m].body, ast[m].tries, Len(o.code))
        IN [code |-> o.code \o t.code,
            entry |-> Append(o.entry, Len(o.code)),
            exinfo |-> Append(o.exinfo, t.blocks)]
  IN FoldLeft(Add, [code |-> <<>>, entry |-> <<>>, exinfo |-> <<>>],
              [m \in DOMAIN ast |-> m])
=============================================================================
