----------------------------- MODULE Optimizer -----------------------------
(***************************************************************************)
(* The optimizer of the compiler (compiler/strom.cpp, the Optimize methods,*)
(* and Case::Optimize): constants are folded, branches and loops with a    *)
(* constant condition are resolved, and so are switches.                   *)
(*                                                                         *)
(* The methods change the tree in place and return the node that takes the *)
(* place of the old one; here they are functions from trees to trees.      *)
(* Where the code goes on with a node that has been deleted, or puts a     *)
(* null pointer into the tree, the result is Lost: such trees are named    *)
(* below and left out of the programs that run.                            *)
(***************************************************************************)
EXTENDS Codegen, Arith

Numb(e) == e.k = "Const" /\ e.v \in Int
Lost == [k |-> "Lost"]

---------------------------------------------------------------------------
(* Expressions.                                                            *)
RECURSIVE OptE(_)

\* Both operands are optimized; two numbers are folded by the operator of C.
BopOptimize(e) ==
  LET l == OptE(e.left)
      r == OptE(e.right)
  IN IF Numb(l) /\ Numb(r) THEN Const(CInt(e.o, l.v, r.v)) ELSE Bop(e.o, l, r)

\* The operand is optimized in place and the result dropped: an operand that
\* is folded deletes itself and is read afterwards.
Kept(e) == IF Numb(e) \/ ~Numb(OptE(e)) THEN OptE(e) ELSE Lost

UnMinusOptimize(e) ==
  LET x == Kept(e.e) IN IF Numb(x) THEN Const(-x.v) ELSE UnMinus(x)
NotOptimize(e) ==
  LET x == Kept(e.e) IN IF Numb(x) THEN Const(Truth(x.v = 0)) ELSE Not(x)

OptE(e) ==
  CASE e.k = "Bop" -> BopOptimize(e)
    [] e.k = "UnMinus" -> UnMinusOptimize(e)
    [] e.k = "Not" -> NotOptimize(e)
    [] e.k = "Call" -> [e EXCEPT !.e = OptE(@)]
    [] OTHER -> e

---------------------------------------------------------------------------
(* Statements.                                                             *)
RECURSIVE Opt(_)

\* No else branch is a null pointer in the code.
IfOptimize(s) ==
  LET c == OptE(s.e)
  IN IF ~Numb(c) THEN If(c, Opt(s.s), Opt(s.t))
     ELSE IF c.v # 0 THEN Opt(s.s)
     ELSE IF s.t = Empty THEN Lost ELSE Opt(s.t)

WhileOptimize(s) ==
  LET c == OptE(s.e)
  IN IF Numb(c) /\ c.v = 0 THEN Empty ELSE While(c, Opt(s.s))

\* The initial assignment goes with the loop; init and counter stay as they are.
ForOptimize(s) ==
  LET c == OptE(s.e)
  IN IF Numb(c) /\ c.v = 0 THEN Empty ELSE [s EXCEPT !.e = c, !.s = Opt(@)]

\* The scope x decides for the constant n.  A label that is not a number is
\* passed over.
Decides(x, n) ==
  CASE x.type = 0 -> TRUE
    [] x.type = 1 -> Numb(x.eq) /\ x.eq.v = n
    [] x.type = 2 -> n \in x.lo.v..x.hi.v

EmptyRange(x) == x.type = 2 /\ x.lo.v > x.hi.v

ScopesOptimizeWide(scope) ==                    \* mutant: any range of two ends
  [i \in DOMAIN scope |->
     IF scope[i].type = 2 /\ ~EmptyRange(scope[i]) THEN ScopeNumber(scope[i].lo) ELSE scope[i]]

\* A range of one number becomes a number and an empty range is taken out; of
\* several empty ranges in front only the first is.
ScopesOptimize(scope) ==
  LET leading(i) == i > 1 /\ \A j \in 1..i : EmptyRange(scope[j])
      one(x) == IF x.type = 2 /\ x.lo.v = x.hi.v THEN ScopeNumber(x.lo) ELSE x
      next(l, i) == IF ~EmptyRange(scope[i]) \/ leading(i) THEN Append(l, one(scope[i])) ELSE l
  IN FoldLeft(next, <<>>, [i \in DOMAIN scope |-> i])

CaseBlockOptimize(b) == CaseBlock(ScopesOptimize(b.scope), Opt(b.s))

\* A constant selects its block, or none.
CaseOptimize(s) ==
  LET c == OptE(s.e)
      hits == {i \in DOMAIN s.b : \E x \in ToSet(s.b[i].scope) : Decides(x, c.v)}
  IN IF ~Numb(c) THEN Case(c, [i \in DOMAIN s.b |-> CaseBlockOptimize(s.b[i])])
     ELSE IF hits = {} THEN Empty
     ELSE Opt(s.b[CHOOSE i \in hits : \A j \in hits : i <= j].s)

Opt(s) ==
  CASE s.k \in {"Write", "Assign", "AssignWithBop", "VoidCall", "Throw", "Return"} ->
         [s EXCEPT !.e = OptE(@)]
    [] s.k = "If" -> IfOptimize(s)
    [] s.k = "While" -> WhileOptimize(s)
    [] s.k = "For" -> ForOptimize(s)
    [] s.k = "Try" -> [s EXCEPT !.s = Opt(@), !.t = Opt(@)]
    [] s.k = "StatmList" -> StatmList([i \in DOMAIN s.l |-> Opt(s.l[i])])
    [] s.k = "Case" -> CaseOptimize(s)
    [] OTHER -> s

---------------------------------------------------------------------------
(* Trees on which the optimizer is known to go wrong.                      *)

\* UnMinus or Not of an operand that folds: the deleted operand is read.
DropsResult(s) ==
  \E n \in Nodes(s) : n.k \in {"UnMinus", "Not"} /\ ~Numb(n.e) /\ Numb(OptE(n.e))

Never(e) == LET c == OptE(e) IN Numb(c) /\ c.v = 0

\* If with a false constant and no else branch: a null pointer.
FalseIfWithoutElse(s) ==
  \E n \in Nodes(s) : n.k = "If" /\ n.t = Empty /\ Never(n.e)

\* For with a false constant: its initial assignment is dropped.
ForNever(s) == \E n \in Nodes(s) : n.k = "For" /\ Never(n.e)

\* A switch over a constant with a label that is none.
ConstantSwitch(s) ==
  \E n \in Nodes(s) :
    /\ n.k = "Case" /\ Numb(OptE(n.e))
    /\ \E b \in ToSet(n.b) : \E x \in ToSet(b.scope) : x.type = 1 /\ ~Numb(x.eq)
=============================================================================
