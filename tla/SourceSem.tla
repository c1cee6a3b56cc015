----------------------------- MODULE SourceSem -----------------------------
(***************************************************************************)
(* What a program of the language means: the reference the compiler and the*)
(* virtual machine are checked against.  A method is run on the syntax tree*)
(* itself, so there are no addresses, no stack and no frames here: a throw *)
(* leaves the innermost try block around it that is still being executed,  *)
(* in this method or in a caller, and a catch variable names what its own  *)
(* try block threw.                                                        *)
(*                                                                         *)
(* A run carries s = [out, loc, ex]: what was written so far, the local    *)
(* variables and the catch variables.  Its result adds how it ended, [r,   *)
(* v]: "next", "break", "return", "throw", "error" for what the virtual    *)
(* machine reports as an error (vm_error), "undefined" for an operation    *)
(* that C leaves open, or "diverge" when the fuel for loop iterations and  *)
(* calls is used up.                                                       *)
(***************************************************************************)
EXTENDS Codegen, Arith

CONSTANT Native   \* behaviour of the native methods: name -> "return", "throw"

\* A condition that does not jump: vm_execute_bc, IFNJ.
Holds(v) == v # 0 /\ v # NIL

Res(s, r, v) == [s |-> s, r |-> r, v |-> v]

\* The value of a binary operator: other values than integers can only be
\* compared, and are equal when they are one object.
Operate(op, a, b, s) ==
  IF a \in Int /\ b \in Int
  THEN IF Undefined(op, a, b) THEN Res(s, "undefined", 0) ELSE Res(s, "return", CInt(op, a, b))
  ELSE IF op \in {"Eq", "NotEq"} THEN Res(s, "return", Truth((a = b) = (op = "Eq")))
  ELSE Res(s, "error", 0)

\* The scope x of a switch admits the value v; eq(e) evaluates a label.
Admits(x, v, eq(_)) ==
  CASE x.type = 0 -> TRUE
    [] x.type = 1 -> eq(x.eq) = v
    [] x.type = 2 -> v \in x.lo.v..x.hi.v

RECURSIVE EvalE(_, _, _, _, _), Eval(_, _, _, _, _)

\* Method m of ast applied to v; the caller's state is s.
Apply(ast, m, v, s, fuel) ==
  IF m \in DOMAIN Native THEN Res(s, Native[m], v)
  ELSE IF fuel = 0 THEN Res(s, "diverge", v)
  ELSE LET body == StatmList(Body(ast[m].body))
           t == Eval(ast, body, v, [out |-> s.out, loc |-> [i \in 0..2 |-> NIL],
                                    ex |-> [n \in 1..2 |-> NIL]], fuel - 1)
       IN Res([s EXCEPT !.out = t.s.out], t.r, t.v)

\* Expression e where arg is the argument of the method.
EvalE(ast, e, arg, s, fuel) ==
  CASE e.k = "Const" -> Res(s, "return", e.v)
    [] e.k = "Local" -> Res(s, "return", s.loc[e.i])
    [] e.k = "Arg" -> Res(s, "return", arg)
    [] e.k = "ExObj" -> Res(s, "return", s.ex[e.n])
    [] e.k = "Call" -> LET x == EvalE(ast, e.e, arg, s, fuel)
                       IN IF x.r = "return" THEN Apply(ast, e.m, x.v, x.s, fuel) ELSE x
    [] e.k = "Bop" -> LET x == EvalE(ast, e.left, arg, s, fuel)
                          y == EvalE(ast, e.right, arg, x.s, fuel)
                      IN IF x.r # "return" THEN x
                         ELSE IF y.r # "return" THEN y ELSE Operate(e.o, x.v, y.v, y.s)
    [] e.k = "UnMinus" -> LET x == EvalE(ast, e.e, arg, s, fuel)
                          IN IF x.r # "return" THEN x
                             ELSE IF x.v \in Int THEN Operate("Minus", 0, x.v, x.s)
                             ELSE Res(x.s, "error", 0)
    [] e.k = "Not" -> LET x == EvalE(ast, e.e, arg, s, fuel)
                      IN IF x.r # "return" THEN x ELSE Res(x.s, "return", Truth(~Holds(x.v)))

Eval(ast, n, arg, s, fuel) ==
  LET With(e, F(_)) == LET x == EvalE(ast, e, arg, s, fuel)
                       IN IF x.r = "return" THEN F(x) ELSE x
      \* The loop of while and for from its condition on; each counts a round.
      Loop(x, again) ==
        IF ~Holds(x.v) THEN Res(x.s, "next", 0)
        ELSE IF fuel = 0 THEN Res(x.s, "diverge", 0)
        ELSE LET y == Eval(ast, n.s, arg, x.s, fuel - 1)
             IN CASE y.r = "next" -> Eval(ast, again, arg, y.s, fuel - 1)
                  [] y.r = "break" -> Res(y.s, "next", 0)
                  [] OTHER -> y
  IN CASE n.k = "Empty" -> Res(s, "next", 0)
       [] n.k = "Write" -> With(n.e, LAMBDA x :
            IF x.v \in Int THEN Res([x.s EXCEPT !.out = Append(@, x.v)], "next", 0)
            ELSE Res(x.s, "error", 0))
       [] n.k = "AssignWithBop" ->
            Eval(ast, Assign(n.i, Bop(n.o, Local(n.i), n.e)), arg, s, fuel)
       [] n.k = "Assign" -> With(n.e, LAMBDA x :
            Res([x.s EXCEPT !.loc[n.i] = x.v], "next", 0))
       [] n.k = "VoidCall" -> With(Call(n.m, n.e), LAMBDA x : Res(x.s, "next", 0))
       [] n.k = "Throw" -> With(n.e, LAMBDA x : Res(x.s, "throw", x.v))
       [] n.k = "Return" -> With(n.e, LAMBDA x : x)
       [] n.k = "Break" -> Res(s, "break", 0)
       [] n.k = "If" -> With(n.e, LAMBDA x :
            Eval(ast, IF Holds(x.v) THEN n.s ELSE n.t, arg, x.s, fuel))
       [] n.k = "While" -> With(n.e, LAMBDA x : Loop(x, n))
       [] n.k = "For" ->
            IF n.init # Empty
            THEN Eval(ast, StatmList(<<n.init, [n EXCEPT !.init = Empty]>>), arg, s, fuel)
            ELSE With(n.e, LAMBDA x : Loop(x, StatmList(<<n.counter, n>>)))
       [] n.k = "Case" -> With(n.e, LAMBDA x :
            LET label(e) == EvalE(ast, e, arg, x.s, fuel).v
                hits == {i \in DOMAIN n.b :
                           \E c \in ToSet(n.b[i].scope) : Admits(c, x.v, label)}
            IN IF hits = {} THEN Res(x.s, "next", 0)
               ELSE Eval(ast, n.b[Min(hits)].s, arg, x.s, fuel))
       [] n.k = "Try" -> LET x == Eval(ast, n.s, arg, s, fuel)
                         IN IF x.r = "throw"
                            THEN Eval(ast, n.t, arg, [x.s EXCEPT !.ex[n.n] = x.v], fuel)
                            ELSE x
       [] n.k = "StatmList" ->
            IF n.l = <<>> THEN Res(s, "next", 0)
            ELSE LET x == Eval(ast, Head(n.l), arg, s, fuel)
                 IN IF x.r = "next" THEN Eval(ast, StatmList(Tail(n.l)), arg, x.s, fuel)
                    ELSE x

(* What the program writes and how it ends: method 1 is main, called with  *)
(* its argument array, here the value arg.                                 *)
Meaning(ast, arg, fuel) ==
  LET t == Apply(ast, 1, arg, [out |-> <<>>, loc |-> <<>>, ex |-> <<>>], fuel)
  IN [out |-> t.s.out, end |-> t.r, v |-> t.v]
=============================================================================
