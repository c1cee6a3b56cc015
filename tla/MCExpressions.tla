--------------------------- MODULE MCExpressions ---------------------------
(***************************************************************************)
(* Small programs for Execution that compute: every pair of operators in   *)
(* both shapes, with constants to fold and without; loops, switches and    *)
(* compound assignments; recursion in an operand; exceptions and errors in *)
(* the middle of an expression.                                            *)
(***************************************************************************)
EXTENDS Verifier

CONSTANTS nret, nthrow     \* native methods
MCNative == (nret :> "return") @@ (nthrow :> "throw")

CONSTANTS info1, info2
MCExInfo == <<info1, info2>>

Fuel == 8
Argument == 8

---------------------------------------------------------------------------
(* Expressions.                                                            *)
Leaves == {<<Arg(0), Const(2), Const(3)>>, <<Const(6), Const(2), Local(0)>>,
           <<Const(7), Const(3), Const(2)>>}

Pairs == {Bop(o, Bop(p, x[1], x[2]), x[3]) : o, p \in Operators, x \in Leaves}
         \cup {Bop(o, x[1], Bop(p, x[2], x[3])) : o, p \in Operators, x \in Leaves}

Unary(e) == {UnMinus(e), Not(e)}
Signed ==
  LET some == {Arg(0), Const(3), UnMinus(Const(3)), Not(Local(0)), Bop("Minus", Local(0), Arg(0))}
      ops == {"Minus", "Times", "Divide", "Modulo", "BitOr", "BitAnd", "Xor", "Rsh", "LogOr"}
      all == some \cup UNION {Unary(e) : e \in some}
  IN all \cup {Bop(o, x, Const(3)) : o \in ops, x \in all}
     \cup {Bop(o, Const(7), x) : o \in {"Minus", "Divide", "Modulo", "LogAnd"}, x \in all}

\* Four operators in a row, weak ones inside and outside.
Chains ==
  LET ops == {"LogOr", "Xor", "BitAnd", "Less", "Minus", "Times"}
  IN {Bop(a, Bop(b, Bop(c, Local(0), Const(1)), Arg(0)), Const(2)) : a, b, c \in ops}

Calls ==
  { Bop("Minus", Call(2, Const(3)), Call(2, Const(2))), Bop("LogOr", Const(1), Call(2, Const(1))),
    Bop("Plus", Arg(0), Call(nthrow, Const(4))), UnMinus(Call(2, Const(3))),
    Call(2, Bop("Plus", Call(2, Const(1)), Const(1))),
    Bop("Eq", Const(NIL), Arg(0)), Bop("NotEq", Const(NIL), Const(NIL)),
    Bop("Plus", Const(NIL), Arg(0)), UnMinus(Const(NIL)), Not(Const(NIL)), Const(NIL) }

---------------------------------------------------------------------------
(* Statements.                                                             *)
Less3 == Bop("Less", Local(0), Const(3))
Count == AssignWithBop("Plus", 0, Const(1))
ForTo3(s) == For(Assign(0, Const(0)), Less3, Count, s)
Block(s, t) == StatmList(<<s, t>>)

Compound == {AssignWithBop(o, 0, e) : o \in {"Plus", "Minus", "Times", "Divide", "Modulo"},
                                      e \in {Const(1), Const(3), Bop("Plus", Arg(0), Local(0))}}

Loops ==
  {ForTo3(s) :
     s \in { Write(Local(0)), Empty, Count,
             Block(Write(Local(0)), If(Bop("Eq", Local(0), Const(1)), Break, Empty)),
             If(Bop("Eq", Local(0), Const(1)), Break, Write(Local(0))),
             Try(Assign(1, Bop("Plus", Local(0), Call(nthrow, Local(0)))), 1, Write(ExObj(1))),
             Block(For(Assign(1, Const(7)), Bop("Less", Local(1), Arg(0)), Assign(1, Const(9)), Break), Write(Local(1))),
             Block(For(Assign(1, Const(0)), Bop("NotEq", Local(1), Const(2)), AssignWithBop("Plus", 1, Const(1)),
                       If(Local(1), Break, Empty)), Write(Local(1))),
             Try(Block(Write(Local(0)), Break), 1, Throw(ExObj(1))) }}
  \cup {While(Bop("Greater", Local(0), Const(3)), Block(AssignWithBop("Minus", 0, Const(1)), Write(Local(0)))),
        While(Bop("Less", Const(3), Const(2)), Write(Const(1))),
        If(Bop("Eq", Const(1), Const(1)), Write(Const(2)), Write(Const(3))),
        If(Not(Const(1)), Write(Const(2)), Try(Throw(Const(4)), 1, Write(ExObj(1)))),
        If(Const(1), Empty, Empty)}

Default(s) == CaseBlock(<<ScopeElse>>, s)
One == ScopeNumber(Const(1))
Between(a, b) == ScopeRange(Const(a), Const(b))

ScopeLists ==
  { <<ScopeNumber(Const(5))>>, <<One, ScopeNumber(Bop("Minus", Arg(0), Const(3)))>>,
    <<Between(4, 6)>>, <<Between(6, 4)>>, <<Between(5, 5)>>, <<One, Between(3, 2), Between(5, 8)>>,
    <<Between(3, 2), Between(6, 5), Between(5, 5), One>>, <<Between(-2, 4)>> }

Switches ==
  {Case(e, <<CaseBlock(l, Write(Const(1))), CaseBlock(<<One, Between(5, 8)>>, s), Default(Write(Const(3)))>>) :
     e \in {Local(0), Bop("Minus", Arg(0), Const(2)), Const(5), Bop("Minus", Const(6), Const(1)), Const(9)},
     l \in ScopeLists, s \in {Write(Const(2)), StatmList(<<Empty>>), Throw(Const(2))}}
  \cup {Case(Local(0), <<Default(Write(Const(3)))>>)}
  \cup {ForTo3(Case(Local(0), <<CaseBlock(<<One>>, Write(Local(0))), Default(Count)>>))}

---------------------------------------------------------------------------
(* Programs that the compiler is known to treat otherwise.                 *)

\* The expression of a switch is evaluated once for every label.
SwitchCalls(s) ==
  \E n \in Nodes(s) : n.k = "Case" /\ \E m \in Nodes(n.e) : m.k = "Call"

Excluded(s) ==
  \/ DivisionGoesOn(s) \/ SwitchWithoutDefault(s) \/ SwitchCalls(s)
  \/ DropsResult(s) \/ FalseIfWithoutElse(s) \/ ForNever(s) \/ ConstantSwitch(s)

---------------------------------------------------------------------------
(* Programs: main with one statement, and a method that it may call.       *)
Method(l) == [body |-> l, locals |-> 2]
Main(s) == Method(<<Assign(0, Const(5)), s, Write(Local(0))>>)

Recursion == If(Bop("LessOrEq", Arg(0), Const(1)), Return(Const(1)), Empty)
Callees ==
  { Method(<<Recursion, Return(Bop("Times", Arg(0), Call(2, Bop("Minus", Arg(0), Const(1)))))>>),
    Method(<<Write(Arg(0)), Assign(0, Bop("Plus", Arg(0), Const(1))), Return(Local(0))>>) }
Plain == Method(<<Return(Arg(0))>>)

\* The methods <<m, c>> written with sep, as a program unless it divides by
\* zero, leaves the integers or goes on for ever.
Program(m, c, sep) ==
  IF Meaning(<<m, c>>, Argument, Fuel).end \in {"undefined", "diverge"} THEN {}
  ELSE {Compile(<<FrontEnd(m, <<T(sep)>>), FrontEnd(c, <<T(sep)>>)>>, Argument, Fuel)}

\* Semicolons keep empty statements apart.
Statements == {Write(e) : e \in Pairs \cup Signed} \cup Compound \cup Loops \cup Switches
Calling == {Write(e) : e \in Calls \cup Chains} \cup {Try(Write(e), 1, Write(ExObj(1))) : e \in Calls}

MCPrograms ==
  LET plain == {Program(Main(s), Plain, "SEMICOLON") : s \in {t \in Statements : ~Excluded(t)}}
      calling == {Program(Main(s), c, "NEWLINE") : s \in {t \in Calling : ~Excluded(t)}, c \in Callees}
  IN {p \in UNION (plain \cup calling) : ~ThrowBeforeTry(p) /\ ~TailCallInTry(p)}
=============================================================================
