----------------------------- MODULE SourceText ----------------------------
(***************************************************************************)
(* How a syntax tree is written as a program text: the reference the parser*)
(* is checked against.  Parentheses are written only where the precedence  *)
(* of the operators asks for them, so a text is read back as the tree it   *)
(* was written from exactly when the parser has the same precedences and   *)
(* associates to the left.                                                 *)
(***************************************************************************)
EXTENDS Parser

LocalName(i) == <<"x", i>>
ArgName == <<"a", 0>>
ExName(n) == <<"e", n>>
MethodName(m) == <<"m", m>>
Name(id) == <<TokenOf("IDENT", id)>>

\* The operators from the weakest to the strongest; those of a set are equal.
Precedence ==
  << {"LogOr"}, {"Xor"}, {"LogAnd"}, {"BitOr"}, {"BitAnd"},
     {"Eq", "NotEq", "Less", "Greater", "LessOrEq", "GreaterOrEq"},
     {"Lsh", "Rsh"}, {"Plus", "Minus"}, {"Times", "Divide", "Modulo"} >>
Strength(op) == CHOOSE i \in DOMAIN Precedence : op \in Precedence[i]

Sign ==
  [LogOr |-> "LOG_OR", Xor |-> "XOR", LogAnd |-> "LOG_AND", BitOr |-> "BIT_OR",
   BitAnd |-> "BIT_AND", Eq |-> "EQ", NotEq |-> "NEQ", Less |-> "LT", Greater |-> "GT",
   LessOrEq |-> "LTE", GreaterOrEq |-> "GTE", Lsh |-> "LSHIFT", Rsh |-> "RSHIFT",
   Plus |-> "PLUS", Minus |-> "MINUS", Times |-> "TIMES", Divide |-> "DIVIDE",
   Modulo |-> "MODULO"]

InParens(t) == <<T("LPAR")>> \o t \o <<T("RPAR")>>

\* The text of e as an operand that binds at least as strongly as level i.
RECURSIVE TextE(_, _)
TextE(e, i) ==
  CASE e.k = "Const" ->
         IF e.v = NIL THEN <<T("kwNIL")>>
         ELSE IF e.v < 0 THEN <<T("MINUS"), TokenOf("NUMB", -e.v)>> ELSE <<TokenOf("NUMB", e.v)>>
    [] e.k = "Local" -> Name(LocalName(e.i))
    [] e.k = "Arg" -> Name(ArgName)
    [] e.k = "ExObj" -> Name(ExName(e.n))
    [] e.k = "Call" -> Name(MethodName(e.m)) \o InParens(TextE(e.e, 1))
    [] e.k = "UnMinus" -> <<T("MINUS")>> \o TextE(e.e, FaktorLevel)
    [] e.k = "Not" -> <<T("LOG_NOT")>> \o TextE(e.e, FaktorLevel)
    [] e.k = "Bop" ->
         LET n == Strength(e.o)
             t == TextE(e.left, n) \o <<T(Sign[e.o])>> \o TextE(e.right, n + 1)
         IN IF n < i THEN InParens(t) ELSE t

Expr(e) == TextE(e, 1)

\* The text of a list of parts with sep between them.
Joined(l, sep) == FoldLeft(LAMBDA t, x : IF t = <<>> THEN x ELSE t \o sep \o x, <<>>, l)

ScopeText(x) ==
  CASE x.type = 1 -> Expr(x.eq)
    [] x.type = 2 -> Expr(x.lo) \o <<T("DOUBLE_DOT")>> \o Expr(x.hi)

\* The text of statement s, with sep between the statements of a list.
RECURSIVE Text(_, _)
Text(s, sep) ==
  LET Header(kw, e) == <<T(kw)>> \o InParens(Expr(e))
      BlockText(b) ==
        (IF ScopeElse \in ToSet(b.scope) THEN <<T("kwDEFAULT")>>
         ELSE <<T("kwCASE")>> \o Joined([i \in DOMAIN b.scope |-> ScopeText(b.scope[i])], <<T("COMMA")>>))
        \o <<T("COLON")>> \o Text(b.s, sep) \o <<T("NEWLINE")>>
  IN CASE s.k = "Empty" -> <<>>
       [] s.k = "Write" -> <<T("kwWRITE")>> \o Expr(s.e)
       [] s.k = "Assign" -> Name(LocalName(s.i)) \o <<T("ASSIGN")>> \o Expr(s.e)
       [] s.k = "AssignWithBop" ->
            LET op == CHOOSE t \in DOMAIN AssignOps : AssignOps[t] = s.o
                count == {t \in DOMAIN CountOps : CountOps[t] = s.o /\ s.e = Const(1)}
            IN Name(LocalName(s.i))
               \o (IF count # {} THEN <<T(CHOOSE t \in count : TRUE)>> ELSE <<T(op)>> \o Expr(s.e))
       [] s.k = "VoidCall" -> Name(MethodName(s.m)) \o InParens(Expr(s.e))
       [] s.k = "Throw" -> <<T("kwTHROW")>> \o Expr(s.e)
       [] s.k = "Return" -> <<T("kwRETURN")>> \o Expr(s.e)
       [] s.k = "Break" -> <<T("kwBREAK")>>
       [] s.k = "If" -> Header("kwIF", s.e) \o Text(s.s, sep)
                        \o (IF s.t = Empty THEN <<>> ELSE <<T("kwELSE")>> \o Text(s.t, sep))
       [] s.k = "While" -> Header("kwWHILE", s.e) \o Text(s.s, sep)
       [] s.k = "For" ->
            <<T("kwFOR")>> \o InParens(Joined(<<Text(s.init, sep), Expr(s.e), Text(s.counter, sep)>>,
                                              <<T("SEMICOLON")>>)) \o Text(s.s, sep)
       [] s.k = "Try" -> <<T("kwTRY")>> \o Text(s.s, sep) \o <<T("kwCATCH")>>
                         \o InParens(Name(ExName(s.n))) \o Text(s.t, sep)
       [] s.k = "StatmList" ->
            <<T("LCURLY")>> \o Joined([i \in DOMAIN s.l |-> Text(s.l[i], sep)], sep) \o <<T("RCURLY")>>
       [] s.k = "Case" ->
            Header("kwSWITCH", s.e) \o <<T("LCURLY"), T("NEWLINE")>>
            \o FlattenSeq([i \in DOMAIN s.b |-> BlockText(s.b[i])]) \o <<T("RCURLY")>>

\* The declaration of n local variables, and its tree.
DeklText(n) ==
  <<T("kwVAR")>> \o Joined([i \in 1..n |-> Name(LocalName(i - 1))], <<T("COMMA")>>)
DeklTree(n) == StatmList([i \in 1..(n + 1) |-> Empty])

\* The text of a method and the statements it should be read as.
MethodText(m, sep) ==
  <<T("LCURLY")>> \o Joined(<<DeklText(m.locals)>> \o [i \in DOMAIN m.body |-> Text(m.body[i], sep)], sep)
  \o <<T("RCURLY")>>
Written(m) == <<DeklTree(m.locals)>> \o m.body

---------------------------------------------------------------------------
(* Trees that the parser is known to read otherwise, or not at all.        *)

\* The operators of e that stand outside parentheses and whose right operand
\* ends e.
RECURSIVE EndsOf(_)
EndsOf(e) ==
  IF e.k # "Bop" THEN {}
  ELSE {e} \cup (IF e.right.k = "Bop" /\ Strength(e.right.o) > Strength(e.o)
                 THEN EndsOf(e.right) ELSE {})

\* A division is followed by *, / or %, or it ends the left operand of ||
\* and is not all of it.
DivisionGoesOn(s) ==
  LET divides(e) == e.k = "Bop" /\ e.o \in {"Divide", "Modulo"}
  IN \E n \in Nodes(s) :
       /\ n.k = "Bop"
       /\ \/ n.o \in {"Times", "Divide", "Modulo"} /\ divides(n.left)
          \/ n.o = "LogOr" /\ \E d \in EndsOf(n.left) : divides(d) /\ d # n.left

\* A switch that does not end with a default block.
SwitchWithoutDefault(s) ==
  \E n \in Nodes(s) : n.k = "Case" /\ ScopeElse \notin ToSet(Last(n.b).scope)
=============================================================================
