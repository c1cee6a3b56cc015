------------------------------- MODULE Parser -------------------------------
(***************************************************************************)
(* The recursive descent parser of the compiler (compiler/parser.cpp) for  *)
(* the body of a method: statements, expressions and the declarations of   *)
(* local variables, constants and catch variables.                         *)
(*                                                                         *)
(* A nonterminal is an operator from a position to [n, p]: the tree and the*)
(* position behind it.  A position p is the tokens left and the symbols of *)
(* the method, newest first.  A token is [t, v]: its type and the name or  *)
(* number it carries.  The parser reports an error and exits; here it goes *)
(* on behind the end of the text.                                          *)
(***************************************************************************)
EXTENDS Optimizer

T(t) == [t |-> t, v |-> 0]
TokenOf(t, v) == [t |-> t, v |-> v]
EOI == T("EOI")

Tok(p) == p.toks[1].t                            \* Symb.type
Val(p) == p.toks[1].v
Read(p) == [p EXCEPT !.toks = Tail(@)]           \* Symb = readLexem()
Chyba(p) == [p EXCEPT !.toks = <<T("error")>>]
Got(n, p) == [n |-> n, p |-> p]

Srovnani(t, p) == IF Tok(p) = t THEN Read(p) ELSE Chyba(p)

RECURSIVE SkipNewlines(_)
SkipNewlines(p) == IF Tok(p) = "NEWLINE" THEN SkipNewlines(Read(p)) ELSE p

---------------------------------------------------------------------------
(* Symbols of a method: [id, druh, addr, num].  hledejMember looks for     *)
(* catch variables, then locals, then arguments.                           *)
Declared(p, id) ==
  LET all == p.exobjs \o p.syms \o p.args
      at == {i \in DOMAIN all : all[i].id = id}
  IN IF at = {} THEN [druh |-> "none"] ELSE all[CHOOSE i \in at : \A j \in at : i <= j]

VarOf(x) ==
  CASE x.druh = "local" -> Local(x.addr)
    [] x.druh = "arg" -> Arg(x.addr)
    [] x.druh = "exobj" -> ExObj(x.addr)

\* Only symbols of the method's own lists count as declared twice.
DeklProm(p, id) ==
  IF Declared(p, id).druh # "none" THEN Chyba(p)
  ELSE [p EXCEPT !.syms = <<[id |-> id, druh |-> "local", addr |-> p.locals]>> \o @,
                 !.locals = @ + 1]

\* A local constant has no address.
DeklKonst(p, id, n) ==
  IF Declared(p, id).druh # "none" THEN Chyba(p)
  ELSE [p EXCEPT !.syms = <<[id |-> id, druh |-> "const", num |-> n]>> \o @]

\* A catch variable may be declared again, and stays declared.  Its number
\* stands for its name.
DeklExObj(p, id) ==
  [p EXCEPT !.exobjs = <<[id |-> id, druh |-> "exobj", addr |-> id[2]]>> \o @]

---------------------------------------------------------------------------
(* Expressions: one level for each nonterminal from LOrTerm to Term.       *)
Levels ==
  << [LOG_OR |-> "LogOr"], [XOR |-> "Xor"], [LOG_AND |-> "LogAnd"], [BIT_OR |-> "BitOr"],
     [BIT_AND |-> "BitAnd"],
     [EQ |-> "Eq", NEQ |-> "NotEq", LT |-> "Less", GT |-> "Greater", LTE |-> "LessOrEq",
      GTE |-> "GreaterOrEq"],
     [LSHIFT |-> "Lsh", RSHIFT |-> "Rsh"], [PLUS |-> "Plus", MINUS |-> "Minus"],
     [TIMES |-> "Times", DIVIDE |-> "Divide", MODULO |-> "Modulo"] >>

FaktorLevel == 10

RECURSIVE Term(_, _), Zb(_, _, _), Faktor(_)

\* An expression of level i, the operands of which are of the next level.
Term(i, p) ==
  IF i = FaktorLevel THEN Faktor(p)
  ELSE LET du == Term(i + 1, p) IN Zb(i, du.n, du.p)

ZbRightAssociative(i, du, p) ==                  \* mutant: right associative
  IF Tok(p) \notin DOMAIN Levels[i] THEN Got(du, p)
  ELSE LET r == Term(i, Read(p)) IN Got(Bop(Levels[i][Tok(p)], du, r.n), r.p)

\* Left associative.  Behind a division or a modulo the grammar goes on with
\* ZbVyrazu, which only knows LOG_OR.
Zb(i, du, p) ==
  IF Tok(p) \notin DOMAIN Levels[i] THEN Got(du, p)
  ELSE LET r == Term(i + 1, Read(p))
           go == IF Tok(p) \in {"DIVIDE", "MODULO"} THEN 1 ELSE i
       IN Zb(go, Bop(Levels[i][Tok(p)], du, r.n), r.p)

Vyraz(p) == Term(1, p)

\* A name: a constant is replaced by its value, a name followed by a
\* parenthesis is a call.  An unknown name would be a symbol; it is an error
\* here.
Ident(p) ==
  LET x == Declared(p, Val(p))
      arg == Vyraz(Read(Read(p)))
  IN IF p.toks[2].t = "LPAR" THEN Got(Call(Val(p)[2], arg.n), Srovnani("RPAR", arg.p))
     ELSE CASE x.druh = "const" -> Got(Const(x.num), Read(p))
            [] x.druh = "none" -> Got(Lost, Chyba(p))
            [] OTHER -> Got(VarOf(x), Read(p))

Faktor(p) ==
  LET sub == Faktor(Read(p))
      inner == Vyraz(Read(p))
  IN CASE Tok(p) = "MINUS" -> Got(UnMinus(sub.n), sub.p)
       [] Tok(p) = "LOG_NOT" -> Got(Not(sub.n), sub.p)
       [] Tok(p) = "IDENT" -> Ident(p)
       [] Tok(p) = "NUMB" -> Got(Const(Val(p)), Read(p))
       [] Tok(p) = "kwNIL" -> Got(Const(NIL), Read(p))
       [] Tok(p) = "LPAR" -> Got(inner.n, Srovnani("RPAR", inner.p))
       [] OTHER -> Got(Lost, Chyba(p))

\* An expression in parentheses behind a keyword.
InParentheses(p) ==
  LET e == Vyraz(Srovnani("LPAR", Read(p))) IN Got(e.n, Srovnani("RPAR", e.p))

---------------------------------------------------------------------------
(* Statements.  ctxt tells whether break may stand here.                   *)
RECURSIVE Prikaz(_, _), ZbPrikazu(_, _), CaseBody(_), CaseScope(_), ZbDeklProm(_), ZbDeklKonst(_)

AssignOps ==
  [ADD_ASSIGN |-> "Plus", SUB_ASSIGN |-> "Minus", MUL_ASSIGN |-> "Times",
   DIV_ASSIGN |-> "Divide", MOD_ASSIGN |-> "Modulo"]
CountOps == [INCREMENT |-> "Plus", DECREMENT |-> "Minus"]

\* Assignment to a local variable.
Assignment(p) ==
  LET x == Declared(p, Val(p))
      q == Read(p)
      e == Vyraz(Read(q))
  IN CASE Tok(p) # "IDENT" \/ x.druh # "local" -> Got(Lost, Chyba(p))
       [] Tok(q) = "ASSIGN" -> Got(Assign(x.addr, e.n), e.p)
       [] Tok(q) \in DOMAIN AssignOps -> Got(AssignWithBop(AssignOps[Tok(q)], x.addr, e.n), e.p)
       [] Tok(q) \in DOMAIN CountOps ->
            Got(AssignWithBop(CountOps[Tok(q)], x.addr, Const(1)), Read(q))
       [] OTHER -> Got(Lost, Chyba(q))

AssignmentOrCall(p) ==
  LET c == Ident(p)
  IN IF p.toks[2].t = "LPAR" THEN Got(VoidCall(c.n.m, c.n.e), c.p) ELSE Assignment(p)

\* { statements }, separated by semicolons or newlines, or by nothing.
SlozPrikaz(p, ctxt) ==
  LET s == Prikaz(SkipNewlines(Srovnani("LCURLY", p)), ctxt)
      l == ZbPrikazu(s.p, ctxt)
  IN Got(StatmList(<<s.n>> \o l.n), Srovnani("RCURLY", l.p))

\* A token that begins no statement is not consumed, and the recursion does
\* not end; that is an error here.
ZbPrikazu(p, ctxt) ==
  LET q == IF Tok(p) \in {"SEMICOLON", "NEWLINE"} THEN Read(p) ELSE p
      s == Prikaz(q, ctxt)
      l == ZbPrikazu(IF s.p = p THEN Chyba(p) ELSE s.p, ctxt)
  IN IF Tok(p) \in {"RCURLY", "error"} \/ Tok(q) = "RCURLY" THEN Got(<<>>, q)
     ELSE Got(<<s.n>> \o l.n, l.p)

\* The newlines in front of an else, or in its place, are skipped.
CastElse(p, ctxt) ==
  LET q == SkipNewlines(p) IN IF Tok(q) = "kwELSE" THEN Prikaz(Read(q), ctxt) ELSE Got(Empty, q)

IfOutsideLoop(p, ctxt) ==                        \* mutant: no break in an if
  LET c == InParentheses(p)
      s == Prikaz(c.p, "C_NIL")
      t == CastElse(s.p, "C_NIL")
  IN Got(If(c.n, s.n, t.n), t.p)

IfPrikaz(p, ctxt) ==
  LET c == InParentheses(p)
      s == Prikaz(c.p, ctxt)
      t == CastElse(s.p, ctxt)
  IN Got(If(c.n, s.n, t.n), t.p)

WhilePrikaz(p) ==
  LET c == InParentheses(p)
      s == Prikaz(c.p, "C_CYCLE")
  IN Got(While(c.n, s.n), s.p)

ForPrikaz(p) ==
  LET init == Assignment(Srovnani("LPAR", Read(p)))
      c == Vyraz(Srovnani("SEMICOLON", init.p))
      counter == Assignment(Srovnani("SEMICOLON", c.p))
      s == Prikaz(Srovnani("RPAR", counter.p), "C_CYCLE")
  IN IF init.n.k # "Assign" THEN Got(Lost, Chyba(p))
     ELSE Got(For(init.n, c.n, counter.n, s.n), s.p)

TryPrikaz(p, ctxt) ==
  LET s == Prikaz(Read(p), ctxt)
      q == Srovnani("LPAR", Srovnani("kwCATCH", SkipNewlines(s.p)))
      t == Prikaz(DeklExObj(Srovnani("RPAR", Srovnani("IDENT", q)), Val(q)), ctxt)
  IN IF Tok(q) # "IDENT" THEN Got(Lost, Chyba(q)) ELSE Got(Try(s.n, Val(q)[2], t.n), t.p)

\* The blocks of a switch.  break does not belong to the loop around it, and
\* the brace is consumed only behind a default block.
CaseBody(q) ==
  LET p == SkipNewlines(q)
      scope == CaseScope(Read(p))
      Block(r) == LET s == Prikaz(r, "C_NIL")
                  IN Got(s.n, Srovnani(IF Tok(s.p) = "SEMICOLON" THEN "SEMICOLON" ELSE "NEWLINE", s.p))
      s == Block(scope.p)
      rest == CaseBody(s.p)
      d == Block(Srovnani("COLON", Read(p)))
  IN CASE Tok(p) = "kwCASE" -> Got(<<CaseBlock(scope.n, s.n)>> \o rest.n, rest.p)
       [] Tok(p) = "kwDEFAULT" -> Got(<<CaseBlock(<<ScopeElse>>, d.n)>>, Srovnani("RCURLY", d.p))
       [] Tok(p) = "RCURLY" -> Got(<<CaseBlock(<<>>, Empty)>>, p)
       [] OTHER -> Got(<<>>, Chyba(p))

\* Labels are optimized at once; only a number can begin a range.
CaseScope(p) ==
  LET lo == Vyraz(p)
      hi == Vyraz(Read(lo.p))
      range == Numb(OptE(lo.n)) /\ Tok(lo.p) = "DOUBLE_DOT"
      x == IF range THEN ScopeRange(OptE(lo.n), OptE(hi.n)) ELSE ScopeNumber(OptE(lo.n))
      q == IF range THEN hi.p ELSE lo.p
      rest == CaseScope(Read(q))
  IN CASE range /\ ~Numb(OptE(hi.n)) -> Got(<<>>, Chyba(q))
       [] Tok(q) = "COLON" -> Got(<<x>>, Read(q))
       [] Tok(q) = "COMMA" -> Got(<<x>> \o rest.n, rest.p)
       [] OTHER -> Got(<<>>, Chyba(q))

\* var x, y = e: a statement for each variable and an empty one.
ZbDeklProm(p) ==
  LET id == IF Tok(p) = "COMMA" THEN SkipNewlines(Read(p)) ELSE Read(p)
      q == DeklProm(Srovnani("IDENT", id), Val(id))
      e == Vyraz(Read(q))
      given == Tok(q) = "ASSIGN"
      rest == ZbDeklProm(IF given THEN e.p ELSE q)
  IN IF Tok(p) \notin {"kwVAR", "COMMA"} THEN Got(<<Empty>>, p)
     ELSE Got(<<IF given THEN Assign(p.locals, e.n) ELSE Empty>> \o rest.n, rest.p)

\* const x = 1, y = 2
ZbDeklKonst(p) ==
  LET id == IF Tok(p) = "COMMA" THEN SkipNewlines(Read(p)) ELSE Read(p)
      q == Srovnani("ASSIGN", Srovnani("IDENT", id))
  IN IF Tok(p) \notin {"kwCONST", "COMMA"} THEN p
     ELSE ZbDeklKonst(DeklKonst(Srovnani("NUMB", q), Val(id), Val(q)))

AfterDekl(p) == IF Tok(p) \in {"SEMICOLON", "NEWLINE"} THEN Read(p) ELSE p

Prikaz(q, ctxt) ==
  LET p == SkipNewlines(q)
      e == Vyraz(Read(p))
      r == InParentheses(p)
      b == CaseBody(Srovnani("LCURLY", r.p))
      d == ZbDeklProm(p)
  IN CASE Tok(p) = "kwVAR" -> Got(StatmList(d.n), AfterDekl(d.p))
       [] Tok(p) = "kwCONST" -> Got(StatmList(<<Empty>>), AfterDekl(ZbDeklKonst(p)))
       [] Tok(p) = "kwRETURN" ->
            IF Tok(Read(p)) \in {"SEMICOLON", "NEWLINE"} THEN Got(Return(Const(NIL)), Read(Read(p)))
            ELSE Got(Return(e.n), e.p)
       [] Tok(p) = "IDENT" -> AssignmentOrCall(p)
       [] Tok(p) = "kwWRITE" -> Got(Write(e.n), e.p)
       [] Tok(p) = "kwIF" -> IfPrikaz(p, ctxt)
       [] Tok(p) = "kwWHILE" -> WhilePrikaz(p)
       [] Tok(p) = "kwFOR" -> ForPrikaz(p)
       [] Tok(p) = "kwBREAK" -> Got(Break, IF ctxt = "C_CYCLE" THEN Read(p) ELSE Chyba(p))
       [] Tok(p) = "kwSWITCH" -> Got(Case(r.n, b.n), b.p)
       [] Tok(p) = "kwTRY" -> TryPrikaz(p, ctxt)
       [] Tok(p) = "kwTHROW" -> Got(Throw(e.n), e.p)
       [] Tok(p) = "LCURLY" -> SlozPrikaz(p, ctxt)
       [] OTHER -> Got(Empty, p)

\* The body of a method with one argument named arg.  A constant, too, counts as
\* a local variable where the frame is made (bcout.cpp: PrvekTab_ll_cnt).
Metoda(toks, arg) ==
  LET p == [toks |-> Append(toks, EOI), exobjs |-> <<>>, syms |-> <<>>, locals |-> 0,
            args |-> <<[id |-> arg, druh |-> "arg", addr |-> 0]>>]
      b == SlozPrikaz(p, "C_NIL")
  IN [l |-> b.n.l, locals |-> Len(b.p.syms), ok |-> Tok(b.p) = "EOI"]
=============================================================================
