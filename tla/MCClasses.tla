----------------------------- MODULE MCClasses -----------------------------
(***************************************************************************)
(* Programs of two to four classes.  One family varies the members of a    *)
(* class and of its child, and reads and writes all of them from methods of*)
(* both and from outside; another varies the methods, constructors and     *)
(* overrides along a line of three classes; a few more derive from the     *)
(* native class Exception or are programs that the compiler rejects.       *)
(*                                                                         *)
(* In all of them a parent comes before its children and a name before its *)
(* use in the class itself (see README, Excluded).                         *)
(***************************************************************************)
EXTENDS Classes

CONSTANT LEFT    \* what malloc left in a word: it is handed on like any other value

Ids(body) == {body[i].id : i \in DOMAIN body}
Subs(s) == {SelectSeq(s, LAMBDA d : d \in e) : e \in SUBSET ToSet(s)}

\* The accesses that a method may make, by name, to the members that line, the
\* bodies of its class and the ancestors in order, declares.
Accesses(line, static) ==
  LET decl(id) == First(FlattenSeq(line), LAMBDA d : d.id = id)
      ids == SetToSeq(Ids(FlattenSeq(line)))
  IN FlattenSeq([i \in DOMAIN ids |->
       IF static /\ ~decl(ids[i]).static THEN <<>>
       ELSE IF decl(ids[i]).k = "const" THEN <<Get(ids[i])>>
       ELSE <<Get(ids[i]), Set(ids[i])>>])

WithAccesses(name, parent, line) ==
  ClassDecl(name, parent,
            line[1] \o << Method("i", FALSE, 0, Accesses(line, FALSE)),
                          Method("t", TRUE, 0, Accesses(line, TRUE)) >>)

OutsideAccesses(line) ==
  LET decl(id) == First(FlattenSeq(line), LAMBDA d : d.id = id)
      ids == SetToSeq({id \in Ids(FlattenSeq(line)) : decl(id).static})
  IN FlattenSeq([i \in DOMAIN ids |->
       IF decl(ids[i]).k = "const" THEN <<GetOf("B", ids[i])>>
       ELSE <<GetOf("B", ids[i]), SetOf("B", ids[i])>>])

Main(sites) == ClassDecl("M", NONE, << Method("main", TRUE, 1, sites) >>)

MembersA == {<<Var("a")>>, <<StaticVar("s"), Var("a")>>, <<Konst("k", 2), StaticVar("s")>>,
             <<Konst("k", 2)>>, <<Var("a"), Konst("k", 2), StaticVar("s")>>}
MembersB == Subs(<<StaticVar("s"), Var("a")>>) \cup {<<Konst("k", 3), StaticVar("a")>>}

MemberPrograms ==
  LET A(a, parent) == WithAccesses("A", parent, <<a>>)
      B(a, b, parent) == WithAccesses("B", parent, IF parent = "A" THEN <<b, a>> ELSE <<b>>)
      new == <<New("B", 0), GetIn("a"), SetIn("a")>>
      unknown == <<GetOf("B", "s"), SetOf("B", "s"), SetOf("B", "k"), GetOf("B", "k"), New("A", 0)>>
  IN {<<A(a, NONE), B(a, b, "A"), Main(new \o OutsideAccesses(<<b, a>>))>> :
        a \in MembersA, b \in MembersB}
     \cup {<<A(a, "Exception"), B(a, <<Var("a")>>, "A"), Main(new)>> : a \in MembersA}
     \cup {<<Main(new \o unknown), A(a, NONE), B(a, b, "A")>> : a \in MembersA, b \in MembersB}
     \cup {<<Main(new \o unknown), A(a, NONE), B(<<>>, <<StaticVar("s"), Var("a")>>, NONE)>> :
             a \in MembersA}

\* SYM_STATIC reads the first static symbol of the class it starts from: it has
\* to have one.
StartsHaveStatics(p) ==
  \A x \in SitesOf(p) :
    LET own == x.s.form \in {"get", "set"}
        of == x.s.form \in {"get of class", "set of class"}
                /\ p[1].name # "M"
        m == IF own THEN MemberNamed(p, x.in, x.s.id) ELSE MemberNamed(p, x.s.of, x.s.id)
        starts == IF own THEN {c \in Names(p) : x.in \in ToSet(Lineage(p, c))} ELSE {x.s.of}
    IN (own \/ of) /\ m.decl.static /\ m.decl.k = "var"
         => \A c \in starts : StaticDecls(p, c) # {}

---------------------------------------------------------------------------
Optionally(d) == {<<>>, <<d>>}

\* m called from a method of A, with super from one of B, or from outside.
MethodPrograms ==
  LET m(static, n) == Method("m", static, n, <<>>)
      on(b, s) == IF b THEN <<s>> ELSE <<>>
      A(am, ac, from) ==
        ClassDecl("A", NONE, ac \o am \o on(from = "A", Method("p", FALSE, 0, <<Self("m", 0)>>)))
      B(bm, bc, from) ==
        ClassDecl("B", "A", bc \o bm \o on(from = "B", Method("q", FALSE, 0, <<Super("m", 0)>>)))
      C(cm) == ClassDecl("C", "B", cm)
      main(from) == Main(<<New("A", 0), New("B", 1), New("C", 0)>> \o on(from = "M", CallIn("m", 0))
                         \o on(from = "M", CallOf("B", "m", 0)))
  IN {<<main(from), A(am, ac, from), B(bm, bc, from), C(cm)>> :
        from \in {"A", "B", "M"},
        am \in {<<m(FALSE, 0)>>, <<m(FALSE, 1)>>},
        ac \in Optionally(Method("A", FALSE, 0, <<>>)),
        bm \in {<<>>, <<m(FALSE, 0)>>, <<m(TRUE, 0)>>},
        bc \in Optionally(Method("B", FALSE, 1, <<SuperNew(0)>>)),
        cm \in {<<>>, <<Method("m", FALSE, 0, <<Super("m", 0)>>)>>}}

ExceptionPrograms ==
  LET E == ClassDecl("E", "Exception",
             << Var("a"), Method("E", FALSE, 1, <<SuperNew(1), Set("a")>>),
                Method("g", FALSE, 0, <<Get("a")>>), Method("f", TRUE, 0, <<>>),
                Method("h", TRUE, 0, <<Self("f", 0)>>) >>)
      F == ClassDecl("F", "E", << Var("b"), Method("F", TRUE, 0, <<>>) >>)
  IN { <<E, F, Main(<<New("E", 1), New("F", 0), CallIn("msg", 0), GetIn("b"),
                      CallOf("F", "f", 0)>>)>>,
       <<E, F, Main(<<New("F", 0), New("Exception", 1), CallIn("msg", 0), SetIn("b")>>)>>,
       <<Main(<<New("Exception", 0)>>)>> }

\* Programs that the compiler does not take.
Offences ==
  { << Var("a"), StaticVar("a") >>, << Konst("k", 1), Konst("k", 2) >>,
    << [Konst("k", 1) EXCEPT !.static = FALSE] >>,
    << Method("m", FALSE, 0, <<>>), Method("m", TRUE, 0, <<>>) >>,
    << Method("A", FALSE, 0, <<>>), Method("A", FALSE, 1, <<>>) >>,
    << Method("A", TRUE, 0, <<>>), Method("A", TRUE, 0, <<>>) >> }
  \cup {<< Var("a"), Konst("k", 1), Method("n", FALSE, 0, <<>>), Method("m", TRUE, 0, <<s>>) >> :
          s \in {Get("a"), Set("a"), Set("k"), Set("x"), GetOf("A", "x"), GetOf("A", "a"),
                 SetOf("A", "a"), SetOf("A", "k"), Self("n", 0), Super("m", 0), SuperNew(0),
                 CallOf("A", "n", 0)}}

RejectedPrograms ==
  {<<ClassDecl("A", NONE, b)>> : b \in Offences}
  \cup {<<ClassDecl("A", NONE, <<>>), ClassDecl("A", NONE, <<>>)>>,
        <<ClassDecl("A", NONE, <<Method("n", FALSE, 0, <<>>)>>),
          ClassDecl("B", "A", <<Method("m", TRUE, 0, <<Super("n", 0)>>)>>)>>}

MCPrograms ==
  LET members == {p \in MemberPrograms : StartsHaveStatics(p)}
  IN members \cup MethodPrograms \cup ExceptionPrograms \cup RejectedPrograms

ASSUME MCParentsFirst == \A p \in MCPrograms : ParentsFirst(p)
=============================================================================
