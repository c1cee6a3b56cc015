------------------------------ MODULE Verifier ------------------------------
(***************************************************************************)
(* The shapes of the code that the compiler makes, found by following the  *)
(* control flow from the entry points of the methods and of their handlers.*)
(* Whether the shapes agree where control flow joins is left to WellTyped. *)
(***************************************************************************)
EXTENDS Execution

RECURSIVE Follow(_, _, _)
Follow(p, known, new) ==
  IF DOMAIN new = {} THEN known
  ELSE LET S == new @@ known
           next == {<<a, b>> \in UNION {{a} \X Successors(p.code[a + 1], a) : a \in DOMAIN new} :
                      b \notin DOMAIN S}
           from(b) == CHOOSE a \in DOMAIN new : <<a, b>> \in next
           after(a) == [ops |-> Effect(p.code[a + 1], S[a].ops),
                        info |-> S[a].info \/ p.code[a + 1].op = "ST_EXINFO"]
       IN Follow(p, S, [b \in {e[2] : e \in next} |-> after(from(b))])

ShapeOf(p) ==
  LET Shapes(A, info) == [a \in A |-> [ops |-> <<>>, info |-> info]]
      handlers == UNION {{b.catch : b \in ToSet(p.exinfo[m])} : m \in DOMAIN p.exinfo}
  IN Follow(p, <<>>, Shapes(ToSet(p.entry), FALSE) @@ Shapes(handlers, TRUE))
=============================================================================
