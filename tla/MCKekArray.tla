----------------------------- MODULE MCKekArray -----------------------------
(***************************************************************************)
(* KekArray with two arrays of different lengths, either of which may be a *)
(* literal, and two addresses waiting: an element is stored while the value*)
(* of another one is being computed.                                       *)
(***************************************************************************)
EXTENDS KekArray

CONSTANTS a1, a2, o

MCArr == {a1, a2}
MCObj == {o}
MCBlk == 1..5
MCMaxLen == [a \in MCArr |-> IF a = a1 THEN 5 ELSE 2]
MCLiterals == [a \in MCArr |-> {0, 2}]
MCOneElement == [a \in MCArr |-> {0, 1}]
MCInPlace == {"append in place"}
=============================================================================
