------------------------------ MODULE Compiler ------------------------------
(***************************************************************************)
(* The passes of the compiler one behind the other (compiler/kekc.cpp):    *)
(* the text of a method is parsed, the tree is optimized and translated.   *)
(* Next to the code a program carries the trees it was written from, what  *)
(* the parser made of their text, and what they mean.                      *)
(***************************************************************************)
EXTENDS SourceText, SourceSem

\* A method m, a record [body, locals], written with sep between its
\* statements: what the parser reads and the tree that is translated.
FrontEnd(m, sep) ==
  LET r == Metoda(MethodText(m, sep), ArgName)
  IN [ast |-> m, read |-> r, body |-> Opt(StatmList(r.l)).l, locals |-> r.locals,
      tries |-> HasTry(r.l)]

\* The program of the methods in front, results of FrontEnd; arg is the
\* argument of main, fuel the bound on the reference meaning.
Compile(front, arg, fuel) ==
  LET All(f) == [m \in DOMAIN front |-> front[m][f]]
  IN ProgTranslate(front) @@
       [ast |-> All("ast"), read |-> All("read"), locals |-> All("locals"), arg |-> arg,
        means |-> Meaning(All("ast"), arg, fuel)]
=============================================================================
