----------------------------- MODULE Execution -----------------------------
(***************************************************************************)
(* The compiler and the virtual machine together: Interp runs the code that*)
(* Compiler generates, and SourceSem says what it should have done.        *)
(*                                                                         *)
(* A program of Programs carries, next to its code, the trees it was       *)
(* written from (ast), what the parser read (read) and the meaning of the  *)
(* trees (means).                                                          *)
(***************************************************************************)
EXTENDS Activations

INSTANCE Compiler

---------------------------------------------------------------------------
(* Programs that the virtual machine is known to run differently.          *)

Throws(p) == {i \in DOMAIN p.code : p.code[i].op = "THROW"}

\* The try blocks of p around the address of instruction i.
BlocksAround(p, i) ==
  {b \in UNION {ToSet(p.exinfo[m]) : m \in DOMAIN p.exinfo} :
     b.try <= i - 1 /\ i - 1 < b.catch}

\* A throw stands directly in front of a try block.
ThrowBeforeTry(p) ==
  \E i \in Throws(p) : BlocksAround(p, i) # BlocksAround(p, i + 1)

\* A call in tail position stands inside a try block.
TailCallInTry(p) ==
  \E i \in 1..(Len(p.code) - 1) :
    /\ p.code[i].op = "CALL" /\ p.code[i + 1].op = "RET"
    /\ BlocksAround(p, i) # {}

\* Main may leave by a native method that is called in tail position.
NativeTailCallInMain(p) ==
  LET tails(m) == {i \in 1..(Len(p.code) - 1) :
                     p.code[i].op = "CALL" /\ p.code[i + 1].op = "RET" /\ MethodAt(p, i - 1) = m}
      native(m) == \E i \in tails(m) : p.code[i].x \in DOMAIN Native
  IN native(1) \/ \E i \in tails(1) : p.code[i].x = 2 /\ native(2)

---------------------------------------------------------------------------
(* Properties.                                                             *)

\* Every cell holds a word of the machine or an exception info.
TypeOK ==
  /\ \A c \in DOMAIN stack :
       \/ stack[c] \in {NIL, NULL, THISCLS} \cup ToSet(ExInfo)
       \/ stack[c] \in Int
  /\ Registers

\* The parser reads every method back as the tree its text was written from:
\* precedence, association to the left, the else that belongs to the nearest
\* if, separators and skipped newlines, names and the addresses of locals.
ReadsBack ==
  \A m \in DOMAIN prog.ast :
    /\ prog.read[m].ok
    /\ prog.read[m].l = Written(prog.ast[m])
    /\ prog.read[m].locals = prog.ast[m].locals

\* What the machine has written so far is a beginning of what the source
\* program writes; when the machine ends, it has written all of it and it ends
\* as the source program does, with the same value: the jumps of strom.cpp,
\* the frames of stack.h and find_handler_for_exobj together.  A program
\* whose meaning was cut off, and a run that ends for lack of stack, only
\* have to agree on what was written.
AgreesWithSource ==
  /\ \/ IsPrefix(out, prog.means.out)
     \/ prog.means.end = "diverge" /\ IsPrefix(prog.means.out, out)
  /\ prog.means.end # "diverge" /\ status.end \notin {"run", "overflow"}
       => /\ out = prog.means.out
          /\ status = [end |-> prog.means.end, v |-> prog.means.v]

\* The stack overflows only when a method calls itself in another place than
\* before a return: tail calls alone run in constant space (BC_TCALL).
TailCallsAreFree ==
  status.end = "overflow" =>
    \E i \in DOMAIN prog.code :
      /\ prog.code[i].op = "CALL" /\ prog.code[i + 1].op # "RET"
      /\ prog.code[i].x = MethodAt(prog, i - 1)

\* Between statements the frame of a method that has not handled an exception
\* holds its locals and no operands, so a loop can go on for ever: what the
\* Translate methods push they also pop.  (A handler may start with operands
\* left on the stack: find_handler_for_exobj restores sp_g to where the
\* throwing instruction found it.)
OperandsBalanced ==
  LET m == MethodAt(prog, ip)
  IN status.end = "run" /\ Op.op = "JU" /\ exobj[m] = NULL => sp = fp + 1 + prog.locals[m]

\* A program whose meaning is finite ends: no jump target, return address or
\* handler makes the machine loop or stop in the middle.
Termination == (prog.means.end # "diverge") ~> (status.end # "run")

\* What vm.c:1375 says find_handler_for_exobj looks for: when a throw
\* statement is reached outside every try block of its method, no block of
\* that method handles it.
HandlesOnlyInside ==
  [][(Runs("THROW") /\ BlocksAround(prog, ip + 1) = {}) => ~(fp' = fp /\ status' = status)]_vars

\* An exception that the source program handles does not reach the message
\* "Unhandled exception" of vm_throw_obj.
HandledIsHandled == status.end = "throw" => prog.means.end # "return"
=============================================================================
