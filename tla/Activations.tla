---------------------------- MODULE Activations ----------------------------
(***************************************************************************)
(* What the interpreter needs to know of the code it runs, and what the    *)
(* stack then looks like.                                                  *)
(*                                                                         *)
(* vm_execute_bc checks neither the number of operands nor their kind: ST  *)
(* and DR take the cell that should hold the address of a variable as one. *)
(* Code is well typed when at every address that execution can reach the   *)
(* operands of the current statement are known, whatever the way there.    *)
(* Nothing in the virtual machine establishes this; the compiler has to.   *)
(***************************************************************************)
EXTENDS Interp

CONSTANT
  Shape(_)    \* of a program: for the addresses that execution can reach, the
              \* kinds of the operands on top of the stack and whether the
              \* exception info has been stored in the frame: [ops, info]

Kinds == {"value", "address"}

\* The method that owns the instruction at address a.
MethodAt(p, a) == CHOOSE m \in DOMAIN p.entry :
  /\ p.entry[m] <= a
  /\ \A n \in DOMAIN p.entry : p.entry[n] <= a => p.entry[n] <= p.entry[m]

\* Operands that an instruction takes.
Takes(o) ==
  CASE o.op = "ST" -> 3
    [] o.op \in {"DUP", "DR", "BOP"} -> 2
    [] o.op \in {"POP", "WRT", "IFNJ", "UNM", "NOT", "CALL", "RET", "THROW"} -> 1
    [] OTHER -> 0

Without(s, n) == SubSeq(s, 1, Len(s) - n)

\* The operands behind an instruction that found the operands s.
Effect(o, s) ==
  CASE o.op \in {"LVBI_C", "LVBI_ARG", "LVBI_LOC", "LD_EXOBJ"} -> s \o <<"value">>
    [] o.op = "LABI_LOC" -> s \o <<"value", "address">>
    [] o.op = "DUP" -> s \o <<s[Len(s) - 1], s[Len(s)]>>
    [] o.op \in {"ST", "POP", "WRT", "IFNJ"} -> Without(s, Takes(o))
    [] o.op \in {"DR", "BOP", "UNM", "NOT", "CALL"} -> Without(s, Takes(o)) \o <<"value">>
    [] OTHER -> s

Successors(o, a) ==
  CASE o.op = "JU" -> {o.x}
    [] o.op = "IFNJ" -> {o.x, a + 1}
    [] o.op \in {"RET", "THROW"} -> {}
    [] OTHER -> {a + 1}

\* What the instruction o of method m relies on when it finds the shape t.
ReliesOn(p, m, o, t) ==
  /\ Takes(o) <= Len(t.ops)
  /\ o.op = "ST" => t.ops[Len(t.ops) - 1] = "address"
  /\ o.op = "DR" => t.ops[Len(t.ops)] = "address"
  /\ o.op = "LABI_LOC" => o.x \in 0..(p.locals[m] - 1)
  /\ o.op = "LD_EXOBJ" => t.info
  /\ o.op = "ST_EXINFO" => o.x = m

\* Execution may begin method m at address a: operands of the statement that
\* was left are no longer needed.
Begins(p, T, a, m) == a \in DOMAIN T /\ MethodAt(p, a) = m /\ T[a].ops = <<>>

WellTyped(p) ==
  LET T == Shape(p)
  IN /\ DOMAIN T \subseteq 0..(Len(p.code) - 1)
     /\ \A m \in DOMAIN p.entry :
          /\ Begins(p, T, p.entry[m], m) /\ ~T[p.entry[m]].info
          /\ \A i \in DOMAIN p.exinfo[m] : Begins(p, T, p.exinfo[m][i].catch, m)
     /\ \A a \in DOMAIN T :
          LET o == p.code[a + 1]
              m == MethodAt(p, a)
          IN /\ m \in DOMAIN p.entry
             /\ T[a].ops \in Seq(Kinds)
             /\ ReliesOn(p, m, o, T[a])
             /\ \A b \in Successors(o, a) :
                  /\ b \in DOMAIN T /\ MethodAt(p, b) = m
                  /\ T[b].ops = Effect(o, T[a].ops)
                  /\ T[b].info => T[a].info \/ o.op = "ST_EXINFO"

ASSUME StackAssumption ==
  /\ StackSize \in Nat /\ 5 <= StackSize /\ Slack \in Nat
  /\ \A m \in DOMAIN ExInfo : ExInfo[m] # NULL
  /\ \A m, n \in DOMAIN ExInfo : ExInfo[m] = ExInfo[n] => m = n

\* Programs as the compiler makes them.  Nothing compares sp_g with the size of
\* the stack when it moves over the local variables, so there must not be more
\* of them than the cells that stack_init happens to add.
ASSUME ProgramAssumption ==
  \A p \in Programs :
    /\ DOMAIN p.code = 1..Len(p.code) /\ Len(p.code) \in Nat
    /\ 1 \in DOMAIN p.entry /\ DOMAIN p.entry \subseteq DOMAIN ExInfo
    /\ \A m \in DOMAIN p.entry :
         /\ p.locals[m] \in Nat /\ p.locals[m] < Slack
         /\ DOMAIN p.exinfo[m] = 1..Len(p.exinfo[m]) /\ Len(p.exinfo[m]) \in Nat

\* What the proofs assume of the programs, and StartsWellTyped checks.
AllWellTyped == \A p \in Programs : WellTyped(p)

---------------------------------------------------------------------------
(* Properties.                                                             *)

\* The program that begins is well typed: on no path through its code does an
\* instruction find an operand too few or too many, or a value where it takes
\* an address; no jump leaves its method, and handlers are entered where a
\* statement begins.
StartsWellTyped == ip = prog.entry[1] /\ out = <<>> => WellTyped(prog)

\* The registers are indices, and the next instruction is one of the program.
Registers ==
  /\ sp \in Nat /\ ap \in Nat /\ fp \in Nat
  /\ status.end = "run" => ip \in 0..(Len(prog.code) - 1)
  /\ DOMAIN exobj = DOMAIN prog.entry

\* The cells of the frame w, which is executing method m.
FrameOK(w, m) ==
  /\ w.fp = w.ap + 5
  /\ w.fp + prog.locals[m] < w.sp
  /\ stack[w.fp - 4] = THISCLS
  /\ stack[w.fp] \in {NULL, ExInfo[m]}

\* Following the saved registers from the current frame meets a whole frame
\* of every active method, one below the other, each with the exception info
\* of its own method or none, each returning behind a call, down to the
\* frame that vm_call_main built: no store, call, tail call, return or
\* unwinding damages a frame below it.
FrameChain ==
  status.end = "run" =>
    LET F == Frames(At(ap, fp, sp, ip + 1))
    IN \E d \in 1..sp :
         /\ \A n \in 0..(d - 1) : /\ n > 0 => prog.code[F[n].ret].op = "CALL"
                                  /\ FrameOK(F[n], MethodAt(prog, F[n].ret - 1))
         /\ F[d].ret = NATIVE /\ F[d].sp = 0

\* The cells of the deepest frame lie inside the memory of the stack, though
\* only PUSH compares sp_g with its size (stack_push) and a call moves sp_g
\* over its locals unchecked.
InMemory == sp <= StackSize + Slack

\* No step writes to a cell below the current frame: arguments, locals and
\* pending operands of a method that waits for a call are what it left there,
\* also when an exception or a chain of tail calls ends the call.
CallersUntouched == [][\A c \in 0..(ap - 1) : stack'[c] = stack[c]]_vars
=============================================================================
