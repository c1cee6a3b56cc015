------------------------------- MODULE Interp -------------------------------
(***************************************************************************)
(* The bytecode interpreter of the virtual machine (vm/vm.c, vm_execute_bc,*)
(* and vm/stack.h): calls, tail calls, returns and exceptions on one stack *)
(* that holds arguments, saved registers, local variables and operands.    *)
(*                                                                         *)
(* A frame, from ap_g up:                                                  *)
(*   arguments, class or instance, return address, caller's ap, caller's   *)
(*   fp, [fp_g:] exception info or NULL, local variables, operands.        *)
(*                                                                         *)
(* Every method takes one argument, and a call finds its method by number  *)
(* (the lookup by name and the inline cache are not modelled here).        *)
(***************************************************************************)
EXTENDS Integers, Sequences

CONSTANTS
  Programs,   \* the programs: [code, entry, exinfo, locals, arg, ...]
  Native,     \* behaviour of native methods: "return" or "throw" the argument
  StackSize,  \* STACK_DEFAULT_SIZE
  Slack,      \* cells of the stack's memory behind StackSize (stack_init)
  NIL, NULL,
  ExInfo,     \* the exception info objects of the methods
  THISCLS,    \* what LD_SELF loads: the class main was called on
  IntBits     \* the width of an int

LOCAL INSTANCE Arith

NATIVE == -1

VARIABLES
  prog,       \* the program that runs, chosen once
  stack,      \* stack_g
  sp, ap, fp, ip,
  exobj,      \* obj_thrown of the exception info of each method
  out,        \* what WRT has printed
  status      \* "run", or how the run ended: [end, v]

vars == <<prog, stack, sp, ap, fp, ip, exobj, out, status>>

Running == [end |-> "run", v |-> NULL]
Ended(how, v) == [end |-> how, v |-> v]

\* Cells i.. of the stack get the elements of s.
Put(i, s) == [c \in DOMAIN stack |-> IF c \in i..(i + Len(s) - 1) THEN s[c - i + 1] ELSE stack[c]]

Top == stack[sp - 1]
ARG(i) == stack[ap + i]
LOCaddr(i) == fp + i + 1
THIS == stack[fp - 4]

\* The method whose exception info is c.
InfoOf(c) == CHOOSE m \in DOMAIN ExInfo : ExInfo[m] = c

Op == prog.code[ip + 1]

TailCallNever == FALSE                         \* mutant: always BC_CALL

\* A call is a tail call when the instruction behind it is RET.
TailCall == prog.code[ip + 2].op = "RET"

\* Cells that the instruction pushes, PUSH by PUSH.  The locals of a callee
\* are not pushed: sp_g is moved over them without a check.
Pushes ==
  CASE Op.op \in {"LVBI_C", "LVBI_ARG", "LVBI_LOC", "LD_EXOBJ"} -> 1
    [] Op.op \in {"LABI_LOC", "DUP"} -> 2
    [] Op.op = "CALL" -> IF TailCall THEN 1 ELSE 4
    [] OTHER -> 0

FitsUnchecked == TRUE                          \* mutant: stack_push does not look
Fits == sp + Pushes <= StackSize

Runs(op) ==
  /\ status = Running
  /\ ip \in 0..(Len(prog.code) - 1)
  /\ Op.op = op
  /\ Fits

---------------------------------------------------------------------------
(* The instructions that only use the operands of the current frame.       *)

Pushed(v) ==
  /\ stack' = Put(sp, <<v>>)
  /\ sp' = sp + 1
  /\ ip' = ip + 1
  /\ UNCHANGED <<prog, ap, fp, exobj, out, status>>

LVBI_C == Runs("LVBI_C") /\ Pushed(Op.x)
LVBI_ARG == Runs("LVBI_ARG") /\ Pushed(ARG(Op.x))
LVBI_LOC == Runs("LVBI_LOC") /\ Pushed(stack[LOCaddr(Op.x)])
LD_EXOBJ == Runs("LD_EXOBJ") /\ Pushed(exobj[InfoOf(stack[fp])])

\* The object that holds the variable, here the stack, and the address in it.
LABI_LOC ==
  /\ Runs("LABI_LOC")
  /\ stack' = Put(sp, <<NULL, LOCaddr(Op.x)>>)
  /\ sp' = sp + 2
  /\ ip' = ip + 1
  /\ UNCHANGED <<prog, ap, fp, exobj, out, status>>

ST ==
  /\ Runs("ST")
  /\ stack' = Put(stack[sp - 2], <<Top>>)
  /\ sp' = sp - 3
  /\ ip' = ip + 1
  /\ UNCHANGED <<prog, ap, fp, exobj, out, status>>

POP ==
  /\ Runs("POP")
  /\ sp' = sp - 1
  /\ ip' = ip + 1
  /\ UNCHANGED <<prog, stack, ap, fp, exobj, out, status>>

WRT ==
  /\ Runs("WRT")
  /\ Top \in Int
  /\ out' = Append(out, Top)
  /\ sp' = sp - 1
  /\ ip' = ip + 1
  /\ UNCHANGED <<prog, stack, ap, fp, exobj, status>>

\* A pair of cells is duplicated: an object and the address of a variable.
DUP ==
  /\ Runs("DUP")
  /\ stack' = Put(sp, <<stack[sp - 2], Top>>)
  /\ sp' = sp + 2
  /\ ip' = ip + 1
  /\ UNCHANGED <<prog, ap, fp, exobj, out, status>>

\* The pair is replaced by the value of the variable.
DR ==
  /\ Runs("DR")
  /\ stack' = Put(sp - 2, <<stack[Top]>>)
  /\ sp' = sp - 1
  /\ ip' = ip + 1
  /\ UNCHANGED <<prog, ap, fp, exobj, out, status>>

\* Two integers, or two values that are compared by their pointers.
Comparable(op, a, b) == (a \in Int /\ b \in Int) \/ op \in {"Eq", "NotEq"}

bc_bop(op, a, b) ==
  IF a \in Int /\ b \in Int THEN CInt(op, a, b)
  ELSE Truth((a = b) = (op = "Eq"))

BOP ==
  /\ Runs("BOP")
  /\ Comparable(Op.o, stack[sp - 2], Top)
  /\ stack' = Put(sp - 2, <<bc_bop(Op.o, stack[sp - 2], Top)>>)
  /\ sp' = sp - 1
  /\ ip' = ip + 1
  /\ UNCHANGED <<prog, ap, fp, exobj, out, status>>

UNM ==
  /\ Runs("UNM")
  /\ Top \in Int
  /\ stack' = Put(sp - 1, <<-Top>>)
  /\ ip' = ip + 1
  /\ UNCHANGED <<prog, sp, ap, fp, exobj, out, status>>

NOT ==
  /\ Runs("NOT")
  /\ stack' = Put(sp - 1, <<Truth(Top \in {0, NIL})>>)
  /\ ip' = ip + 1
  /\ UNCHANGED <<prog, sp, ap, fp, exobj, out, status>>

\* vm_error: an operand has the wrong type and the program ends.
VmError ==
  /\ \/ (Runs("WRT") \/ Runs("UNM")) /\ Top \notin Int
     \/ Runs("BOP") /\ ~Comparable(Op.o, stack[sp - 2], Top)
     \/ Runs("IFNJ") /\ Top \notin Int \cup {NIL}
  /\ status' = Ended("error", 0)
  /\ UNCHANGED <<prog, stack, sp, ap, fp, ip, exobj, out>>

JU ==
  /\ Runs("JU")
  /\ ip' = Op.x
  /\ UNCHANGED <<prog, stack, sp, ap, fp, exobj, out, status>>

IFNJ ==
  /\ Runs("IFNJ")
  /\ Top \in Int \cup {NIL}
  /\ ip' = IF Top \in {0, NIL} THEN Op.x ELSE ip + 1
  /\ sp' = sp - 1
  /\ UNCHANGED <<prog, stack, ap, fp, exobj, out, status>>

ST_EXINFO ==
  /\ Runs("ST_EXINFO")
  /\ stack' = Put(fp, <<ExInfo[Op.x]>>)
  /\ ip' = ip + 1
  /\ UNCHANGED <<prog, sp, ap, fp, exobj, out, status>>

---------------------------------------------------------------------------
(* Calls and returns.                                                      *)

\* The cells of a frame behind its arguments and its class: saved registers,
\* no exception info, local variables.
FrameTail(ret, locals) == <<ret, ap, fp, NULL>> \o [i \in 1..locals |-> NULL]

BC_CALL(m) ==
  /\ Runs("CALL") /\ Op.x = m
  /\ m \notin DOMAIN Native /\ ~TailCall
  /\ stack' = Put(sp, <<THIS>> \o FrameTail(ip + 1, prog.locals[m]))
  /\ ap' = sp - 1
  /\ fp' = sp + 4
  /\ sp' = sp + 5 + prog.locals[m]
  /\ ip' = prog.entry[m]
  /\ UNCHANGED <<prog, exobj, out, status>>

BC_TCALL_KeepsInfo(m) ==                       \* mutant: frame not cleared
  /\ Runs("CALL") /\ Op.x = m
  /\ m \notin DOMAIN Native /\ TailCall
  /\ stack' = Put(ap, <<Top, THIS, stack[fp - 3], stack[fp - 2], stack[fp - 1]>>)
  /\ fp' = ap + 5
  /\ sp' = ap + 6 + prog.locals[m]
  /\ ip' = prog.entry[m]
  /\ UNCHANGED <<prog, ap, exobj, out, status>>

\* The frame of the caller is reused: its return address and its saved
\* registers serve the callee.
BC_TCALL(m) ==
  /\ Runs("CALL") /\ Op.x = m
  /\ m \notin DOMAIN Native /\ TailCall
  /\ stack' = Put(ap, <<Top, THIS, stack[fp - 3], stack[fp - 2], stack[fp - 1], NULL>>
                      \o [i \in 1..prog.locals[m] |-> NULL])
  /\ fp' = ap + 5
  /\ sp' = ap + 6 + prog.locals[m]
  /\ ip' = prog.entry[m]
  /\ UNCHANGED <<prog, ap, exobj, out, status>>

(* A native method that returns its argument builds a frame too and leaves *)
(* it with BC_RET.  After a tail call it returns to the caller of the      *)
(* method that called it.  CALL does not look at the return address: when  *)
(* that is NATIVE, execution goes on at bc_arr_g[-1].                      *)
NativeReturn ==
  /\ Runs("CALL") /\ Op.x \in DOMAIN Native /\ Native[Op.x] = "return"
  /\ IF TailCall
     THEN /\ stack' = Put(ap, <<Top>>)
          /\ sp' = ap + 1
          /\ ap' = stack[fp - 2] /\ fp' = stack[fp - 1] /\ ip' = stack[fp - 3]
          /\ status' = IF stack[fp - 3] = NATIVE THEN Ended("wild", NULL) ELSE status
     ELSE /\ ip' = ip + 1
          /\ UNCHANGED <<stack, sp, ap, fp, status>>
  /\ UNCHANGED <<prog, exobj, out>>

RET_Unchecked ==                               \* mutant: NATIVE not noticed
  /\ Runs("RET")
  /\ stack' = Put(ap, <<Top>>)
  /\ sp' = ap + 1
  /\ ap' = stack[fp - 2] /\ fp' = stack[fp - 1] /\ ip' = stack[fp - 3]
  /\ UNCHANGED <<prog, exobj, out, status>>

RET ==
  /\ Runs("RET")
  /\ stack' = Put(ap, <<Top>>)
  /\ sp' = ap + 1
  /\ ap' = stack[fp - 2] /\ fp' = stack[fp - 1] /\ ip' = stack[fp - 3]
  /\ status' = IF stack[fp - 3] = NATIVE THEN Ended("return", Top) ELSE status
  /\ UNCHANGED <<prog, exobj, out>>

---------------------------------------------------------------------------
(* Exceptions.                                                             *)

\* A frame on the way of an exception; ret is the address behind the place
\* in its method that the exception comes from.
At(a, f, s, r) == [ap |-> a, fp |-> f, sp |-> s, ret |-> r]
\* The caller of the frame w, waiting behind its call.  A frame with the return
\* address NATIVE is none of the machine's.
Unwound(w) ==
  IF w.ret = NATIVE THEN w ELSE At(stack[w.fp - 2], stack[w.fp - 1], w.ap, stack[w.fp - 3])

\* The frame w, its caller, the caller of that and so on.  Each one lies below
\* the one that it called, so there are no more of them than cells.
Frames(w) ==
  LET F[n \in 0..w.sp] == IF n = 0 THEN w ELSE Unwound(F[n - 1])
  IN F

Blocks(w) == IF stack[w.fp] = NULL THEN <<>> ELSE prog.exinfo[InfoOf(stack[w.fp])]

\* Blocks of the table around address w.ret - 1.
Enclosing(w) ==
  {i \in DOMAIN Blocks(w) : Blocks(w)[i].try <= w.ret - 1 /\ w.ret - 1 < Blocks(w)[i].catch}

AroundLast(w) == CHOOSE i \in Enclosing(w) : \A j \in Enclosing(w) : i >= j   \* mutant: last wins
\* The first of them: inner blocks come first in the table.
Around(w) == CHOOSE i \in Enclosing(w) : \A j \in Enclosing(w) : i <= j

\* find_handler_for_exobj: the first frame from w on that stands in a try block,
\* or the end of the frames.
Stops(w) == w.ret = NATIVE \/ Enclosing(w) # {}
FindHandler(w) ==
  LET F == Frames(w)
      n == CHOOSE k \in 0..w.sp : Stops(F[k]) /\ \A j \in 0..(k - 1) : ~Stops(F[j])
  IN F[n]

Thrown_KeepsAp(v, w) ==                        \* mutant: ap_g not restored
  LET h == FindHandler(w) IN
  IF h.ret # NATIVE
  THEN /\ fp' = h.fp /\ sp' = h.sp /\ ip' = Blocks(h)[Around(h)].catch
       /\ exobj' = [exobj EXCEPT ![InfoOf(stack[h.fp])] = v]
       /\ UNCHANGED <<ap, status>>
  ELSE status' = Ended("throw", v) /\ UNCHANGED <<sp, ap, fp, ip, exobj>>

\* vm_throw_obj: v is thrown by the frame w.
Thrown(v, w) ==
  LET h == FindHandler(w) IN
  IF h.ret # NATIVE
  THEN /\ ap' = h.ap /\ fp' = h.fp /\ sp' = h.sp /\ ip' = Blocks(h)[Around(h)].catch
       /\ exobj' = [exobj EXCEPT ![InfoOf(stack[h.fp])] = v]
       /\ UNCHANGED status
  ELSE /\ status' = Ended("throw", v)          \* "Unhandled exception"
       /\ UNCHANGED <<sp, ap, fp, ip, exobj>>

(* The address has been advanced past THROW when find_handler_for_exobj    *)
(* adds 1 to it once more.                                                 *)
THROW ==
  /\ Runs("THROW")
  /\ Thrown(Top, At(ap, fp, sp - 1, ip + 1 + 1))
  /\ UNCHANGED <<prog, stack, out>>

(* A native method that throws its argument (File: the file cannot be      *)
(* opened).  Its own frame has no exception info and is unwound first.     *)
NativeThrow ==
  /\ Runs("CALL") /\ Op.x \in DOMAIN Native /\ Native[Op.x] = "throw"
  /\ IF TailCall
     THEN Thrown(Top, Unwound(At(ap, fp, sp - 1, ip + 1)))
     ELSE Thrown(Top, At(ap, fp, sp - 1, ip + 1))
  /\ UNCHANGED <<prog, stack, out>>

---------------------------------------------------------------------------
(* PUSH reports a full stack and ends the program.                         *)
StackOverflow ==
  /\ status = Running
  /\ ~Fits
  /\ status' = Ended("overflow", NULL)
  /\ UNCHANGED <<prog, stack, sp, ap, fp, ip, exobj, out>>

(* vm_call_main: the argument, the class and a frame that returns to       *)
(* NATIVE.                                                                 *)
Init ==
  /\ prog \in Programs
  /\ stack = [c \in 0..(StackSize + Slack - 1) |->
               IF c = 0 THEN prog.arg ELSE IF c = 1 THEN THISCLS
               ELSE IF c = 2 THEN NATIVE ELSE IF c \in {3, 4} THEN 0 ELSE NULL]
  /\ ap = 0 /\ fp = 5 /\ sp = 6 + prog.locals[1]
  /\ ip = prog.entry[1]
  /\ exobj = [m \in DOMAIN prog.entry |-> NULL]
  /\ out = <<>>
  /\ status = Running

Next ==
  \/ LVBI_C \/ LVBI_ARG \/ LVBI_LOC \/ LD_EXOBJ \/ LABI_LOC \/ ST \/ POP \/ WRT
  \/ DUP \/ DR \/ BOP \/ UNM \/ NOT \/ VmError
  \/ JU \/ IFNJ \/ ST_EXINFO
  \/ \E m \in DOMAIN prog.entry : BC_CALL(m) \/ BC_TCALL(m)
  \/ NativeReturn \/ RET \/ THROW \/ NativeThrow
  \/ StackOverflow

(* The machine runs until the program ends.                                *)
Spec == Init /\ [][Next]_vars /\ WF_vars(Next)
=============================================================================
