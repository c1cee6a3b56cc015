---------------------------- MODULE MCExecution ----------------------------
(***************************************************************************)
(* Small programs for Execution: a main method and one method it calls.    *)
(* Main is put together from simple statements, one compound statement     *)
(* around them and a final output; the callees are listed.                 *)
(***************************************************************************)
EXTENDS Verifier

CONSTANTS nret, nthrow     \* native methods

MCNative == (nret :> "return") @@ (nthrow :> "throw")

CONSTANTS info1, info2
MCExInfo == <<info1, info2>>

Fuel == 6

\* Method 2.
Callee ==
  { <<Return(Arg(0))>>,
    <<Throw(Arg(0))>>,
    <<Return(Call(nret, Arg(0)))>>,
    <<Return(Call(nthrow, Arg(0)))>>,
    \* handles its own exception
    <<Try(VoidCall(nthrow, Arg(0)), 1, Write(ExObj(1))), Return(Const(5))>>,
    \* throws from a catch block
    <<Try(Throw(Arg(0)), 1, Throw(ExObj(1)))>>,
    \* nested tries
    <<Try(StatmList(<<Try(Throw(Arg(0)), 1, Write(ExObj(1))), VoidCall(nthrow, Const(6))>>),
          2, Return(ExObj(2)))>>,
    \* leaves a try block by break and by return
    <<While(Arg(0), Try(StatmList(<<Write(Arg(0)), Break>>), 1, StatmList(<<Empty>>))), Throw(Const(7))>>,
    <<Try(Return(Arg(0)), 1, StatmList(<<Empty>>))>>,
    \* recursion, in tail position and not
    <<If(Arg(0), Return(Call(2, Const(0))), Throw(Const(4)))>>,
    <<If(Arg(0), Assign(0, Call(2, Const(0))), Throw(Const(4))), Write(Local(0))>>,
    \* recursion that does not end
    <<Return(Call(2, Arg(0)))>>,
    <<VoidCall(2, Arg(0))>> }

Simple ==
  { Write(Local(0)), Assign(0, Const(0)), Assign(0, Call(2, Local(0))),
    VoidCall(2, Const(1)), VoidCall(nthrow, Const(2)), Throw(Const(3)),
    Return(Local(0)), Return(Call(2, Const(1))) }

Pair == {StatmList(<<s, t>>) : s, t \in Simple \ {Return(Local(0)), Return(Call(2, Const(1)))}}
Inner == Simple \cup Pair
Catch == {Write(ExObj(1)), Assign(0, ExObj(1)), Throw(ExObj(1))}

Compound ==
  {Try(s, 1, c) : s \in Inner, c \in Catch}
  \cup {Try(StatmList(<<Try(s, 2, t), u>>), 1, Write(ExObj(1))) :
          s \in Simple, t \in {Write(ExObj(2)), Throw(ExObj(2))}, u \in Simple}
  \cup {If(Local(0), s, t) : s \in Simple, t \in Simple \cup {Empty}}
  \cup {StatmList(<<If(Local(0), s, Empty), Try(t, 1, Write(ExObj(1)))>>) : s, t \in Simple}
  \cup {While(Local(0), s) : s \in Inner}
  \cup {While(Const(1), StatmList(<<s, If(Local(0), Assign(0, Const(0)), Break)>>)) : s \in Simple}
  \cup {While(Const(1), StatmList(<<Try(StatmList(<<s, Break>>), 1, Write(ExObj(1))),
                                    If(Local(0), Assign(0, Const(0)), Break)>>)) : s \in Simple}

Main == {<<Assign(0, Const(1)), s, Write(Local(0))>> : s \in Compound}
        \cup {<<Return(Call(2, Const(1)))>>}

Methods(bodies) == {FrontEnd([body |-> l, locals |-> 1], <<T("NEWLINE")>>) : l \in bodies}

\* Programs that write for ever have no end of states.
WritesForEver(p) == p.means.end = "diverge" /\ Len(p.means.out) > 1

Compiled ==
  {Compile(<<m, f>>, 8, Fuel) : m \in Methods(Main), f \in Methods(Callee)}

MCPrograms ==
  LET finite == {p \in Compiled : ~WritesForEver(p)}
  IN {p \in finite : ~ThrowBeforeTry(p) /\ ~TailCallInTry(p) /\ ~NativeTailCallInMain(p)}

\* The programs that the first two conditions leave out.
MCThrowBeforeTry ==
  LET throwing == {p \in Compiled : ThrowBeforeTry(p)} IN {p \in throwing : ~TailCallInTry(p)}
MCTailCallInTry ==
  LET leaving == {p \in Compiled : TailCallInTry(p)} IN {p \in leaving : ~ThrowBeforeTry(p)}
=============================================================================
