------------------------------- MODULE Arith -------------------------------
(***************************************************************************)
(* Binary operators on integers as C computes them: the compiler folds     *)
(* constants with them (compiler/strom.cpp, Bop::Optimize), the virtual    *)
(* machine applies them to operands (vm/vm.c, bc_bop).  && and || are      *)
(* ordinary operators of the language: both operands are evaluated.        *)
(***************************************************************************)
EXTENDS Integers, FiniteSetsExt

CONSTANT IntBits     \* the width of an int, 32 in the code

IntMax == 2^(IntBits - 1) - 1

Operators ==
  {"Plus", "Minus", "Times", "Divide", "Modulo", "Eq", "NotEq", "Less", "Greater",
   "LessOrEq", "GreaterOrEq", "LogOr", "LogAnd", "BitOr", "BitAnd", "Xor", "Lsh", "Rsh"}

Truth(b) == IF b THEN 1 ELSE 0

\* Division of C: towards zero, the remainder has the sign of the dividend.
Quotient(a, b) ==
  LET abs(x) == IF x < 0 THEN -x ELSE x
      q == abs(a) \div abs(b)
  IN IF (a < 0) # (b < 0) THEN -q ELSE q

\* A word put together from the bits f(x, y) of two words in two's complement.
Bitwise(f(_, _), a, b) ==
  LET bit(x, i) == (x \div 2^i) % 2
      at(i) == f(bit(a, i), bit(b, i))
  IN MapThenSumSet(LAMBDA i : at(i) * 2^i, 0..(IntBits - 2)) - at(IntBits - 1) * 2^(IntBits - 1)

CInt(op, a, b) ==
  CASE op = "Plus" -> a + b
    [] op = "Minus" -> a - b
    [] op = "Times" -> a * b
    [] op = "Divide" -> Quotient(a, b)
    [] op = "Modulo" -> a - b * Quotient(a, b)
    [] op = "Eq" -> Truth(a = b)
    [] op = "NotEq" -> Truth(a # b)
    [] op = "Less" -> Truth(a < b)
    [] op = "Greater" -> Truth(a > b)
    [] op = "LessOrEq" -> Truth(a <= b)
    [] op = "GreaterOrEq" -> Truth(a >= b)
    [] op = "LogOr" -> Truth(a # 0 \/ b # 0)
    [] op = "LogAnd" -> Truth(a # 0 /\ b # 0)
    [] op = "BitOr" -> Bitwise(LAMBDA x, y : x + y - x * y, a, b)
    [] op = "BitAnd" -> Bitwise(LAMBDA x, y : x * y, a, b)
    [] op = "Xor" -> Bitwise(LAMBDA x, y : (x + y) % 2, a, b)
    [] op = "Lsh" -> a * 2^b
    [] op = "Rsh" -> a \div 2^b

\* C leaves the result open, or the program ends with a signal.
Undefined(op, a, b) ==
  IF op \in {"Divide", "Modulo"} THEN b = 0
  ELSE IF op \in {"Lsh", "Rsh"} /\ b \notin 0..(IntBits - 1) THEN TRUE
  ELSE CInt(op, a, b) \notin (-IntMax - 1)..IntMax \/ (op = "Lsh" /\ a < 0)
=============================================================================
