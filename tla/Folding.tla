------------------------------ MODULE Folding ------------------------------
(***************************************************************************)
(* The numbers of compile-time integers: literals (source/token_stream.c), *)
(* folding and casts (source/value.c, source/analysis.c).                  *)
(*                                                                         *)
(* analyze_node works on an expression from the leaves up, so an           *)
(* expression is given as the operations in that order, on a stack of the  *)
(* values of the operands.  A value is an int64_t whatever its type is;    *)
(* the width of the type counts only when llvm_value hands the constant to *)
(* LLVM.                                                                   *)
(*                                                                         *)
(* Next to the value the analyser computes, `machine` is the one that the  *)
(* instructions generated for the same expression (codegen_binary,         *)
(* codegen_unary) compute in the width of the type, as long as `comparable`*)
(* says that they are valid and stay clear of division (0 otherwise).      *)
(*                                                                         *)
(* Floats are left out.                                                    *)
(***************************************************************************)
EXTENDS Integers, Sequences

CONSTANTS
  Max,        \* INT64_MAX
  Types,      \* the integer types
  Signed,     \* those of them that are signed
  Modulus,    \* type -> 2 to the power of its width
  Numerals,   \* the numbers integer literals write
  MaxDepth    \* bound: operands that wait at the same time

ASSUME MaxAssumption == Max \in Nat \ {0}
ASSUME TypesAssumption ==
  /\ {"untyped", "ZERO", "zero"} \cap Types = {}
  /\ Signed \subseteq Types
  /\ Modulus \in [Types -> Nat \ {0}]
ASSUME NumeralsAssumption == Numerals \subseteq Nat

VARIABLES
  operands,   \* the values that wait for their operator, the latest last
  exact,      \* the mathematical result of the last operation
  undefined,  \* the last operation overflowed in C
  answer      \* "ok", or why the expression was refused

vars == <<operands, exact, undefined, answer>>

Min   == -Max - 1
Int64 == Min .. Max

\* "untyped" is untyped_int; "ZERO" is VAL_ZERO, the literal 0, and "zero"
\* the scalar of ty_zero its negation is.  Of the types of Types only int is
\* signed in the code: analyze_int_bits makes intN as unsigned as uintN.
Value(t, n) == [t |-> t, int |-> n, machine |-> 0, comparable |-> FALSE]
Typed(t, n, m, same) ==
  [t |-> t, int |-> n, machine |-> IF same THEN m ELSE 0, comparable |-> same]

IsInteger(v) == v.t \in Types \cup {"untyped"}

(***************************************************************************)
(* C and machine arithmetic.                                               *)
(***************************************************************************)
\* C's division, towards zero.
Quot(a, b) ==
  CASE a >= 0 /\ b > 0 -> a \div b
    [] a >= 0 /\ b < 0 -> -(a \div (-b))
    [] a < 0 /\ b > 0  -> -((-a) \div b)
    [] OTHER           -> (-a) \div (-b)

Exact(op, a, b) ==
  CASE op = "+" -> a + b
    [] op = "-" -> a - b
    [] op = "*" -> a * b
    [] OTHER    -> Quot(a, b)

\* What a C expression over int64_t may come to: anything when it overflows.
Outcomes(x) == IF x \in Int64 THEN {x} ELSE Int64

\* The low bits of n, those of a result of type t, as a number.
Low(t, n) == n % Modulus[t]

\* The constant LLVMConstInt makes of the 64 bits of n: a type that is wider
\* than those gets copies of the sign only when it is signed.
Constant(t, n) == Low(t, IF t \in Signed THEN n ELSE n % (2 * (Max + 1)))

\* Mutant: the operands of the instruction are swapped.
MachineSwapped(op, t, m, n) == Low(t, Exact(op, n, m))

\* add, sub and mul.
Machine(op, t, m, n) == Low(t, Exact(op, m, n))

(***************************************************************************)
(* arith_int.                                                              *)
(***************************************************************************)
AddOverflows(a, b) == (b > 0 /\ a > Max - b) \/ (b < 0 /\ a < Min - b)
SubOverflows(a, b) == (b > 0 /\ a < Min + b) \/ (b < 0 /\ a > Max + b)

\* Mutant: the product of two negative numbers is not looked at.
MulForgetsNegative(a, b) ==
  \/ a > 0 /\ b > 0 /\ a > Quot(Max, b)
  \/ a > 0 /\ b < 0 /\ b < Quot(Min, a)
  \/ a < 0 /\ b > 0 /\ a < Quot(Min, b)

MulOverflows(a, b) ==
  \/ a > 0 /\ b > 0 /\ a > Quot(Max, b)
  \/ a > 0 /\ b < 0 /\ b < Quot(Min, a)
  \/ a < 0 /\ b > 0 /\ a < Quot(Min, b)
  \/ a < 0 /\ b < 0 /\ a < Quot(Max, b)

DivOverflows(a, b) == a = Min /\ b = -1

Overflows(op, a, b) ==
  CASE op = "+" -> AddOverflows(a, b)
    [] op = "-" -> SubOverflows(a, b)
    [] op = "*" -> MulOverflows(a, b)
    [] OTHER    -> DivOverflows(a, b)

(***************************************************************************)
(* The operations.                                                         *)
(***************************************************************************)
Top == operands[Len(operands)]

\* The k latest operands are replaced by v.
Replace(k, v) == operands' = Append(SubSeq(operands, 1, Len(operands) - k), v)

Refuse(why) == answer' = why /\ UNCHANGED operands

\* strtoll: a literal that is too large becomes the largest number.
Read(n) == IF n > Max THEN Max ELSE n

AnalyzeIntegerLit ==
  /\ answer = "ok" /\ Len(operands) < MaxDepth
  /\ \E n \in Numerals :
       /\ Replace(0, Value(IF n = 0 THEN "ZERO" ELSE "untyped", Read(n)))
       /\ exact' = Read(n)
  /\ undefined' = FALSE
  /\ UNCHANGED answer

\* value_do_arith takes the literal 0 for an untyped number.
AsScalar(v) == IF v.t = "ZERO" THEN [v EXCEPT !.t = "untyped"] ELSE v

\* Mixed with an untyped number the result is untyped.
Combined(op, lhs, rhs, r) ==
  IF lhs.t # rhs.t \/ lhs.t = "untyped" THEN Value("untyped", r)
  ELSE IF op = "/" THEN Value(lhs.t, r)
  ELSE Typed(lhs.t, r, Machine(op, lhs.t, lhs.machine, rhs.machine),
             lhs.comparable /\ rhs.comparable)

AnalyzeBinary(op) ==
  /\ answer = "ok" /\ Len(operands) > 1
  /\ LET lhs == AsScalar(operands[Len(operands) - 1])
         rhs == AsScalar(Top)
         x   == Exact(op, lhs.int, rhs.int)
     IN  IF \/ ~IsInteger(lhs) \/ ~IsInteger(rhs)
            \/ lhs.t \in Types /\ rhs.t \in Types /\ lhs.t # rhs.t
         THEN Refuse("incompatible") /\ UNCHANGED <<exact, undefined>>
         ELSE IF op = "/" /\ rhs.int = 0
         THEN Refuse("division by zero") /\ UNCHANGED <<exact, undefined>>
         ELSE /\ exact' = x
              /\ IF Overflows(op, lhs.int, rhs.int)
                 THEN Refuse("overflow") /\ UNCHANGED undefined
                 ELSE /\ \E r \in Outcomes(x) : Replace(2, Combined(op, lhs, rhs, r))
                      /\ undefined' = (x \notin Int64)
                      /\ UNCHANGED answer

\* The minus.  The smallest number has no opposite.
AnalyzeUnary ==
  /\ answer = "ok" /\ operands # <<>>
  /\ IF Top.t = "zero" THEN Refuse("negation") /\ UNCHANGED <<exact, undefined>>
     ELSE /\ exact' = -Top.int
          /\ undefined' = (exact' \notin Int64)
          /\ \E r \in Outcomes(-Top.int) :
               Replace(1, IF Top.t = "ZERO" THEN Value("zero", r)
                          ELSE IF Top.t = "untyped" THEN Value(Top.t, r)
                          ELSE Typed(Top.t, r, Low(Top.t, -Top.machine),
                                     Top.comparable /\ ~undefined'))
          /\ UNCHANGED answer

\* value_cast: the number stays what it is, whatever the width of the type.
\* The instructions for a cast from one width to another are not valid.
AnalyzeCast(t) ==
  /\ answer = "ok" /\ operands # <<>>
  /\ IF Top.t = "zero" THEN Refuse("cast") /\ UNCHANGED <<exact, undefined>>
     ELSE /\ Replace(1, IF Top.t = t THEN Top
                        ELSE Typed(t, Top.int, Constant(t, Top.int), Top.t \notin Types))
          /\ exact' = Top.int
          /\ undefined' = FALSE
          /\ UNCHANGED answer

Refused == answer # "ok" /\ UNCHANGED vars

Ops == {"+", "-", "*", "/"}

Init == operands = <<>> /\ exact = 0 /\ undefined = FALSE /\ answer = "ok"

Next ==
  \/ AnalyzeIntegerLit
  \/ \E op \in Ops : AnalyzeBinary(op)
  \/ AnalyzeUnary
  \/ \E t \in Types : AnalyzeCast(t)
  \/ Refused

Spec == Init /\ [][Next]_vars

(***************************************************************************)
(* Properties.                                                             *)
(***************************************************************************)
Answers == {"ok", "incompatible", "division by zero", "overflow", "negation", "cast"}

Values ==
  {v \in [t : Types \cup {"untyped", "ZERO", "zero"}, int : Int64, machine : Nat,
          comparable : BOOLEAN] : v.comparable => v.t \in Types}

\* Type correctness: every value is an int64_t, a literal that is too large
\* included.
TypeOK ==
  /\ operands \in Seq(Values)
  /\ exact \in Int /\ undefined \in BOOLEAN /\ answer \in Answers

\* The guards of arith_int are exact.  They let no operation through that
\* overflows, so what was folded is the mathematical result, and only the minus,
\* which is not guarded, may leave 64 bits; and what they refuse does not fit.
FoldsExactly ==
  /\ answer = "ok" /\ operands # <<>> =>
       IF undefined THEN exact = Max + 1 ELSE Top.int = exact
  /\ answer = "overflow" => exact \notin Int64

\* No wider than 64 bits, or with a sign to be copied.
KeepsBits(t) == t \in Signed \/ (2 * (Max + 1)) % Modulus[t] = 0

\* Folding in 64 bits and cutting the result down once gives the constant that
\* the instructions for the expression would compute, wrapping at every step.
WrapsAlike ==
  \A i \in DOMAIN operands :
    LET v == operands[i]
    IN  v.comparable /\ KeepsBits(v.t) => Constant(v.t, v.int) = v.machine
=============================================================================
