----------------------------- MODULE SafeArith ------------------------------
(***************************************************************************)
(* SafeArith.ml: arithmetic that finds an overflow from the wrapped result *)
(* and the operands, and the integer builtins of BuiltIns.ml, which turn   *)
(* an exception they expect into a failure of the transition.              *)
(*                                                                         *)
(* The loop of pow is a state machine; x and y are also the operands of    *)
(* the operations that have no loop.                                       *)
(***************************************************************************)
EXTENDS IntRep, Powers

CONSTANT MaxExponent     \* bound on the exponents, which are of Uint32

ASSUME ExponentAssumption == MaxExponent \in Nat

VARIABLES
    signed,              \* SafeInt or SafeUint
    x, y,                \* the operands
    acc,                 \* the result of pow_aux so far
    left                 \* the multiplications it still has to do

safeVars == <<signed, x, y, acc, left>>

Returns(v) == [exn |-> "none", value |-> v]
Raises(e) == [exn |-> e, value |-> 0]

Sign(n) == IF n < 0 THEN -1 ELSE IF n = 0 THEN 0 ELSE 1

-----------------------------------------------------------------------------
(* module SafeInt *)

IntAdd(a, b) ==
    LET r == SWrap(a + b)
    IN  IF a > 0 /\ b > 0 /\ r < 0 THEN Raises("IntOverflow")
        ELSE IF a < 0 /\ b < 0 /\ r >= 0 THEN Raises("IntUnderflow")
        ELSE Returns(r)

(* Mutant: the corner case a = 0, b = min_int forgotten. *)
IntSubStrict(a, b) ==
    LET r == SWrap(a - b)
    IN  IF a > 0 /\ b < 0 /\ r < 0 THEN Raises("IntOverflow")
        ELSE IF a < 0 /\ b > 0 /\ r > 0 THEN Raises("IntUnderflow")
        ELSE Returns(r)

IntSub(a, b) ==
    LET r == SWrap(a - b)
    IN  IF a >= 0 /\ b < 0 /\ r < 0 THEN Raises("IntOverflow")
        ELSE IF a < 0 /\ b > 0 /\ r > 0 THEN Raises("IntUnderflow")
        ELSE Returns(r)

IntMul(a, b) ==
    LET r == SWrap(a * b)
    IN  IF b < 0 /\ a = -Half THEN Raises("IntOverflow")
        ELSE IF b # 0 /\ SWrap(Quot(r, b)) # a
        THEN Raises(IF Sign(a) = Sign(b) THEN "IntOverflow" ELSE "IntUnderflow")
        ELSE Returns(r)

IntDiv(a, b) ==
    IF a = -Half /\ b = -1 THEN Raises("IntOverflow")
    ELSE IF b = 0 THEN Raises("Division_by_zero")
    ELSE Returns(Quot(a, b))

-----------------------------------------------------------------------------
(* module SafeUint *)

UintAdd(a, b) ==
    LET r == UWrap(a + b)
    IN  IF r < a \/ r < b THEN Raises("IntOverflow") ELSE Returns(r)

UintSub(a, b) ==
    IF a < b THEN Raises("IntUnderflow") ELSE Returns(UWrap(a - b))

UintMul(a, b) ==
    LET r == UWrap(a * b)
    IN  IF b # 0 /\ Quot(r, b) # a THEN Raises("IntOverflow") ELSE Returns(r)

UintDiv(a, b) ==
    IF b = 0 THEN Raises("Division_by_zero") ELSE Returns(Quot(a, b))

(* Both modules. *)
RemOp(a, b) ==
    IF b = 0 THEN Raises("Division_by_zero") ELSE Returns(Rem(a, b))

SafeAdd(a, b) == IF signed THEN IntAdd(a, b) ELSE UintAdd(a, b)
SafeSub(a, b) == IF signed THEN IntSub(a, b) ELSE UintSub(a, b)
SafeMul(a, b) == IF signed THEN IntMul(a, b) ELSE UintMul(a, b)
SafeDiv(a, b) == IF signed THEN IntDiv(a, b) ELSE UintDiv(a, b)

-----------------------------------------------------------------------------
(* BuiltIns.ml: the exceptions each builtin catches; any other one ends the *)
(* interpreter.                                                             *)
Caught(op) ==
    IF op \in {"add", "sub", "mul", "pow"} THEN {"IntOverflow", "IntUnderflow"}
    ELSE {"Division_by_zero"} \cup (IF op = "div" /\ signed THEN {"IntOverflow"} ELSE {})

Failed == [exn |-> "builtin_fail", value |-> 0]

Builtin(op, res) == IF res.exn \in Caught(op) THEN Failed ELSE res

-----------------------------------------------------------------------------
SafeInit ==
    /\ signed \in BOOLEAN
    /\ x \in RangeOf(signed) /\ y \in RangeOf(signed)
    /\ acc = Returns(Wrap(signed, 1))
    /\ left = IF y \in 0..MaxExponent THEN y ELSE 0

(* Mutant: the wrapped product is used. *)
PowStepWrapping ==
    /\ acc.exn = "none" /\ left > 0
    /\ acc' = Returns(Wrap(signed, x * acc.value))
    /\ left' = left - 1
    /\ UNCHANGED <<signed, x, y>>

(* Mutant: the product is not cut to the width. *)
PowStepUnbounded ==
    /\ acc.exn = "none" /\ left > 0
    /\ acc' = Returns(x * acc.value)
    /\ left' = left - 1
    /\ UNCHANGED <<signed, x, y>>

(* pow_aux (mul a acc) (Uint32.pred b'); an exception ends the loop. *)
PowStep ==
    /\ acc.exn = "none" /\ left > 0
    /\ acc' = SafeMul(x, acc.value)
    /\ left' = left - 1
    /\ UNCHANGED <<signed, x, y>>

SafeSpec == SafeInit /\ [][PowStep]_safeVars

-----------------------------------------------------------------------------
(* Properties. *)

Exceptions == {"none", "IntOverflow", "IntUnderflow", "Division_by_zero"}

(* The result of pow is a number of its width as long as nothing is raised. *)
SafeTypeOK ==
    /\ signed \in BOOLEAN
    /\ x \in RangeOf(signed) /\ y \in RangeOf(signed)
    /\ acc \in [exn : Exceptions, value : RangeOf(signed)]
    /\ left \in 0..MaxExponent

(* What a builtin should yield: the exact result if the width has it. *)
Exact(n) == IF n \in RangeOf(signed) THEN Returns(n) ELSE Failed

(* A builtin yields the exact result or fails, and it fails only when there *)
(* is no exact result of its width; no exception gets past it.              *)
BuiltinsExact ==
    /\ Builtin("add", SafeAdd(x, y)) = Exact(x + y)
    /\ Builtin("sub", SafeSub(x, y)) = Exact(x - y)
    /\ Builtin("mul", SafeMul(x, y)) = Exact(x * y)
    /\ Builtin("div", SafeDiv(x, y)) = IF y = 0 THEN Failed ELSE Exact(Quot(x, y))
    /\ Builtin("rem", RemOp(x, y)) = IF y = 0 THEN Failed ELSE Exact(Rem(x, y))

(* pow fails in the middle of its loop exactly when the power it was asked  *)
(* for does not fit, although it only ever looks at one product.            *)
PowExact ==
    (left = 0 \/ acc.exn # "none") /\ y \in 0..MaxExponent =>
        Builtin("pow", acc) = Exact(Power(x, y))
=============================================================================
