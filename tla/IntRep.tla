------------------------------- MODULE IntRep -------------------------------
(***************************************************************************)
(* The fixed-width integers that SafeArith.ml is a functor over (IntRep):  *)
(* two's complement numbers of a width w, with Half = 2^(w-1).  Int32,     *)
(* Int64, Int128 and their unsigned counterparts come from the stdint      *)
(* library; Integer256.tla is compared with these definitions for the      *)
(* width the repository implements itself.                                 *)
(***************************************************************************)
EXTENDS Integers

CONSTANT Half

ASSUME HalfAssumption == Half \in Nat \ {0, 1}

Modulus == 2 * Half
SInts == (-Half)..(Half - 1)
UInts == 0..(Modulus - 1)
RangeOf(signed) == IF signed THEN SInts ELSE UInts

UWrap(n) == n % Modulus
SWrap(n) == ((n + Half) % Modulus) - Half
Wrap(signed, n) == IF signed THEN SWrap(n) ELSE UWrap(n)

Magnitude(n) == IF n < 0 THEN -n ELSE n

(* Division truncates towards zero. *)
Quot(a, b) ==
    LET m == Magnitude(a) \div Magnitude(b)
    IN  IF (a < 0) = (b < 0) THEN m ELSE -m

Rem(a, b) == a - b * Quot(a, b)
=============================================================================
