-------------------------- MODULE AlgorithmsProofs --------------------------
(***************************************************************************)
(* The loops and operations of the library that AlgorithmsMC checks, for   *)
(* every width, every size of a half and every length of a nonce:          *)
(* SafeArith's builtins, Integer256's addition, subtraction, comparison,   *)
(* multiplication and division of pairs of halves (the carry and the       *)
(* borrow between the halves, the digits of the long multiplication, and   *)
(* the bits that the rounds of divloop shift, test and set), signed and    *)
(* unsigned, its literals, and the bytes that generate_dsa_nonce hashes.   *)
(***************************************************************************)
EXTENDS SafeArith, Integer256, DsaNonce, Lemmas

-----------------------------------------------------------------------------
(* Wrapping leaves alone the integers that the width has, and moves those   *)
(* that a sum or a difference can reach by one modulus.                     *)
LEMMA UWrapCases ==
    ASSUME NEW n \in Int, -Modulus <= n, n < 2 * Modulus
    PROVE  UWrap(n) = IF n < 0 THEN n + Modulus
                      ELSE IF n < Modulus THEN n ELSE n - Modulus
  BY HalfAssumption DEF UWrap, Modulus

LEMMA SWrapCases ==
    ASSUME NEW n \in Int, -Modulus <= n, n < Modulus
    PROVE  SWrap(n) = IF n < -Half THEN n + Modulus
                      ELSE IF n < Half THEN n ELSE n - Modulus
  BY HalfAssumption DEF SWrap, Modulus

LEMMA UWrapRange ==
    ASSUME NEW n \in Int
    PROVE  UWrap(n) \in UInts
  BY HalfAssumption DEF UWrap, UInts, Modulus

LEMMA SWrapRange ==
    ASSUME NEW n \in Int
    PROVE  SWrap(n) \in SInts
  BY HalfAssumption DEF SWrap, SInts, Modulus

LEMMA IntAddExact ==
    ASSUME signed = TRUE, NEW a \in SInts, NEW b \in SInts
    PROVE  Builtin("add", SafeAdd(a, b)) = Exact(a + b)
  BY SWrapCases, HalfAssumption
     DEF Builtin, Caught, SafeAdd, IntAdd, Exact, RangeOf, Raises, Returns, Failed, SInts, Modulus
LEMMA IntSubExact ==
    ASSUME signed = TRUE, NEW a \in SInts, NEW b \in SInts
    PROVE  Builtin("sub", SafeSub(a, b)) = Exact(a - b)
  BY SWrapCases, HalfAssumption
     DEF Builtin, Caught, SafeSub, IntSub, Exact, RangeOf, Raises, Returns, Failed, SInts, Modulus

LEMMA UintAddExact ==
    ASSUME signed = FALSE, NEW a \in UInts, NEW b \in UInts
    PROVE  Builtin("add", SafeAdd(a, b)) = Exact(a + b)
  BY UWrapCases, HalfAssumption
     DEF Builtin, Caught, SafeAdd, UintAdd, Exact, RangeOf, Raises, Returns, Failed, UInts, Modulus

LEMMA UintSubExact ==
    ASSUME signed = FALSE, NEW a \in UInts, NEW b \in UInts
    PROVE  Builtin("sub", SafeSub(a, b)) = Exact(a - b)
  BY UWrapCases, HalfAssumption
     DEF Builtin, Caught, SafeSub, UintSub, Exact, RangeOf, Raises, Returns, Failed, UInts, Modulus

-----------------------------------------------------------------------------
(* Truncated division. *)

LEMMA Quotient ==
    ASSUME NEW m \in Nat, NEW d \in Nat \ {0}
    PROVE  /\ m \div d \in Nat
           /\ (m \div d) * d <= m
           /\ m < (m \div d) * d + d
           /\ m \div d <= m
  OBVIOUS

LEMMA MagnitudeFacts ==
    ASSUME NEW n \in Int
    PROVE  /\ Magnitude(n) \in Nat
           /\ n = 0 <=> Magnitude(n) = 0
           /\ n = Magnitude(n) \/ n = -Magnitude(n)
           /\ n >= 0 => Magnitude(n) = n
           /\ n < 0 => Magnitude(n) = -n
  BY DEF Magnitude

LEMMA MagnitudeTimes ==
    ASSUME NEW a \in Int, NEW b \in Int
    PROVE  Magnitude(a * b) = Magnitude(a) * Magnitude(b)
  BY DEF Magnitude

LEMMA QuotRange ==
    ASSUME NEW a \in Int, NEW b \in Int \ {0}
    PROVE  /\ Quot(a, b) \in Int
           /\ Magnitude(Quot(a, b)) = Magnitude(a) \div Magnitude(b)
           /\ Magnitude(Quot(a, b)) <= Magnitude(a)
           /\ (a < 0) = (b < 0) => Quot(a, b) >= 0
           /\ (a < 0) # (b < 0) => Quot(a, b) <= 0
  BY MagnitudeFacts, Quotient DEF Quot
(* Dividing a product by one factor gives the other.                        *)
LEMMA QuotOfProduct ==
    ASSUME NEW a \in Int, NEW b \in Int \ {0}
    PROVE  Quot(a * b, b) = a
<1> DEFINE m == Magnitude(a)
<1> DEFINE d == Magnitude(b)
<1>1. m \in Nat /\ d \in Nat \ {0}
  BY MagnitudeFacts
<1>2. (m * d) \div d = m
  <2>1. ((m * d) \div d) * d <= m * d /\ m * d < ((m * d) \div d) * d + d
    BY <1>1, Quotient
  <2>2. (m * d) \div d \in Nat
    BY <1>1, Quotient
  <2> HIDE DEF m, d
  <2> DEFINE k == (m * d) \div d
  <2> SUFFICES k = m
    OBVIOUS
  <2>3. k \in Nat /\ k * d <= m * d /\ m * d < (k + 1) * d
    BY <2>1, <2>2, <1>1
  <2> HIDE DEF k
  <2>4. k <= m
    BY <2>3, <1>1
  <2>5. m < k + 1
    BY <2>3, <1>1
  <2> QED
    BY <2>3, <2>4, <2>5, <1>1
<1>3. Magnitude(a * b) \div Magnitude(b) = Magnitude(a)
  BY <1>2, MagnitudeTimes
<1>4. a * b \in Int
  OBVIOUS
<1>5. CASE a = 0
  BY <1>5, <1>3, MagnitudeFacts DEF Quot
<1>6. CASE a > 0
  <2>1. (a * b < 0) = (b < 0)
    BY <1>6
  <2> QED
    BY <1>6, <2>1, <1>3, MagnitudeFacts DEF Quot
<1>7. CASE a < 0
  <2>1. (a * b < 0) # (b < 0)
    BY <1>7
  <2> QED
    BY <1>7, <2>1, <1>3, MagnitudeFacts DEF Quot
<1> QED
  BY <1>5, <1>6, <1>7

(* If dividing the wrapped product gives back the factor, nothing wrapped.  *)
LEMMA UintMulExact ==
    ASSUME signed = FALSE, NEW a \in UInts, NEW b \in UInts
    PROVE  Builtin("mul", SafeMul(a, b)) = Exact(a * b)
<1> DEFINE r == UWrap(a * b)
<1>1. a \in Nat /\ b \in Nat /\ a * b \in Nat /\ r \in UInts /\ r \in Nat
  BY UWrapRange, HalfAssumption DEF UInts, Modulus
<1>2. a * b \in UInts => r = a * b
  BY HalfAssumption DEF UWrap, UInts, Modulus
<1>3. b = 0 => a * b \in UInts
  BY HalfAssumption DEF UInts, Modulus
<1>4. ASSUME b # 0 PROVE Quot(r, b) = a <=> a * b \in UInts
  <2>1. CASE a * b \in UInts
    BY <2>1, <1>2, <1>4, <1>1, QuotOfProduct
  <2>2. ASSUME Quot(r, b) = a PROVE a * b \in UInts
    <3>1. r \div b = a
      BY <2>2, <1>1, <1>4 DEF Quot, Magnitude
    <3>2. a * b <= r
      BY <3>1, <1>1, <1>4, Quotient
    <3> QED
      BY <3>2, <1>1, HalfAssumption DEF UInts, Modulus
  <2> QED
    BY <2>1, <2>2
<1> HIDE DEF r
<1>5. SafeMul(a, b) = IF b # 0 /\ Quot(r, b) # a THEN Raises("IntOverflow") ELSE Returns(r)
  BY DEF SafeMul, UintMul, r
<1> QED
  BY <1>1, <1>2, <1>3, <1>4, <1>5
  DEF Builtin, Caught, Exact, RangeOf, Raises, Returns, Failed

LEMMA IntMulExact ==
    ASSUME signed = TRUE, NEW a \in SInts, NEW b \in SInts
    PROVE  Builtin("mul", SafeMul(a, b)) = Exact(a * b)
<1> DEFINE r == SWrap(a * b)
<1> DEFINE p == a * b
<1> DEFINE q == Quot(r, b)
<1>1. a \in Int /\ b \in Int /\ p \in Int /\ r \in SInts /\ r \in Int
  BY SWrapRange, HalfAssumption DEF SInts
<1>2. p \in SInts => r = p
  BY HalfAssumption DEF SWrap, SInts, Modulus
<1>3. b = 0 => p \in SInts
  BY HalfAssumption DEF SInts
<1>4. ASSUME b < 0, a = -Half PROVE p \notin SInts
  <2>1. p = Half * (-b) /\ -b >= 1
    BY <1>4, <1>1, HalfAssumption
  <2>2. p >= Half
    BY <2>1, <1>1, HalfAssumption
  <2> QED
    BY <2>2, <1>1, HalfAssumption DEF SInts
<1>5. ASSUME b # 0, ~(b < 0 /\ a = -Half)
      PROVE  SWrap(q) = a <=> p \in SInts
  <2>1. CASE p \in SInts
    <3>1. q = a
      BY <2>1, <1>1, <1>2, <1>5, QuotOfProduct
    <3> QED
      BY <2>1, <3>1, SWrapCases, HalfAssumption DEF SInts, Modulus
  <2>2. ASSUME SWrap(q) = a PROVE p \in SInts
    <3>1. /\ q \in Int
          /\ Magnitude(q) = Magnitude(r) \div Magnitude(b)
          /\ Magnitude(q) <= Magnitude(r)
          /\ (r < 0) = (b < 0) => q >= 0
          /\ (r < 0) # (b < 0) => q <= 0
      BY <1>1, <1>5, QuotRange
    <3>2. -Half <= q /\ q <= Half
      BY <3>1, <1>1, HalfAssumption DEF Magnitude, SInts
    <3> HIDE DEF q, r, p
    <3>3. q = Half => b < 0 /\ SWrap(q) = -Half
      <4> SUFFICES ASSUME q = Half PROVE b < 0 /\ SWrap(q) = -Half
        OBVIOUS
      <4>1. r = -Half
        BY <3>1, <1>1, HalfAssumption DEF Magnitude, SInts
      <4> QED
        BY <4>1, <3>1, <1>1, SWrapCases, HalfAssumption DEF Modulus
    <3>4. q = a
      BY <3>2, <3>3, <3>1, <2>2, <1>5, SWrapCases, HalfAssumption DEF Modulus
    <3>5. Magnitude(a) * Magnitude(b) <= Magnitude(r)
      BY <3>4, <3>1, <1>1, <1>5, MagnitudeFacts, Quotient
    <3>6. Magnitude(p) <= Magnitude(r)
      BY <3>5, <1>1, MagnitudeTimes DEF p
    <3>7. CASE p = Half
      <4>1. r = -Half
        BY <3>7, SWrapCases, HalfAssumption DEF r, p, Modulus
      <4>2. CASE b < 0
        <5>1. a >= 0
          BY <4>2, <4>1, <3>1, <3>4, HalfAssumption
        <5>2. p <= 0
          BY <5>1, <4>2, <1>1 DEF p
        <5> QED
          BY <5>2, <3>7, HalfAssumption
      <4>3. CASE b > 0
        <5>1. a <= 0
          BY <4>3, <4>1, <3>1, <3>4, <1>1, HalfAssumption
        <5>2. p <= 0
          BY <5>1, <4>3, <1>1 DEF p
        <5> QED
          BY <5>2, <3>7, HalfAssumption
      <4> QED
        BY <4>2, <4>3, <1>5, <1>1
    <3>8. CASE p # Half
      BY <3>8, <3>6, <1>1, HalfAssumption DEF Magnitude, SInts
    <3> QED
      BY <3>7, <3>8
  <2> QED
    BY <2>1, <2>2
<1> HIDE DEF r, p, q
<1>6. SafeMul(a, b) =
        IF b < 0 /\ a = -Half THEN Raises("IntOverflow")
        ELSE IF b # 0 /\ SWrap(q) # a
        THEN Raises(IF Sign(a) = Sign(b) THEN "IntOverflow" ELSE "IntUnderflow")
        ELSE Returns(r)
  BY DEF SafeMul, IntMul, r, q
<1>7. Exact(a * b) = IF p \in SInts THEN Returns(p) ELSE Failed
  BY DEF Exact, RangeOf, p
<1> QED
  BY <1>1, <1>2, <1>3, <1>4, <1>5, <1>6, <1>7
  DEF Builtin, Caught, Raises, Returns, Failed
(* The part of the dividend that the quotient accounts for lies between     *)
(* zero and the dividend.                                                   *)
LEMMA QuotTimes ==
    ASSUME NEW a \in Int, NEW b \in Int \ {0}
    PROVE  /\ b * Quot(a, b) \in Int
           /\ a >= 0 => b * Quot(a, b) \in 0..a
           /\ a < 0 => b * Quot(a, b) \in a..0
<1> DEFINE q == Quot(a, b)
<1>1. /\ q \in Int
      /\ Magnitude(q) = Magnitude(a) \div Magnitude(b)
      /\ (a < 0) = (b < 0) => q >= 0
      /\ (a < 0) # (b < 0) => q <= 0
  BY QuotRange
<1> HIDE DEF q
<1>2. Magnitude(q) * Magnitude(b) <= Magnitude(a)
  BY <1>1, MagnitudeFacts, Quotient
<1>3. Magnitude(b * q) <= Magnitude(a)
  BY <1>1, <1>2, MagnitudeTimes, MagnitudeFacts
<1>4. (a >= 0 => b * q >= 0) /\ (a < 0 => b * q <= 0)
  BY <1>1
<1>5. b * q \in Int
  BY <1>1
<1> QED
  BY <1>3, <1>4, <1>5 DEF Magnitude, q

LEMMA UintDivExact ==
    ASSUME signed = FALSE, NEW a \in UInts, NEW b \in UInts
    PROVE  Builtin("div", SafeDiv(a, b)) = IF b = 0 THEN Failed ELSE Exact(Quot(a, b))
<1>1. a \in Nat /\ b \in Nat
  BY HalfAssumption DEF UInts, Modulus
<1>2. ASSUME b # 0 PROVE Quot(a, b) \in UInts
  <2>1. Magnitude(a) = a /\ Magnitude(b) = b /\ (a < 0) = FALSE /\ (b < 0) = FALSE
    BY <1>1 DEF Magnitude
  <2>2. Quot(a, b) = a \div b
    BY <2>1 DEF Quot
  <2> QED
    BY <2>2, <1>1, <1>2, Quotient, HalfAssumption DEF UInts, Modulus
<1> QED
  BY <1>2 DEF Builtin, Caught, SafeDiv, UintDiv, Exact, RangeOf, Raises, Returns, Failed

LEMMA IntDivExact ==
    ASSUME signed = TRUE, NEW a \in SInts, NEW b \in SInts
    PROVE  Builtin("div", SafeDiv(a, b)) = IF b = 0 THEN Failed ELSE Exact(Quot(a, b))
<1>1. a \in Int /\ b \in Int
  BY HalfAssumption DEF SInts
<1>2. ASSUME b # 0 PROVE Quot(a, b) \in SInts <=> ~(a = -Half /\ b = -1)
  <2> DEFINE q == Quot(a, b)
  <2>1. /\ q \in Int
        /\ Magnitude(q) = Magnitude(a) \div Magnitude(b)
        /\ Magnitude(q) <= Magnitude(a)
        /\ (a < 0) = (b < 0) => q >= 0
        /\ (a < 0) # (b < 0) => q <= 0
    BY <1>1, <1>2, QuotRange
  <2>2. CASE a = -Half /\ b = -1
    <3>1. Magnitude(a) = Half /\ Magnitude(b) = 1
      <4>1. a < 0 /\ b < 0
        BY <2>2, HalfAssumption
      <4>2. Magnitude(a) = -a /\ Magnitude(b) = -b
        BY <4>1, <1>1, MagnitudeFacts
      <4>3. a + Half = 0 /\ b + 1 = 0
        BY <2>2, HalfAssumption
      <4> QED
        BY <4>2, <4>3, <1>1, HalfAssumption
    <3>2. Quot(a, b) = Half
      BY <3>1, <2>2, HalfAssumption DEF Quot
    <3> QED
      BY <3>2, <2>2, HalfAssumption DEF SInts
  <2> HIDE DEF q
  <2>3. ASSUME q = Half PROVE a = -Half /\ b = -1
    <3>1. a = -Half
      BY <2>1, <2>3, <1>1, HalfAssumption DEF Magnitude, SInts
    <3>2. b < 0
      BY <3>1, <2>1, <2>3, HalfAssumption
    <3>3. Half * Magnitude(b) <= Half
      <4>1. Magnitude(a) = Half /\ Magnitude(q) = Half
        BY <3>1, <2>3, HalfAssumption DEF Magnitude
      <4>2. Magnitude(b) \in Nat \ {0}
        BY <1>1, <1>2, MagnitudeFacts
      <4>3. (Half \div Magnitude(b)) * Magnitude(b) <= Half
        BY <4>2, Quotient, HalfAssumption
      <4> QED
        BY <4>1, <4>3, <2>1
    <3>4. Magnitude(b) <= 1
      BY <3>3, <1>1, MagnitudeFacts, HalfAssumption
    <3> QED
      BY <3>1, <3>2, <3>4, <1>1 DEF Magnitude
  <2>4. CASE ~(a = -Half /\ b = -1)
    BY <2>4, <2>3, <2>1, <1>1, HalfAssumption DEF Magnitude, SInts, q
  <2> QED
    BY <2>2, <2>4
<1>3. a = -Half /\ b = -1 => b # 0
  OBVIOUS
<1> QED
  BY <1>2, <1>3 DEF Builtin, Caught, SafeDiv, IntDiv, Exact, RangeOf, Raises, Returns, Failed

LEMMA RemExact ==
    ASSUME signed \in BOOLEAN, NEW a \in RangeOf(signed), NEW b \in RangeOf(signed)
    PROVE  Builtin("rem", RemOp(a, b)) = IF b = 0 THEN Failed ELSE Exact(Rem(a, b))
<1>1. a \in Int /\ b \in Int
  BY HalfAssumption DEF RangeOf, SInts, UInts, Modulus
<1>2. ASSUME b # 0 PROVE Rem(a, b) \in RangeOf(signed)
  <2> DEFINE t == b * Quot(a, b)
  <2>1. t \in Int /\ (a >= 0 => t \in 0..a) /\ (a < 0 => t \in a..0)
    BY <1>1, <1>2, QuotTimes
  <2>2. Rem(a, b) = a - t
    BY DEF Rem
  <2> HIDE DEF t
  <2> QED
    BY <2>1, <2>2, <1>1, HalfAssumption DEF RangeOf, SInts, UInts, Modulus
<1> QED
  BY <1>2 DEF Builtin, Caught, RemOp, Exact, Raises, Returns, Failed

-----------------------------------------------------------------------------
(* The operands never change, and the loop of pow stays within the width.   *)
THEOREM SafeTypeCorrect == SafeSpec => []SafeTypeOK
<1>1. SafeInit => SafeTypeOK
  BY HalfAssumption, ExponentAssumption, UWrapRange, SWrapRange
  DEF SafeInit, SafeTypeOK, RangeOf, Returns, Exceptions, Wrap
<1>2. SafeTypeOK /\ [PowStep]_safeVars => SafeTypeOK'
  <2> SUFFICES ASSUME SafeTypeOK, [PowStep]_safeVars
               PROVE  SafeTypeOK'
    OBVIOUS
  <2>1. CASE UNCHANGED safeVars
    BY <2>1 DEF SafeTypeOK, safeVars
  <2>2. CASE PowStep
    <3>1. /\ signed' = signed /\ x' = x /\ y' = y
          /\ left' \in 0..MaxExponent
      BY <2>2, ExponentAssumption DEF PowStep, SafeTypeOK
    <3>2. acc' \in [exn : Exceptions, value : RangeOf(signed)]
      <4>1. x \in Int /\ acc.value \in Int /\ x * acc.value \in Int
        BY HalfAssumption DEF SafeTypeOK, RangeOf, SInts, UInts, Modulus
      <4>2. 0 \in RangeOf(signed)
        BY HalfAssumption DEF RangeOf, SInts, UInts, Modulus
      <4>3. CASE signed
        BY <2>2, <4>1, <4>2, <4>3, SWrapRange
        DEF PowStep, SafeMul, IntMul, Returns, Raises, Exceptions, RangeOf
      <4>4. CASE ~signed
        BY <2>2, <4>1, <4>2, <4>4, UWrapRange
        DEF PowStep, SafeMul, UintMul, Returns, Raises, Exceptions, RangeOf
      <4> QED
        BY <4>3, <4>4
    <3> QED
      BY <3>1, <3>2 DEF SafeTypeOK
  <2> QED
    BY <2>1, <2>2
<1> QED
  BY <1>1, <1>2, PTL DEF SafeSpec

(* At every width, for all operands, SafeInt and SafeUint find every        *)
(* overflow and no other, and the builtins catch all that they raise.       *)
THEOREM BuiltinsAreExact == SafeSpec => []BuiltinsExact
<1>1. SafeTypeOK => BuiltinsExact
  <2> SUFFICES ASSUME SafeTypeOK PROVE BuiltinsExact
    OBVIOUS
  <2>1. signed \in BOOLEAN /\ x \in RangeOf(signed) /\ y \in RangeOf(signed)
    BY DEF SafeTypeOK
  <2>2. CASE signed = TRUE
    <3>1. x \in SInts /\ y \in SInts
      BY <2>1, <2>2 DEF RangeOf
    <3> QED
      BY <2>1, <2>2, <3>1, IntAddExact, IntSubExact, IntMulExact, IntDivExact, RemExact
      DEF BuiltinsExact
  <2>3. CASE signed = FALSE
    <3>1. x \in UInts /\ y \in UInts
      BY <2>1, <2>3 DEF RangeOf
    <3> QED
      BY <2>1, <2>3, <3>1, UintAddExact, UintSubExact, UintMulExact, UintDivExact, RemExact
      DEF BuiltinsExact
  <2> QED
    BY <2>1, <2>2, <2>3
<1> QED
  BY <1>1, SafeTypeCorrect, PTL

-----------------------------------------------------------------------------
(* The loop of pow. *)

(* No product with a number of the width comes back into its range.         *)
LEMMA StaysOut ==
    ASSUME signed \in BOOLEAN, NEW a \in RangeOf(signed), NEW v \in Int, v \notin RangeOf(signed),
           a \notin {-1, 0, 1}, ~signed => v >= 0
    PROVE  a * v \notin RangeOf(signed) /\ (~signed => a * v >= 0)
  <1>1. CASE ~signed
    <2>1. a \in Nat /\ a >= 2 /\ v >= Modulus /\ Modulus \in Nat
      BY <1>1, HalfAssumption DEF RangeOf, UInts, Modulus
    <2>2. a * v >= v
      BY <2>1
    <2> QED
      BY <1>1, <2>1, <2>2 DEF RangeOf, UInts
  <1>2. CASE signed
    <2>1. /\ a \in Int /\ (a >= 2 \/ a <= -2) /\ (v >= Half \/ v <= -Half)
          /\ Half \in Nat \ {0, 1}
      BY <1>2, HalfAssumption DEF RangeOf, SInts
    <2>2. CASE a >= 2 /\ v >= Half
      <3>1. a * v >= 2 * v
        BY <2>1, <2>2
      <3> QED
        BY <1>2, <2>1, <2>2, <3>1 DEF RangeOf, SInts
    <2>3. CASE a <= -2 /\ v <= -Half
      <3> DEFINE b == -a
                 w == -v
      <3>1. b >= 2 /\ w >= Half /\ b \in Nat /\ w \in Nat /\ a * v = b * w
        BY <2>1, <2>3
      <3> HIDE DEF b, w
      <3>2. b * w >= 2 * w
        BY <3>1
      <3> QED
        BY <1>2, <2>1, <3>1, <3>2 DEF RangeOf, SInts
    <2>4. CASE a >= 2 /\ v <= -Half
      <3> DEFINE w == -v
      <3>1. w >= Half /\ w \in Nat /\ a * v = -(a * w)
        BY <2>1, <2>4
      <3> HIDE DEF w
      <3>2. a * w >= 2 * w
        BY <2>1, <2>4, <3>1
      <3> QED
        BY <1>2, <2>1, <3>1, <3>2 DEF RangeOf, SInts
    <2>5. CASE a <= -2 /\ v >= Half
      <3> DEFINE b == -a
      <3>1. b >= 2 /\ b \in Nat /\ a * v = -(b * v)
        BY <2>1, <2>5
      <3> HIDE DEF b
      <3>2. b * v >= 2 * v
        BY <2>1, <2>5, <3>1
      <3> QED
        BY <1>2, <2>1, <2>5, <3>1, <3>2 DEF RangeOf, SInts
    <2> QED
      BY <1>2, <2>1, <2>2, <2>3, <2>4, <2>5
  <1> QED
    BY <1>1, <1>2

LEMMA SmallPowers ==
    ASSUME signed \in BOOLEAN, NEW a \in RangeOf(signed), a \in {-1, 0, 1}, NEW n \in Nat
    PROVE  Power(a, n) \in RangeOf(signed)
  <1> DEFINE S == {k \in Nat : Power(a, k) \in {-1, 0, 1} /\ (a # -1 => Power(a, k) # -1)}
  <1>1. 0 \in S
    BY PowerLaw
  <1>2. ASSUME NEW k \in Nat, k \in S
        PROVE  k + 1 \in S
    <2> DEFINE p == Power(a, k)
    <2>1. Power(a, k + 1) = a * p /\ p \in {-1, 0, 1} /\ (a # -1 => p # -1)
      BY <1>2, PowerLaw
    <2> HIDE DEF p
    <2> QED
      BY <2>1
  <1> HIDE DEF S
  <1>3. n \in S
    BY <1>1, <1>2, SetInduction
  <1>4. Power(a, n) \in {-1, 0, 1} /\ (a # -1 => Power(a, n) # -1)
    BY <1>3 DEF S
  <1>5. -1 \in SInts /\ 0 \in SInts /\ 1 \in SInts /\ 0 \in UInts /\ 1 \in UInts /\ -1 \notin UInts
    BY HalfAssumption DEF SInts, UInts, Modulus
  <1> QED
    BY <1>4, <1>5 DEF RangeOf

(* Once a power has left the range, every later one is outside.             *)
LEMMA PowersStayOut ==
    ASSUME signed \in BOOLEAN, NEW a \in RangeOf(signed), NEW m \in Nat,
           Power(a, m) \notin RangeOf(signed), NEW n \in Nat, m <= n
    PROVE  Power(a, n) \notin RangeOf(signed)
  <1>1. a \notin {-1, 0, 1}
    BY SmallPowers
  <1>2. a \in Int /\ (~signed => a \in Nat \ {0})
    BY <1>1, HalfAssumption DEF RangeOf, SInts, UInts, Modulus
  <1> DEFINE S == {k \in Nat : Power(a, m + k) \notin RangeOf(signed)}
  <1>3. 0 \in S
    OBVIOUS
  <1>4. ASSUME NEW k \in Nat, k \in S
        PROVE  k + 1 \in S
    <2> DEFINE p == Power(a, m + k)
    <2>1. m + k \in Nat /\ m + (k + 1) = (m + k) + 1
      OBVIOUS
    <2>2. Power(a, m + (k + 1)) = a * p
      BY <1>2, <2>1, PowerLaw
    <2>3. p \in Int /\ (~signed => p >= 0) /\ p \notin RangeOf(signed)
      <3>1. p \in Int
        BY <1>2, <2>1, PowerInt
      <3>2. ~signed => p \in Nat
        BY <1>2, <2>1, PowerPositive
      <3> QED
        BY <1>4, <3>1, <3>2
    <2> HIDE DEF p
    <2>4. a * p \notin RangeOf(signed)
      BY <1>1, <2>3, StaysOut
    <2> QED
      BY <2>2, <2>4
  <1> HIDE DEF S
  <1>5. n - m \in Nat /\ m + (n - m) = n
    OBVIOUS
  <1>6. n - m \in S
    BY <1>3, <1>4, <1>5, SetInduction
  <1> QED
    BY <1>5, <1>6 DEF S

(* What the loop of pow has when the width has it: the power of the         *)
(* multiplications done.  What it raises is caught, and the whole power is  *)
(* out of range.                                                            *)
PowInv ==
    y \in 0..MaxExponent =>
        /\ left \in 0..y
        /\ acc.exn = "none" => acc.value = Power(x, y - left)
        /\ acc.exn # "none" => acc.exn \in Caught("pow") /\ Power(x, y) \notin RangeOf(signed)

LEMMA MulExact ==
    ASSUME SafeTypeOK, NEW v \in RangeOf(signed)
    PROVE  Builtin("mul", SafeMul(x, v)) = Exact(x * v)
  BY IntMulExact, UintMulExact DEF SafeTypeOK, RangeOf

LEMMA PowInvInit == SafeInit => PowInv
  <1> SUFFICES ASSUME SafeInit, y \in 0..MaxExponent
               PROVE  /\ left \in 0..y
                      /\ acc.exn = "none" /\ acc.value = Power(x, y - left)
    BY DEF PowInv
  <1>1. x \in Int /\ left = y /\ y \in Int
    BY ExponentAssumption, HalfAssumption DEF SafeInit, RangeOf, SInts, UInts, Modulus
  <1>2. Wrap(signed, 1) = 1
    BY UWrapCases, SWrapCases, HalfAssumption DEF Wrap, SafeInit, Modulus
  <1>3. acc = Returns(1)
    BY <1>2 DEF SafeInit
  <1>4. Power(x, 0) = 1 /\ y - left = 0
    BY <1>1, PowerLaw
  <1> QED
    BY <1>1, <1>3, <1>4 DEF Returns

LEMMA PowInvStep ==
    ASSUME SafeTypeOK, SafeTypeOK', PowInv, [PowStep]_safeVars
    PROVE  PowInv'
  <1>1. CASE UNCHANGED safeVars
    BY <1>1 DEF safeVars, PowInv, Caught
  <1>2. CASE PowStep
    <2> SUFFICES ASSUME y \in 0..MaxExponent
                 PROVE  /\ left' \in 0..y
                        /\ acc'.exn = "none" => acc'.value = Power(x, y - left')
                        /\ acc'.exn # "none" => /\ acc'.exn \in Caught("pow")
                                                /\ Power(x, y) \notin RangeOf(signed)
      BY <1>2 DEF PowStep, PowInv, Caught
    <2> DEFINE m == y - left
               v == acc.value
               res == SafeMul(x, v)
    <2>1. /\ left \in 1..y /\ y \in Nat /\ left' = left - 1 /\ acc.exn = "none" /\ acc' = res
          /\ v = Power(x, m) /\ v \in RangeOf(signed)
      BY <1>2, ExponentAssumption DEF PowStep, PowInv, SafeTypeOK
    <2>2. m \in Nat /\ m + 1 <= y /\ y - left' = m + 1 /\ left' \in 0..y
      BY <2>1
    <2>3. x \in Int /\ x \in RangeOf(signed) /\ signed \in BOOLEAN
      BY HalfAssumption DEF SafeTypeOK, RangeOf, SInts, UInts, Modulus
    <2>4. Power(x, m + 1) = x * v
      BY <2>1, <2>2, <2>3, PowerLaw
    <2>5. Builtin("mul", res) = Exact(x * v)
      BY <2>1, MulExact
    <2>6. res.exn \in Exceptions /\ Caught("mul") = Caught("pow")
      BY <1>2, <2>1 DEF SafeTypeOK, Caught
    <2> HIDE DEF m, v, res
    <2>7. CASE x * v \in RangeOf(signed)
      <3>1. Builtin("mul", res) = Returns(x * v)
        BY <2>5, <2>7 DEF Exact
      <3>2. res = Returns(x * v)
        BY <3>1 DEF Builtin, Failed, Returns
      <3> QED
        BY <2>1, <2>2, <2>4, <3>2 DEF Returns
    <2>8. CASE x * v \notin RangeOf(signed)
      <3>1. Builtin("mul", res) = Failed
        BY <2>5, <2>8 DEF Exact
      <3>2. res.exn \in Caught("pow") /\ res.exn # "none"
        BY <2>6, <3>1 DEF Builtin, Failed, Exceptions, Caught
      <3>3. Power(x, y) \notin RangeOf(signed)
        BY <2>1, <2>2, <2>3, <2>4, <2>8, PowersStayOut
      <3> QED
        BY <2>1, <2>2, <3>2, <3>3
    <2> QED
      BY <2>7, <2>8
  <1> QED
    BY <1>1, <1>2

(* At every width and for every exponent: pow yields the exact power, or    *)
(* fails because the width does not have it, wherever in its loop that      *)
(* became apparent.                                                         *)
THEOREM PowIsExact == SafeSpec => []PowExact
<1>1. SafeTypeOK /\ PowInv => PowExact
  <2> SUFFICES ASSUME SafeTypeOK, PowInv, left = 0 \/ acc.exn # "none", y \in 0..MaxExponent
               PROVE  Builtin("pow", acc) = Exact(Power(x, y))
    BY DEF PowExact
  <2>1. CASE acc.exn # "none"
    BY <2>1 DEF PowInv, Builtin, Exact
  <2>2. CASE acc.exn = "none"
    <3>1. left = 0 /\ y - left = y /\ acc.value = Power(x, y) /\ acc.value \in RangeOf(signed)
      BY <2>2, ExponentAssumption DEF PowInv, SafeTypeOK
    <3>2. acc = Returns(acc.value)
      BY <2>2 DEF SafeTypeOK, Returns
    <3>3. Builtin("pow", acc) = acc
      BY <2>2 DEF Builtin, Caught
    <3> QED
      BY <3>1, <3>2, <3>3 DEF Exact
  <2> QED
    BY <2>1, <2>2
<1> QED
  BY <1>1, PowInvInit, PowInvStep, SafeTypeCorrect, PTL DEF SafeSpec

-----------------------------------------------------------------------------
(* The size of a half is even, and twice the half of its square the square. *)
LEMMA HalfSizeType == HalfSize \in Nat \ {0} /\ Rep!Modulus = HalfSize * HalfSize
  <1> DEFINE half == 2^(DigitBits - 1)
  <1>1. half \in Nat \ {0} /\ Base = 2 * half
    BY DigitBitsAssumption, PowerType, PowerDoubles DEF Base
  <1> HIDE DEF half
  <1>2. HalfSize = (2 * half) * (2 * half)
    BY <1>1 DEF HalfSize
  <1>3. HalfSize \in Nat \ {0}
    BY <1>1, <1>2
  <1>4. HalfSize * HalfSize = 2 * (2 * half * half * HalfSize)
    BY <1>1, <1>2, <1>3
  <1>5. 2 * half * half * HalfSize \in Nat
    BY <1>1, <1>3
  <1>6. ASSUME NEW m \in Nat
        PROVE  2 * ((2 * m) \div 2) = 2 * m
    OBVIOUS
  <1>7. 2 * ((HalfSize * HalfSize) \div 2) = HalfSize * HalfSize
    BY <1>4, <1>5, <1>6
  <1> QED
    BY <1>3, <1>7 DEF Rep!Modulus

-----------------------------------------------------------------------------

LEMMA HalfPlus ==
    ASSUME HalfSize \in Nat \ {0}, NEW m \in Halves, NEW n \in Halves
    PROVE  Plus(m, n) = IF m + n < HalfSize THEN m + n ELSE m + n - HalfSize
  BY DEF Plus, Halves

LEMMA HalfMinus ==
    ASSUME HalfSize \in Nat \ {0}, NEW m \in Halves, NEW n \in Halves
    PROVE  Minus(m, n) = IF m < n THEN m - n + HalfSize ELSE m - n
  BY DEF Minus, Halves

LEMMA WordRange ==
    ASSUME HalfSize \in Nat \ {0}, NEW w \in Words
    PROVE  Val(w) \in 0..(HalfSize * HalfSize - 1)
  <1> DEFINE size == HalfSize
             h == w.high
             l == w.low
  <1>1. size \in Nat \ {0} /\ h \in 0..(size - 1) /\ l \in 0..(size - 1)
    BY DEF Words, Halves
  <1> SUFFICES h * size + l \in 0..(size * size - 1)
    BY DEF Val
  <1> HIDE DEF size, h, l
  <1>2. h * size <= (size - 1) * size
    BY <1>1
  <1>3. h * size \in Nat /\ size * size \in Nat
    BY <1>1
  <1>4. (size - 1) * size = size * size - size
    BY <1>1
  <1> QED
    BY <1>1, <1>2, <1>3, <1>4

(* A carry is missed by neither half, and lost from the high half only.     *)
LEMMA AddValue ==
    ASSUME HalfSize \in Nat \ {0}, NEW a \in Words, NEW b \in Words
    PROVE  /\ Add(a, b) \in Words
           /\ \E k \in {0, 1} :
                Val(a) + Val(b) = k * (HalfSize * HalfSize) + Val(Add(a, b))
  <1> DEFINE low == Plus(a.low, b.low)
             carry == IF low < a.low \/ low < b.low THEN 1 ELSE 0
             high == Plus(Plus(a.high, b.high), carry)
             size == HalfSize
  <1>1. /\ size \in Nat \ {0}
        /\ a.low \in 0..(size - 1) /\ a.high \in 0..(size - 1)
        /\ b.low \in 0..(size - 1) /\ b.high \in 0..(size - 1)
    BY DEF Words, Halves
  <1>2. low \in 0..(size - 1) /\ a.low + b.low = carry * size + low
    <2>1. low = IF a.low + b.low < size THEN a.low + b.low ELSE a.low + b.low - size
      BY <1>1, HalfPlus DEF Halves
    <2> HIDE DEF low, size
    <2>2. CASE a.low + b.low < size
      <3>1. low \in 0..(size - 1) /\ carry = 0
        BY <1>1, <2>1, <2>2
      <3> QED
        BY <1>1, <2>1, <2>2, <3>1
    <2>3. CASE ~(a.low + b.low < size)
      <3>1. low \in 0..(size - 1) /\ carry = 1
        BY <1>1, <2>1, <2>3
      <3> QED
        BY <1>1, <2>1, <2>3, <3>1
    <2> QED
      BY <2>2, <2>3
  <1>3. carry \in {0, 1}
    OBVIOUS
  <1>4. high \in 0..(size - 1)
        /\ \E k \in {0, 1} : a.high + b.high + carry = k * size + high
    <2> DEFINE both == Plus(a.high, b.high)
    <2>1. both \in 0..(size - 1)
          /\ both = IF a.high + b.high < size THEN a.high + b.high ELSE a.high + b.high - size
      BY <1>1, HalfPlus DEF Halves
    <2> HIDE DEF carry, both
    <2>2. CASE size = 1
      <3>1. both = 0 /\ a.high = 0 /\ b.high = 0
        BY <1>1, <2>1, <2>2
      <3>2. Plus(both, carry) = 0
        BY <1>3, <2>2, <3>1 DEF Plus
      <3> QED
        BY <1>3, <2>2, <3>1, <3>2 DEF both
    <2>3. CASE size > 1
      <3>1. Plus(both, carry) = IF both + carry < size THEN both + carry ELSE both + carry - size
        BY <1>1, <1>3, <2>1, <2>3, HalfPlus DEF Halves
      <3>2. Plus(both, carry) \in 0..(size - 1)
        BY <1>1, <1>3, <2>1, <2>3, <3>1
      <3>3. a.high + b.high + carry \in {Plus(both, carry), size + Plus(both, carry)}
        BY <1>1, <1>3, <2>1, <2>3, <3>1
      <3>4. CASE a.high + b.high + carry = Plus(both, carry)
        BY <1>1, <3>2, <3>4 DEF both
      <3>5. CASE a.high + b.high + carry = size + Plus(both, carry)
        BY <1>1, <3>2, <3>5 DEF both
      <3> QED
        BY <3>3, <3>4, <3>5
    <2> QED
      BY <1>1, <2>2, <2>3
  <1>5. Add(a, b) = [high |-> high, low |-> low]
    BY DEF Add, Word
  <1> HIDE DEF low, carry, high
  <1>6. Add(a, b) \in Words
    BY <1>2, <1>4, <1>5 DEF Words, Halves
  <1>7. PICK k \in {0, 1} : a.high + b.high + carry = k * size + high
    BY <1>4
  <1>8. (a.high + b.high + carry) * size = k * (size * size) + high * size
    BY <1>1, <1>3, <1>4, <1>7
  <1>9. (a.high + b.high + carry) * size = a.high * size + b.high * size + carry * size
    <2>1. /\ a.high \in Int /\ b.high \in Int /\ carry \in Int /\ size \in Int
      BY <1>1, <1>3
    <2> HIDE DEF size
    <2> QED
      BY <2>1, Distributes
  <1>10. (a.high * size + a.low) + (b.high * size + b.low) = k * (size * size) + (high * size + low)
    <2>1. /\ a.high * size \in Nat /\ b.high * size \in Nat /\ carry * size \in Nat
          /\ high * size \in Nat /\ k * (size * size) \in Nat
      BY <1>1, <1>3, <1>4
    <2> DEFINE p == a.high * size
               q == b.high * size
               s == carry * size
               t == high * size
               n == k * (size * size)
    <2>2. /\ p \in Int /\ q \in Int /\ s \in Int /\ t \in Int /\ n \in Int
          /\ p + q + s = n + t /\ a.low + b.low = s + low
      BY <1>2, <1>8, <1>9, <2>1
    <2>3. a.low \in Int /\ b.low \in Int /\ low \in Int
      BY <1>1, <1>2
    <2> HIDE DEF p, q, s, t, n, size
    <2>4. (p + a.low) + (q + b.low) = n + (t + low)
      BY <2>2, <2>3
    <2> QED
      BY <2>4 DEF p, q, t, n
  <1> QED
    BY <1>5, <1>6, <1>10 DEF Val

(* What is borrowed from the high half is what the low half lacks. *)
LEMMA SubValue ==
    ASSUME HalfSize \in Nat \ {0}, NEW a \in Words, NEW b \in Words
    PROVE  /\ Sub(a, b) \in Words
           /\ \E k \in {-1, 0} :
                Val(a) - Val(b) = k * (HalfSize * HalfSize) + Val(Sub(a, b))
  <1> DEFINE low == Minus(a.low, b.low)
             borrow == IF a.low < b.low THEN 1 ELSE 0
             high == Minus(Minus(a.high, b.high), borrow)
             size == HalfSize
  <1>1. /\ size \in Nat \ {0}
        /\ a.low \in 0..(size - 1) /\ a.high \in 0..(size - 1)
        /\ b.low \in 0..(size - 1) /\ b.high \in 0..(size - 1)
    BY DEF Words, Halves
  <1>2. low \in 0..(size - 1) /\ a.low - b.low = low - borrow * size
    BY <1>1, HalfMinus DEF Halves
  <1>3. borrow \in {0, 1} /\ (size = 1 => borrow = 0)
    BY <1>1
  <1>4. high \in 0..(size - 1)
        /\ \E k \in {-1, 0} : a.high - b.high - borrow = k * size + high
    <2> DEFINE both == Minus(a.high, b.high)
    <2>1. both \in 0..(size - 1)
          /\ both = IF a.high < b.high THEN a.high - b.high + size ELSE a.high - b.high
      BY <1>1, HalfMinus DEF Halves
    <2> HIDE DEF borrow, both
    <2>2. borrow \in Halves /\ both \in Halves
      BY <1>1, <1>3, <2>1 DEF Halves
    <2>3. Minus(both, borrow) = IF both < borrow THEN both - borrow + size ELSE both - borrow
      BY <2>2, HalfMinus
    <2>4. Minus(both, borrow) \in 0..(size - 1)
      BY <1>1, <1>3, <2>1, <2>3
    <2>5. a.high - b.high - borrow \in {Minus(both, borrow), Minus(both, borrow) - size}
      BY <1>1, <1>3, <2>1, <2>3
    <2>6. CASE a.high - b.high - borrow = Minus(both, borrow)
      BY <1>1, <2>4, <2>6 DEF both
    <2>7. CASE a.high - b.high - borrow = Minus(both, borrow) - size
      BY <1>1, <2>4, <2>7 DEF both
    <2> QED
      BY <2>5, <2>6, <2>7
  <1>5. Sub(a, b) = [high |-> high, low |-> low]
    BY DEF Sub, Word
  <1> HIDE DEF low, borrow, high
  <1>6. Sub(a, b) \in Words
    BY <1>2, <1>4, <1>5 DEF Words, Halves
  <1>7. PICK k \in {-1, 0} : a.high - b.high - borrow = k * size + high
    BY <1>4
  <1>8. (a.high - b.high - borrow) * size = k * (size * size) + high * size
    BY <1>1, <1>3, <1>4, <1>7
  <1>9. (a.high - b.high - borrow) * size = a.high * size - b.high * size - borrow * size
    <2>1. /\ a.high \in Int /\ b.high \in Int /\ borrow \in Int /\ size \in Int
      BY <1>1, <1>3
    <2> HIDE DEF size
    <2> QED
      BY <2>1, Distributes
  <1>10. (a.high * size + a.low) - (b.high * size + b.low) = k * (size * size) + (high * size + low)
    <2>1. /\ a.high * size \in Nat /\ b.high * size \in Nat /\ borrow * size \in Nat
          /\ high * size \in Nat /\ k * (size * size) \in Int
      BY <1>1, <1>3, <1>4
    <2> DEFINE p == a.high * size
               q == b.high * size
               s == borrow * size
               t == high * size
               n == k * (size * size)
    <2>2. /\ p \in Int /\ q \in Int /\ s \in Int /\ t \in Int /\ n \in Int
          /\ p - q - s = n + t /\ a.low - b.low = low - s
      BY <1>2, <1>8, <1>9, <2>1
    <2>3. a.low \in Int /\ b.low \in Int /\ low \in Int
      BY <1>1, <1>2
    <2> HIDE DEF p, q, s, t, n, size
    <2>4. (p + a.low) - (q + b.low) = n + (t + low)
      <3>1. p = q + s + n + t /\ a.low = b.low + low - s
        BY <2>2, <2>3
      <3> QED
        BY <2>2, <2>3, <3>1, SMTT(30)
    <2> QED
      BY <2>4 DEF p, q, t, n
  <1> QED
    BY <1>5, <1>6, <1>10 DEF Val

(* At every width Uint256.add and sub are addition and subtraction modulo   *)
(* the number of words, and compare is the order of the numbers: the parts  *)
(* of ImplementsIntRep that need no digits.                                 *)
THEOREM HalvesAreExact ==
    ASSUME NEW a \in Words, NEW b \in Words
    PROVE  /\ Val(Add(a, b)) = Rep!UWrap(Val(a) + Val(b))
           /\ Val(Sub(a, b)) = Rep!UWrap(Val(a) - Val(b))
           /\ Compare(a, b) < 0 <=> Val(a) < Val(b)
  <1> DEFINE modulus == HalfSize * HalfSize
  <1>1. modulus \in Nat \ {0} /\ Rep!Modulus = modulus /\ HalfSize \in Nat \ {0}
    BY HalfSizeType
  <1>2. Val(a) \in Int /\ Val(b) \in Int
    BY <1>1, WordRange
  <1>3. Val(Add(a, b)) = Rep!UWrap(Val(a) + Val(b))
    <2>1. Val(Add(a, b)) \in 0..(modulus - 1)
      BY <1>1, AddValue, WordRange
    <2>2. PICK k \in {0, 1} : Val(a) + Val(b) = k * modulus + Val(Add(a, b))
      BY <1>1, AddValue
    <2> HIDE DEF modulus
    <2>3. (Val(a) + Val(b)) % modulus = Val(Add(a, b))
      <3>1. Val(a) + Val(b) \in Int /\ k \in Int
        BY <1>2
      <3> QED
        BY <1>1, <2>1, <2>2, <3>1, RemainderIs
    <2> QED
      BY <1>1, <2>3 DEF Rep!UWrap, modulus
  <1>4. Val(Sub(a, b)) = Rep!UWrap(Val(a) - Val(b))
    <2>1. Val(Sub(a, b)) \in 0..(modulus - 1)
      BY <1>1, SubValue, WordRange
    <2>2. PICK k \in {-1, 0} : Val(a) - Val(b) = k * modulus + Val(Sub(a, b))
      BY <1>1, SubValue
    <2> HIDE DEF modulus
    <2>3. (Val(a) - Val(b)) % modulus = Val(Sub(a, b))
      <3>1. Val(a) - Val(b) \in Int /\ k \in Int
        BY <1>2
      <3> QED
        BY <1>1, <2>1, <2>2, <3>1, RemainderIs
    <2> QED
      BY <1>1, <2>3 DEF Rep!UWrap, modulus
  <1>5. Compare(a, b) < 0 <=> Val(a) < Val(b)
    <2> DEFINE size == HalfSize
    <2>1. /\ size \in Nat \ {0}
          /\ a.low \in 0..(size - 1) /\ a.high \in 0..(size - 1)
          /\ b.low \in 0..(size - 1) /\ b.high \in 0..(size - 1)
      BY <1>1 DEF Words, Halves
    <2>2. a.high * size \in Nat /\ b.high * size \in Nat
      BY <2>1
    <2>3. CASE a.high < b.high
      <3>1. (a.high + 1) * size <= b.high * size /\ (a.high + 1) * size = a.high * size + size
        BY <2>1, <2>3
      <3> QED
        BY <2>1, <2>2, <2>3, <3>1 DEF Compare, Val
    <2>4. CASE b.high < a.high
      <3>1. (b.high + 1) * size <= a.high * size /\ (b.high + 1) * size = b.high * size + size
        BY <2>1, <2>4
      <3> QED
        BY <2>1, <2>2, <2>4, <3>1 DEF Compare, Val
    <2>5. CASE a.high = b.high
      BY <2>1, <2>2, <2>5 DEF Compare, Val
    <2> QED
      BY <2>1, <2>3, <2>4, <2>5
  <1> QED
    BY <1>3, <1>4, <1>5

-----------------------------------------------------------------------------
(* Division, bit by bit. *)

(* A half, and a word, as powers of two. *)
LEMMA Widths ==
    /\ HalfBits \in Nat /\ HalfBits >= 4 /\ Bits = HalfBits + HalfBits
    /\ HalfSize = 2^HalfBits /\ HalfSize * HalfSize = 2^Bits
  <1>1. DigitBits \in Nat /\ DigitBits >= 2
    BY DigitBitsAssumption
  <1>2. HalfBits \in Nat /\ HalfBits >= 4 /\ Bits = HalfBits + HalfBits /\ HalfBits = DigitBits + DigitBits
    BY <1>1 DEF HalfBits, Bits
  <1>3. HalfSize = 2^HalfBits
    BY <1>1, <1>2, PowerOfSum DEF HalfSize, Base
  <1> QED
    BY <1>2, <1>3, PowerOfSum

(* Bits of a number: n is the number, p the weight of the bit, 2 * e * p    *)
(* the range.                                                               *)
LEMMA NextBit ==
    ASSUME NEW n \in Nat, NEW p \in Nat \ {0}
    PROVE  /\ n \div p = 2 * (n \div (2 * p)) + ((n \div p) % 2)
           /\ (n \div p) % 2 \in {0, 1}
  <1> DEFINE q == n \div p
             r == n % p
  <1>1. q \in Nat /\ r \in 0..(p - 1) /\ n = q * p + r
    BY Euclid
  <1> DEFINE h == q \div 2
             b == q % 2
  <1> HIDE DEF q, r
  <1>2. h \in Nat /\ b \in 0..1 /\ q = h * 2 + b
    BY <1>1, Euclid
  <1> HIDE DEF h, b
  <1>3. n = h * (2 * p) + (b * p + r)
    BY <1>1, <1>2
  <1>4. b * p + r \in 0..(2 * p - 1)
    BY <1>1, <1>2
  <1>5. n \div (2 * p) = h
    BY <1>1, <1>2, <1>3, <1>4, RemainderIs
  <1> QED
    <2>1. n \div p = 2 * h + b
      BY <1>2 DEF q
    <2>2. b = (n \div p) % 2
      BY DEF q, b
    <2>3. n \div p = 2 * (n \div (2 * p)) + b
      BY <1>5, <2>1, Zenon
    <2>4. b \in {0, 1}
      BY <1>2
    <2> QED
      BY <2>2, <2>3, <2>4, Zenon

(* A bit that is not set can be set within the range. *)
LEMMA RoomForBit ==
    ASSUME NEW p \in Nat \ {0}, NEW e \in Nat \ {0}, NEW n \in 0..(2 * e * p - 1),
           (n \div p) % 2 = 0
    PROVE  n + p \in 0..(2 * e * p - 1)
  <1> DEFINE h == n \div (2 * p)
             r == n % p
  <1>1. n \in Nat /\ n = (n \div p) * p + r /\ r \in 0..(p - 1)
    BY Euclid
  <1>2. n \div p = 2 * h /\ h \in Nat
    <2>1. 2 * p \in Nat \ {0}
      OBVIOUS
    <2>2. h \in Nat
      BY <1>1, <2>1, Euclid
    <2>3. n \div p = 2 * h + ((n \div p) % 2)
      BY <1>1, NextBit
    <2> HIDE DEF h
    <2> QED
      BY <2>2, <2>3
  <1> HIDE DEF h, r
  <1>3. n = 2 * h * p + r
    BY <1>1, <1>2
  <1>4. h < e
    <2>1. 2 * h * p < 2 * e * p
      BY <1>1, <1>2, <1>3
    <2> QED
      BY <1>2, <2>1
  <1>5. (h + 1) * p <= e * p
    BY <1>2, <1>4
  <1> QED
    BY <1>1, <1>2, <1>3, <1>5

LEMMA PowerOfBit ==
    ASSUME NEW j \in 0..(HalfBits - 1)
    PROVE  /\ 2^j \in Nat \ {0} /\ 2^j < HalfSize
           /\ \E e \in Nat \ {0} : HalfSize = 2 * e * 2^j
  <1> DEFINE k == HalfBits - 1 - j
             p == 2^j
             e == 2^k
  <1>1. j \in Nat /\ k \in Nat /\ k + 1 \in Nat /\ HalfBits = (k + 1) + j
    BY Widths
  <1>2. p \in Nat \ {0} /\ e \in Nat \ {0}
    BY <1>1, PowerType
  <1>3. 2^(k + 1) = 2 * e
    BY <1>1, PowerDoubles
  <1> DEFINE l == k + 1
  <1>4. HalfSize = 2^l * p
    <2> HIDE DEF k
    <2>1. HalfBits = l + j /\ l \in Nat /\ j \in Nat
      BY <1>1
    <2> HIDE DEF l
    <2> QED
      BY <2>1, PowerOfSum, Widths
  <1> HIDE DEF k, p, e
  <1>5. HalfSize = 2 * e * p
    BY <1>3, <1>4
  <1>6. e * p >= p
    BY <1>2
  <1>7. p < 2 * (e * p)
    BY <1>2, <1>6
  <1>8. 2 * (e * p) = 2 * e * p
    BY <1>2
  <1>9. p < HalfSize
    BY <1>5, <1>7, <1>8
  <1> QED
    BY <1>2, <1>5, <1>9 DEF p

(* The mask with one bit. *)
LEMMA MaskOfBit ==
    ASSUME NEW i \in 0..(Bits - 1)
    PROVE  /\ i >= HalfBits => /\ i - HalfBits \in 0..(HalfBits - 1)
                               /\ ShiftLeft(One, i) = Word(2^(i - HalfBits), 0)
           /\ i < HalfBits => /\ i \in 0..(HalfBits - 1)
                              /\ ShiftLeft(One, i) = Word(0, 2^i)
  <1>1. /\ HalfBits \in Nat /\ HalfBits >= 4 /\ Bits = HalfBits + HalfBits /\ i \in Nat /\ i < Bits
        /\ HalfSize \in Nat \ {0}
    BY Widths, HalfSizeType
  <1>2. One.high = 0 /\ One.low = 1
    BY DEF One, Word
  <1>3. ASSUME i >= HalfBits
        PROVE  /\ i - HalfBits \in 0..(HalfBits - 1)
               /\ ShiftLeft(One, i) = Word(2^(i - HalfBits), 0)
    <2> DEFINE j == i - HalfBits
    <2>1. j \in 0..(HalfBits - 1)
      BY <1>1, <1>3
    <2>2. ShiftLeft(One, i) = Word(ShiftHalfLeft(1, j), 0)
      BY <1>1, <1>2, <1>3 DEF ShiftLeft
    <2> HIDE DEF j
    <2>3. ShiftHalfLeft(1, j) = 2^j
      <3> DEFINE p == 2^j
      <3>1. p \in Nat /\ p < HalfSize
        BY <2>1, PowerOfBit
      <3> HIDE DEF p
      <3>2. (1 * p) % HalfSize = p
        BY <1>1, <3>1
      <3> QED
        BY <3>2 DEF ShiftHalfLeft, p
    <2> QED
      BY <2>1, <2>2, <2>3 DEF j
  <1>4. ASSUME i < HalfBits
        PROVE  /\ i \in 0..(HalfBits - 1)
               /\ ShiftLeft(One, i) = Word(0, 2^i)
    <2> DEFINE p == 2^i
               k == HalfBits - i
    <2>1. i \in 0..(HalfBits - 1)
      BY <1>1, <1>4
    <2>2. p \in Nat \ {0} /\ p < HalfSize
      BY <2>1, PowerOfBit
    <2>3. CASE i = 0
      <3>1. ShiftLeft(One, i) = One
        BY <1>1, <2>3 DEF ShiftLeft
      <3> QED
        BY <2>1, <2>3, <3>1, PowerZero DEF One
    <2>4. CASE i # 0
      <3>1. ShiftLeft(One, i) = Word(Plus(ShiftHalfLeft(0, i), ShiftHalfRight(1, k)), ShiftHalfLeft(1, i))
        BY <1>1, <1>2, <1>4, <2>4 DEF ShiftLeft
      <3>2. ShiftHalfLeft(1, i) = p
        <4> HIDE DEF p
        <4>1. (1 * p) % HalfSize = p
          BY <1>1, <2>2
        <4> QED
          BY <4>1 DEF ShiftHalfLeft, p
      <3>3. ShiftHalfLeft(0, i) = 0
        <4> HIDE DEF p
        <4>1. (0 * p) % HalfSize = 0
          BY <1>1, <2>2
        <4> QED
          BY <4>1 DEF ShiftHalfLeft, p
      <3>4. ShiftHalfRight(1, k) = 0
        <4> DEFINE l == k - 1
                   e == 2^l
        <4>1. l \in Nat /\ k = l + 1
          BY <1>1, <1>4
        <4> HIDE DEF k, l
        <4>2. 2^k = 2 * e /\ e \in Nat \ {0}
          BY <4>1, PowerDoubles, PowerType
        <4> HIDE DEF e
        <4>3. 1 \div (2 * e) = 0
          <5>1. 2 * e \in Nat \ {0} /\ 1 \in 0..(2 * e - 1)
            BY <4>2
          <5>2. 1 = 0 * (2 * e) + 1
            BY <4>2
          <5> QED
            BY <5>1, <5>2, RemainderIs
        <4> QED
          BY <4>2, <4>3 DEF ShiftHalfRight
      <3>5. Plus(0, 0) = 0
        BY <1>1 DEF Plus
      <3> QED
        BY <2>1, <3>1, <3>2, <3>3, <3>4, <3>5
    <2> QED
      BY <2>3, <2>4
  <1> QED
    BY <1>3, <1>4

(* Setting a bit of a half. *)
LEMMA SetInHalf ==
    ASSUME NEW p \in Nat \ {0}, NEW e \in Nat \ {0}, NEW m \in 0..(2 * e * p - 1)
    PROVE  /\ OrBit(p, m) = m <=> (m \div p) % 2 = 1
           /\ (m \div p) % 2 # 1 => OrBit(p, m) = m + p /\ m + p \in 0..(2 * e * p - 1)
  <1> DEFINE b == (m \div p) % 2
  <1>1. b \in {0, 1}
    BY NextBit
  <1>2. b = 0 => m + p \in 0..(2 * e * p - 1)
    BY RoomForBit
  <1>3. OrBit(p, m) = IF b = 1 THEN m ELSE m + p
    BY DEF OrBit
  <1> HIDE DEF b
  <1>4. /\ OrBit(p, m) = m <=> b = 1
        /\ b # 1 => OrBit(p, m) = m + p /\ m + p \in 0..(2 * e * p - 1)
    BY <1>1, <1>2, <1>3
  <1> QED
    BY <1>4 DEF b

(* A bit of the high half. *)
LEMMA HighBit ==
    ASSUME NEW size \in Nat \ {0}, NEW p \in Nat \ {0},
           NEW h \in Nat, NEW l \in 0..(size - 1)
    PROVE  (h * size + l) \div (p * size) = h \div p
  <1> DEFINE q == h \div p
             r == h % p
  <1>1. q \in Nat /\ r \in 0..(p - 1) /\ h = q * p + r
    BY Euclid
  <1> HIDE DEF q, r
  <1>2. h * size + l = q * (p * size) + (r * size + l)
    BY <1>1
  <1>3. r * size + l \in 0..(p * size - 1)
    <2>1. (r + 1) * size <= p * size
      BY <1>1
    <2>2. (r + 1) * size = r * size + size /\ r * size \in Nat
      BY <1>1
    <2> QED
      BY <2>1, <2>2
  <1>4. p * size \in Nat \ {0} /\ h * size + l \in Int /\ q \in Int
    BY <1>1
  <1>5. (h * size + l) \div (p * size) = q
    <2> DEFINE n == h * size + l
               m == p * size
               s == r * size + l
    <2>1. n = q * m + s /\ s \in 0..(m - 1) /\ m \in Nat \ {0} /\ n \in Int /\ q \in Int
      BY <1>2, <1>3, <1>4, Zenon
    <2> HIDE DEF n, m, s
    <2>2. n \div m = q
      BY <2>1, RemainderIs
    <2> QED
      BY <2>2 DEF n, m
  <1> QED
    BY <1>5 DEF q

(* A bit of the low half. *)
LEMMA LowBit ==
    ASSUME NEW p \in Nat \ {0}, NEW e \in Nat \ {0},
           NEW h \in Nat, NEW l \in 0..(2 * e * p - 1)
    PROVE  ((h * (2 * e * p) + l) \div p) % 2 = (l \div p) % 2
  <1> DEFINE q == l \div p
             r == l % p
             a == q \div 2
             b == q % 2
  <1>1. q \in Nat /\ r \in 0..(p - 1) /\ l = q * p + r
    <2>1. l \in Nat
      OBVIOUS
    <2> QED
      BY <2>1, Euclid
  <1>2. a \in Nat /\ b \in 0..1 /\ q = a * 2 + b
    <2> HIDE DEF q
    <2> QED
      BY <1>1, Euclid
  <1> HIDE DEF q, r, a, b
  <1>3. h * (2 * e * p) + l = (h * 2 * e + q) * p + r
    BY <1>1
  <1>4. (h * (2 * e * p) + l) \div p = h * 2 * e + q
    <2>1. h * (2 * e * p) + l \in Int /\ h * 2 * e + q \in Int
      BY <1>1
    <2> QED
      BY <1>1, <1>3, <2>1, RemainderIs
  <1>5. h * 2 * e + q = (h * e + a) * 2 + b
    BY <1>2
  <1>6. (h * 2 * e + q) % 2 = b
    <2>1. h * 2 * e + q \in Int /\ h * e + a \in Int
      BY <1>1, <1>2
    <2>2. 2 \in Nat \ {0} /\ b \in 0..(2 - 1)
      BY <1>2
    <2> QED
      BY <1>5, <2>1, <2>2, RemainderIs
  <1>7. b = (l \div p) % 2
    BY DEF q, b
  <1> QED
    BY <1>4, <1>6, <1>7

(* Every bit of a word: is_set reads it, set_bit sets it. *)
LEMMA BitOfWord ==
    ASSUME NEW w \in Words, NEW i \in 0..(Bits - 1)
    PROVE  /\ IsSet(w, i) <=> (Val(w) \div 2^i) % 2 = 1
           /\ ~IsSet(w, i) => /\ SetBit(w, i) \in Words
                              /\ Val(SetBit(w, i)) = Val(w) + 2^i
  <1> DEFINE size == HalfSize
             h == w.high
             l == w.low
  <1>1. size \in Nat \ {0} /\ h \in 0..(size - 1) /\ l \in 0..(size - 1) /\ i \in Nat
        /\ w = [high |-> h, low |-> l] /\ HalfBits \in Nat
    BY HalfSizeType, Widths DEF Words, Halves
  <1>2. OrBit(0, h) = h /\ OrBit(0, l) = l
    BY DEF OrBit
  <1>3. CASE i >= HalfBits
    <2> DEFINE j == i - HalfBits
               p == 2^j
    <2>1. j \in 0..(HalfBits - 1) /\ ShiftLeft(One, i) = Word(p, 0)
      BY <1>3, MaskOfBit
    <2>2. 2^i = p * size
      <3>1. j \in Nat /\ i = j + HalfBits
        BY <1>1, <2>1
      <3> HIDE DEF j
      <3> QED
        BY <1>1, <3>1, PowerOfSum, Widths
    <2>3. p \in Nat \ {0}
      BY <2>1, PowerOfBit
    <2>4. PICK e \in Nat \ {0} : size = 2 * e * p
      BY <2>1, PowerOfBit
    <2>5. SetBit(w, i) = [high |-> OrBit(p, h), low |-> l]
      <3> HIDE DEF p
      <3> QED
        BY <1>2, <2>1 DEF SetBit, Word
    <2> HIDE DEF p, j, h, l, size
    <2>6. (Val(w) \div 2^i) % 2 = (h \div p) % 2
      <3>1. (h * size + l) \div (p * size) = h \div p
        <4>1. size \in Nat \ {0} /\ h \in Nat /\ l \in 0..(size - 1)
          BY <1>1
        <4> QED
          BY <2>3, <4>1, HighBit
      <3>2. Val(w) = h * size + l
        BY DEF Val, h, l, size
      <3> QED
        BY <2>2, <3>1, <3>2
    <2>7. /\ OrBit(p, h) = h <=> (h \div p) % 2 = 1
          /\ (h \div p) % 2 # 1 => OrBit(p, h) = h + p /\ h + p \in 0..(size - 1)
      BY <1>1, <2>3, <2>4, SetInHalf
    <2>8. IsSet(w, i) <=> OrBit(p, h) = h
      BY <1>1, <2>5 DEF IsSet
    <2>9. ASSUME ~IsSet(w, i)
          PROVE  SetBit(w, i) \in Words /\ Val(SetBit(w, i)) = Val(w) + 2^i
      <3>1. SetBit(w, i) = [high |-> h + p, low |-> l] /\ h + p \in 0..(size - 1)
        BY <2>5, <2>7, <2>8, <2>9
      <3>2. SetBit(w, i) \in Words
        BY <1>1, <3>1 DEF Words, Halves, size
      <3>3. (h + p) * size + l = (h * size + l) + p * size
        BY <1>1, <2>3
      <3>4. Val(SetBit(w, i)) = (h + p) * size + l
        BY <3>1 DEF Val, size
      <3>5. Val(w) = h * size + l
        BY DEF Val, h, l, size
      <3> QED
        BY <2>2, <3>2, <3>3, <3>4, <3>5
    <2> QED
      BY <2>6, <2>7, <2>8, <2>9
  <1>4. CASE i < HalfBits
    <2> DEFINE p == 2^i
    <2>1. i \in 0..(HalfBits - 1) /\ ShiftLeft(One, i) = Word(0, p)
      BY <1>4, MaskOfBit
    <2>2. p \in Nat \ {0}
      BY <2>1, PowerOfBit
    <2>3. PICK e \in Nat \ {0} : size = 2 * e * p
      BY <2>1, PowerOfBit
    <2>4. SetBit(w, i) = [high |-> h, low |-> OrBit(p, l)]
      <3> HIDE DEF p
      <3> QED
        BY <1>2, <2>1 DEF SetBit, Word
    <2>5. Val(w) = h * size + l
      BY DEF Val
    <2> HIDE DEF p, h, l, size
    <2>6. (Val(w) \div p) % 2 = (l \div p) % 2
      <3>1. ((h * (2 * e * p) + l) \div p) % 2 = (l \div p) % 2
        <4>1. h \in Nat /\ l \in 0..(2 * e * p - 1)
          BY <1>1, <2>3
        <4> QED
          BY <2>2, <4>1, LowBit
      <3> QED
        BY <2>3, <2>5, <3>1
    <2>7. /\ OrBit(p, l) = l <=> (l \div p) % 2 = 1
          /\ (l \div p) % 2 # 1 => OrBit(p, l) = l + p /\ l + p \in 0..(size - 1)
      BY <1>1, <2>2, <2>3, SetInHalf
    <2>8. IsSet(w, i) <=> OrBit(p, l) = l
      BY <1>1, <2>4 DEF IsSet
    <2>9. ASSUME ~IsSet(w, i)
          PROVE  SetBit(w, i) \in Words /\ Val(SetBit(w, i)) = Val(w) + p
      <3>1. SetBit(w, i) = [high |-> h, low |-> l + p] /\ l + p \in 0..(size - 1)
        BY <2>4, <2>7, <2>8, <2>9
      <3>2. SetBit(w, i) \in Words
        BY <1>1, <3>1 DEF Words, Halves, size
      <3>3. h * size \in Nat
        BY <1>1
      <3>4. Val(SetBit(w, i)) = h * size + (l + p)
        BY <3>1 DEF Val, size
      <3> QED
        BY <1>1, <2>2, <2>5, <3>2, <3>3, <3>4
    <2>10. /\ IsSet(w, i) <=> (Val(w) \div p) % 2 = 1
           /\ ~IsSet(w, i) => SetBit(w, i) \in Words /\ Val(SetBit(w, i)) = Val(w) + p
      BY <2>6, <2>7, <2>8, <2>9
    <2> QED
      BY <2>10 DEF p
  <1> QED
    BY <1>1, <1>3, <1>4

(* R := R << 1, when no bit is lost. *)
LEMMA Doubled ==
    ASSUME NEW w \in Words, 2 * Val(w) < HalfSize * HalfSize
    PROVE  /\ ShiftLeft(w, 1) \in Words
           /\ Val(ShiftLeft(w, 1)) = 2 * Val(w)
           /\ ShiftLeft(w, 1).low % 2 = 0
  <1> DEFINE size == HalfSize
             h == w.high
             l == w.low
             k == HalfBits - 1
             half == 2^k
             c == l \div half
             d == (l * 2) % size
  <1>1. size \in Nat \ {0} /\ h \in 0..(size - 1) /\ l \in 0..(size - 1)
        /\ HalfBits \in Nat /\ HalfBits >= 4 /\ Bits = HalfBits + HalfBits
    BY HalfSizeType, Widths DEF Words, Halves
  <1>2. half \in Nat \ {0} /\ size = 2 * half
    <2>1. k \in Nat /\ HalfBits = k + 1
      BY <1>1
    <2> HIDE DEF k
    <2> QED
      BY <2>1, PowerType, PowerDoubles, Widths
  <1>3. 2^1 = 2
    BY PowerZero, PowerDoubles, 0 + 1 = 1
  <1>4. ShiftLeft(w, 1) = Word(Plus((h * 2) % size, c), d)
    <2> HIDE DEF k
    <2>1. ShiftLeft(w, 1) = Word(Plus(ShiftHalfLeft(h, 1), ShiftHalfRight(l, HalfBits - 1)), ShiftHalfLeft(l, 1))
      BY <1>1 DEF ShiftLeft
    <2> QED
      BY <1>3, <2>1 DEF ShiftHalfLeft, ShiftHalfRight, k
  <1>5. Val(w) = h * size + l
    BY DEF Val
  <1> HIDE DEF half
  <1>6. c \in {0, 1} /\ d \in 0..(size - 1) /\ 2 * l = c * size + d /\ d % 2 = 0
    <2>1. CASE l < half
      <3>1. c = 0
        BY <1>1, <1>2, <2>1
      <3>2. d = l * 2
        BY <1>1, <1>2, <2>1
      <3>3. d % 2 = 0
        BY <1>1, <3>2
      <3> HIDE DEF c, d
      <3> QED
        BY <1>1, <1>2, <2>1, <3>1, <3>2, <3>3
    <2>2. CASE ~(l < half)
      <3>1. c = 1
        <4>1. l = 1 * half + (l - half) /\ l - half \in 0..(half - 1) /\ l \in Int
          BY <1>1, <1>2, <2>2
        <4> QED
          BY <1>2, <4>1, RemainderIs
      <3>2. d = 2 * (l - half) /\ d \in 0..(size - 1)
        <4> DEFINE m == l * 2
                   e == 2 * (l - half)
        <4>1. m = 1 * size + e /\ e \in 0..(size - 1) /\ m \in Int
          BY <1>1, <1>2, <2>2
        <4> HIDE DEF m, e, size
        <4>2. m % size = e
          <5>1. size \in Nat \ {0} /\ m = size + e
            BY <1>1, <4>1
          <5> QED
            BY <4>1, <5>1
        <4> QED
          BY <4>1, <4>2 DEF m, e
      <3>3. d % 2 = 0
        BY <1>1, <1>2, <3>2
      <3> HIDE DEF c, d
      <3> QED
        BY <1>1, <1>2, <2>2, <3>1, <3>2, <3>3
    <2> QED
      BY <2>1, <2>2
  <1> HIDE DEF c, d, h, l, size
  <1>7. 2 * (h * size + l) < size * size
    BY <1>5 DEF size
  <1>8. 2 * (h * size + l) = (2 * h + c) * size + d
    <2>1. 2 * (h * size + l) = (2 * h) * size + 2 * l
      BY <1>1
    <2>2. (2 * h + c) * size = (2 * h) * size + c * size
      BY <1>1, <1>6
    <2>3. (2 * h) * size \in Nat /\ c * size \in Nat
      BY <1>1, <1>6
    <2> QED
      BY <1>1, <1>6, <2>1, <2>2, <2>3
  <1>9. 2 * h + c < size
    <2>1. SUFFICES ASSUME 2 * h + c >= size
                   PROVE  FALSE
      BY <1>1, <1>6
    <2>2. (2 * h + c) * size >= size * size
      BY <1>1, <1>6, <2>1
    <2> DEFINE p == (2 * h + c) * size
               q == size * size
    <2>3. p \in Nat /\ q \in Nat
      BY <1>1, <1>6
    <2>4. p + d < q /\ p >= q
      BY <1>7, <1>8, <2>2
    <2> HIDE DEF p, q
    <2> QED
      BY <1>6, <2>3, <2>4
  <1>10. Plus((h * 2) % size, c) = 2 * h + c
    <2>1. (h * 2) % size = 2 * h
      BY <1>1, <1>6, <1>9
    <2>2. (2 * h + c) % size = 2 * h + c
      BY <1>1, <1>6, <1>9
    <2> QED
      BY <2>1, <2>2 DEF Plus, size
  <1>11. ShiftLeft(w, 1) = [high |-> 2 * h + c, low |-> d]
    BY <1>4, <1>10 DEF Word
  <1>12. 2 * h + c \in 0..(size - 1)
    BY <1>1, <1>6, <1>9
  <1>13. ShiftLeft(w, 1) \in Words
    BY <1>6, <1>11, <1>12 DEF Words, Halves, size
  <1>14. Val(ShiftLeft(w, 1)) = (2 * h + c) * size + d
    BY <1>11 DEF Val, size
  <1>15. Val(w) = h * size + l
    BY <1>5 DEF h, l, size
  <1> QED
    BY <1>6, <1>8, <1>11, <1>13, <1>14, <1>15

(* The remainder with the next bit of the numerator. *)
LEMMA Shifted ==
    ASSUME NEW w \in Words, NEW u \in Words, NEW i \in 0..(Bits - 1), NEW beta,
           beta = (Val(u) \div 2^i) % 2,
           2 * Val(w) + beta < HalfSize * HalfSize
    PROVE  LET shifted == ShiftLeft(w, 1)
               r == IF IsSet(u, i) THEN SetBit(shifted, 0) ELSE ClearBit(shifted, 0)
           IN  r \in Words /\ Val(r) = 2 * Val(w) + beta
  <1> DEFINE shifted == ShiftLeft(w, 1)
             v == Val(w)
  <1>1. v \in Nat /\ HalfSize * HalfSize \in Nat
    BY HalfSizeType, WordRange
  <1>2. beta \in {0, 1} /\ (IsSet(u, i) <=> beta = 1)
    <2>1. i \in Nat
      OBVIOUS
    <2>2. 2^i \in Nat \ {0} /\ Val(u) \in Nat
      BY <2>1, PowerType, HalfSizeType, WordRange
    <2> DEFINE p == 2^i
               n == Val(u)
    <2> HIDE DEF p, n
    <2>3. p \in Nat \ {0} /\ n \in Nat /\ beta = (n \div p) % 2
      BY <2>2 DEF p, n
    <2>4. beta \in {0, 1}
      BY <2>3, NextBit
    <2> QED
      BY <2>4, BitOfWord
  <1>3. 2 * v < HalfSize * HalfSize
    BY <1>1, <1>2
  <1>4. shifted \in Words /\ Val(shifted) = 2 * v /\ shifted.low % 2 = 0
    BY <1>3, Doubled
  <1> HIDE DEF shifted, v
  <1>5. 0 \in 0..(Bits - 1)
    BY Widths
  <1>6. Val(shifted) \div 2^0 = 2 * v /\ (Val(shifted) \div 2^0) % 2 = 0
    <2>1. (2 * v) \div 1 = 2 * v /\ (2 * v) % 2 = 0
      BY <1>1
    <2> QED
      BY <1>4, <2>1, PowerZero
  <1>7. SetBit(shifted, 0) \in Words /\ Val(SetBit(shifted, 0)) = 2 * v + 1
    <2>1. ~IsSet(shifted, 0)
      <3>1. IsSet(shifted, 0) <=> (Val(shifted) \div 2^0) % 2 = 1
        BY <1>4, <1>5, BitOfWord
      <3>2. 0 # 1
        OBVIOUS
      <3> QED
        BY <1>6, <3>1, <3>2, Zenon
    <2> QED
      BY <1>4, <1>5, <2>1, BitOfWord, PowerZero
  <1>8. ClearBit(shifted, 0) = shifted
    <2>1. shifted = [high |-> shifted.high, low |-> shifted.low]
          /\ shifted.low \in Nat
      BY <1>4, HalfSizeType DEF Words, Halves
    <2>2. ShiftLeft(One, 0) = One
      BY Widths DEF ShiftLeft
    <2>3. SetBit(Zero, 0) = Word(0, 1)
      <3>1. OrBit(0, 0) = 0 /\ OrBit(1, 0) = 1
        BY DEF OrBit
      <3> QED
        BY <2>2, <3>1 DEF SetBit, One, Zero, Word
    <2>4. AndNotBit(0, shifted.high) = shifted.high
      BY DEF AndNotBit
    <2>5. AndNotBit(1, shifted.low) = shifted.low
      <3>1. shifted.low \div 1 = shifted.low
        BY <2>1
      <3> QED
        BY <1>4, <3>1 DEF AndNotBit
    <2> QED
      BY <2>1, <2>3, <2>4, <2>5 DEF ClearBit, Word
  <1>9. CASE IsSet(u, i)
    BY <1>2, <1>7, <1>9 DEF shifted, v
  <1>10. CASE ~IsSet(u, i)
    <2>1. beta = 0 /\ 2 * v + 0 = 2 * v
      BY <1>1, <1>2, <1>10
    <2> QED
      BY <1>4, <1>8, <1>10, <2>1 DEF shifted, v
  <1> QED
    BY <1>9, <1>10

(* The quotient q of n by d is exact down to the weight p, with the         *)
(* remainder r of the bits of n that weigh no less.                         *)
DividedTo(p, n, d, q, r) == q % p = 0 /\ n \div p = (q \div p) * d + r

BitClear(p, q) == (q \div p) % 2 = 0

(* No bit of a remainder is lost: it is at most the number divided.         *)
LEMMA RemainderFits ==
    ASSUME NEW n \in Nat, NEW d \in Nat, NEW q \in Nat, NEW t \in Nat,
           NEW p \in Nat \ {0}, DividedTo(p, n, d, q, t)
    PROVE  t <= n
  <1> DEFINE whole == n \div p
             e == n % p
             a == q \div p
  <1>1. whole \in Nat /\ e \in 0..(p - 1) /\ n = whole * p + e /\ a \in Nat
    BY Euclid
  <1>2. whole = a * d + t
    BY DEF DividedTo
  <1> HIDE DEF whole, e, a
  <1>3. whole * p >= whole /\ whole * p \in Nat
    BY <1>1
  <1>4. a * d \in Nat
    BY <1>1
  <1>5. whole <= n
    BY <1>1, <1>3
  <1> QED
    BY <1>1, <1>2, <1>4, <1>5

(* One round on numbers: the next bit of the quotient has the weight p.     *)
Rounds(n, d, q, r, p, m, t) ==
    /\ n \in Nat /\ d \in Nat \ {0} /\ q \in Nat /\ r \in Nat
    /\ p \in Nat \ {0} /\ m \in Nat \ {0} /\ t \in Nat
    /\ m = 2 * p /\ t = 2 * r + ((n \div p) % 2)
    /\ DividedTo(m, n, d, q, r) /\ r < d

LEMMA OneRound ==
    ASSUME NEW n, NEW d, NEW q, NEW r, NEW p, NEW m, NEW t, Rounds(n, d, q, r, p, m, t)
    PROVE  /\ BitClear(p, q)
           /\ DividedTo(p, n, d, q, t) /\ DividedTo(p, n, d, q + p, t - d)
  <1> USE DEF DividedTo, BitClear
  <1>0. /\ n \in Nat /\ d \in Nat \ {0} /\ q \in Nat /\ r \in Nat
        /\ p \in Nat \ {0} /\ m \in Nat \ {0} /\ t \in Nat
        /\ m = 2 * p /\ t = 2 * r + ((n \div p) % 2)
        /\ DividedTo(m, n, d, q, r) /\ r < d
    BY DEF Rounds
  <1> USE <1>0
  <1> DEFINE a == q \div m
             b == (n \div p) % 2
             whole == n \div p
  <1>1. m \in Nat \ {0} /\ b \in {0, 1}
    BY NextBit
  <1>2. a \in Nat /\ q = a * m
    <2>1. q \div m \in Nat /\ q = (q \div m) * m + (q % m)
      BY <1>1, Euclid
    <2>2. q % m = 0
      OBVIOUS
    <2> DEFINE u == q \div m
    <2>3. a = u
      OBVIOUS
    <2> HIDE DEF u
    <2>4. u \in Nat /\ q = u * m + 0
      BY <2>1, <2>2 DEF u
    <2> QED
      BY <1>1, <2>3, <2>4
  <1>3. whole = 2 * (n \div m) + b /\ n \div m = a * d + r /\ t = 2 * r + b
    BY NextBit
  <1> HIDE DEF whole, a, b
  <1>4. t \in Nat /\ t < 2 * d
    BY <1>1, <1>3
  <1>5. whole = (2 * a) * d + t
    <2> DEFINE f == n \div m
    <2>1. whole = 2 * f + b /\ f = a * d + r /\ t = 2 * r + b
      BY <1>3
    <2> HIDE DEF f
    <2> QED
      BY <1>1, <1>2, <2>1
  <1>7. q \div p = 2 * a /\ q % p = 0
    <2>1. q = (2 * a) * p + 0 /\ 2 * a \in Int /\ 0 \in 0..(p - 1) /\ q \in Int
      BY <1>2
    <2> QED
      BY <2>1, RemainderIs
  <1>8. (q + p) \div p = 2 * a + 1 /\ (q + p) % p = 0
    <2> DEFINE s == q + p
               u == 2 * a + 1
    <2>1. /\ s = u * p + 0 /\ u \in Int /\ 0 \in 0..(p - 1) /\ s \in Int
          /\ p \in Nat \ {0}
      BY <1>2
    <2> HIDE <1>0
    <2> HIDE DEF s, u
    <2>2. s \div p = u /\ s % p = 0
      BY <2>1, RemainderIs
    <2> QED
      BY <2>2 DEF s, u
  <1>9. (2 * a) % 2 = 0
    BY <1>2
  <1>10. whole = (2 * a + 1) * d + (t - d)
    <2>1. (2 * a + 1) * d = (2 * a) * d + d /\ (2 * a) * d \in Nat
      BY <1>2
    <2> QED
      BY <1>4, <1>5, <2>1
  <1> QED
    BY <1>4, <1>5, <1>7, <1>8, <1>9, <1>10 DEF whole

(* A division of a by b in state s: down to the bit that is next, the       *)
(* quotient is exact, and the remainder below the divisor.                  *)
Divided(a, b, s) ==
    /\ a \in Words /\ b \in Words \ {Zero}
    /\ s.quo \in Words /\ s.rem \in Words /\ s.bit \in -1..(Bits - 1)
    /\ DividedTo(2^(s.bit + 1), Val(a), Val(b), Val(s.quo), Val(s.rem))
    /\ Val(s.rem) < Val(b)

LEMMA Positive ==
    ASSUME NEW w \in Words \ {Zero}
    PROVE  Val(w) \in Nat \ {0}
  <1> DEFINE h == w.high
             l == w.low
  <1>1. h \in Nat /\ l \in Nat /\ w = [high |-> h, low |-> l] /\ HalfSize \in Nat \ {0}
    BY HalfSizeType DEF Words, Halves
  <1> HIDE DEF h, l
  <1>2. h # 0 \/ l # 0
    BY <1>1 DEF Zero, Word
  <1>3. h * HalfSize \in Nat /\ (h # 0 => h * HalfSize > 0)
    BY <1>1
  <1>4. h * HalfSize + l \in Nat \ {0}
    BY <1>1, <1>2, <1>3
  <1> QED
    BY <1>4 DEF Val, h, l

(* Start: nothing is divided yet, or all of it at once if the words are     *)
(* small.                                                                   *)
LEMMA StartDivides ==
    ASSUME NEW a \in Words, NEW b \in Words \ {Zero}
    PROVE  Divided(a, b, Start(a, b))
  <1> DEFINE s == Start(a, b)
             n == Val(a)
             d == Val(b)
             q0 == s.quo
             r0 == s.rem
             i0 == s.bit
             weight == 2^(i0 + 1)
  <1>1. HalfSize \in Nat \ {0}
    BY HalfSizeType
  <1>2. n \in 0..(HalfSize * HalfSize - 1) /\ d \in Nat \ {0} /\ HalfSize * HalfSize \in Nat \ {0}
    BY <1>1, WordRange, Positive
  <1>3. Bits \in Nat /\ Bits = Bits - 1 + 1
    BY Widths
  <1> SUFFICES /\ q0 \in Words /\ r0 \in Words /\ i0 \in -1..(Bits - 1)
               /\ DividedTo(weight, n, d, Val(q0), Val(r0)) /\ Val(r0) < d
    BY DEF Divided
  <1>4. CASE ~Small(a, b)
    <2>1. q0 = Zero /\ r0 = Zero /\ i0 = Bits - 1
      BY <1>4 DEF Start
    <2> HIDE DEF s, q0, r0, i0
    <2>2. weight = HalfSize * HalfSize
      BY <1>3, <2>1, Widths
    <2>3. Zero \in Words /\ Val(Zero) = 0
      BY <1>1 DEF Zero, Word, Words, Halves, Val
    <2> HIDE DEF n, d, weight
    <2>4. n \div weight = 0 /\ 0 % weight = 0 /\ 0 \div weight = 0
      <3> DEFINE size == HalfSize * HalfSize
      <3> HIDE DEF size
      <3>1. size \in Nat \ {0} /\ n \in 0..(size - 1)
        BY <1>2 DEF size
      <3>2. n \div size = 0 /\ 0 % size = 0 /\ 0 \div size = 0
        BY <3>1
      <3> QED
        BY <2>2, <3>2 DEF size
    <2>5. 0 * d + 0 = 0 /\ 0 < d
      BY <1>2
    <2>6. DividedTo(weight, n, d, Val(q0), Val(r0)) /\ Val(r0) < d
      BY <2>1, <2>3, <2>4, <2>5 DEF DividedTo
    <2> QED
      BY <1>3, <2>1, <2>3, <2>6
  <1>5. CASE Small(a, b)
    <2>1. /\ q0 = [high |-> 0, low |-> a.low \div b.low]
          /\ r0 = [high |-> 0, low |-> a.low % b.low]
          /\ i0 = -1 /\ a.high = 0 /\ b.high = 0
      BY <1>5 DEF Start, Small, Word
    <2> HIDE DEF s, q0, r0, i0
    <2>2. n = a.low /\ d = b.low /\ a.low \in 0..(HalfSize - 1) /\ b.low \in 0..(HalfSize - 1)
      <3>1. a.low \in 0..(HalfSize - 1) /\ b.low \in 0..(HalfSize - 1)
        BY <1>1 DEF Words, Halves
      <3>2. 0 * HalfSize + a.low = a.low /\ 0 * HalfSize + b.low = b.low
        BY <1>1, <3>1
      <3> QED
        BY <2>1, <3>1, <3>2 DEF Val
    <2>3. weight = 1
      BY <2>1, PowerZero, -1 + 1 = 0
    <2> DEFINE q == n \div d
               r == n % d
    <2> HIDE DEF n, d, weight
    <2>4. q \in Nat /\ r \in 0..(d - 1) /\ n = q * d + r
      <3>1. n \in Nat
        BY <1>2
      <3> QED
        BY <1>2, <3>1, Euclid
    <2>5. q0 = [high |-> 0, low |-> q] /\ r0 = [high |-> 0, low |-> r]
      BY <2>1, <2>2
    <2> HIDE DEF q, r
    <2>6. q * d >= q /\ q <= n
      BY <1>2, <2>4
    <2>7. q \in 0..(HalfSize - 1) /\ r \in 0..(HalfSize - 1)
      BY <1>1, <1>2, <2>2, <2>4, <2>6
    <2>8. q0 \in Words /\ r0 \in Words /\ Val(q0) = q /\ Val(r0) = r
      <3>1. 0 * HalfSize + q = q /\ 0 * HalfSize + r = r
        BY <1>1, <2>4
      <3> QED
        BY <1>1, <2>5, <2>7, <3>1 DEF Words, Halves, Val
    <2>9. q % 1 = 0 /\ q \div 1 = q /\ n \div 1 = n
      BY <1>2, <2>4
    <2>10. r < d
      BY <1>2, <2>4
    <2>11. DividedTo(weight, n, d, Val(q0), Val(r0)) /\ Val(r0) < d
      BY <2>3, <2>4, <2>8, <2>9, <2>10 DEF DividedTo
    <2>12. i0 \in -1..(Bits - 1)
      BY <1>3, <2>1
    <2> QED
      BY <2>8, <2>11, <2>12
  <1> QED
    BY <1>4, <1>5

LEMMA CompareGeq ==
    ASSUME NEW a \in Words, NEW b \in Words
    PROVE  Compare(a, b) >= 0 <=> Val(a) >= Val(b)
  <1>1. Compare(a, b) \in {-1, 0, 1}
    BY DEF Compare
  <1>2. Compare(a, b) < 0 <=> Val(a) < Val(b)
    BY HalvesAreExact
  <1>3. Val(a) \in Nat /\ Val(b) \in Nat
    BY WordRange, HalfSizeType
  <1> QED
    BY <1>1, <1>2, <1>3

LEMMA SubExact ==
    ASSUME NEW a \in Words, NEW b \in Words, Val(a) >= Val(b)
    PROVE  Sub(a, b) \in Words /\ Val(Sub(a, b)) = Val(a) - Val(b)
  <1> DEFINE size == HalfSize * HalfSize
             m == Val(a)
             n == Val(b)
             s == Val(Sub(a, b))
  <1>1. Sub(a, b) \in Words /\ \E k \in {-1, 0} : m - n = k * size + s
    BY SubValue, HalfSizeType
  <1>2. m \in 0..(size - 1) /\ n \in 0..(size - 1) /\ s \in 0..(size - 1) /\ size \in Nat \ {0}
    BY <1>1, WordRange, HalfSizeType
  <1> HIDE DEF size, m, n, s
  <1>3. PICK k \in {-1, 0} : m - n = k * size + s
    BY <1>1
  <1>4. m >= n
    BY DEF m, n
  <1>5. k = 0
    BY <1>2, <1>3, <1>4
  <1>6. s = m - n
    BY <1>2, <1>3, <1>5
  <1> QED
    BY <1>1, <1>6 DEF s, m, n

(* A round of divloop: the remainder takes in a bit without losing one,     *)
(* because it is at most the numerator, and a bit that is set in the        *)
(* quotient was clear.                                                      *)
LEMMA RoundDivides ==
    ASSUME NEW a, NEW b, NEW s, Divided(a, b, s), s.bit >= 0
    PROVE  Divided(a, b, DivStep(a, b, s))
  <1> DEFINE n == Val(a)
             d == Val(b)
             q == Val(s.quo)
             r == Val(s.rem)
             i == s.bit
             p == 2^i
             beta == (n \div p) % 2
             t == 2 * r + beta
             shifted == ShiftLeft(s.rem, 1)
             next == IF IsSet(a, i) THEN SetBit(shifted, 0) ELSE ClearBit(shifted, 0)
             new == DivStep(a, b, s)
  <1>1. /\ a \in Words /\ b \in Words /\ b \in Words \ {Zero}
        /\ s.quo \in Words /\ s.rem \in Words
        /\ i \in 0..(Bits - 1) /\ i \in Nat
    <2>1. Bits \in Nat /\ i \in -1..(Bits - 1) /\ i >= 0
      BY Widths DEF Divided
    <2> HIDE DEF i
    <2>2. i \in 0..(Bits - 1) /\ i \in Nat
      BY <2>1
    <2> QED
      BY <2>2 DEF Divided
  <1>2. /\ n \in 0..(HalfSize * HalfSize - 1) /\ n \in Nat /\ q \in Nat /\ r \in Nat
        /\ d \in Nat \ {0} /\ HalfSize * HalfSize \in Nat
    BY <1>1, WordRange, HalfSizeType, Positive
  <1>3. p \in Nat \ {0} /\ 2^(i + 1) = 2 * p
    <2> HIDE DEF i
    <2> QED
      BY <1>1, PowerType, PowerDoubles
  <1>4. DividedTo(2 * p, n, d, q, r) /\ r < d
    <2>1. DividedTo(2^(i + 1), n, d, q, r) /\ r < d
      BY DEF Divided
    <2> HIDE DEF p, i, n, d, q, r
    <2> QED
      BY <1>3, <2>1
  <1>5. /\ t \in Nat /\ t <= n /\ t < 2 * d
        /\ (q \div p) % 2 = 0
        /\ DividedTo(p, n, d, q, t) /\ DividedTo(p, n, d, q + p, t - d)
    <2>1. t = 2 * r + ((n \div p) % 2)
      OBVIOUS
    <2> HIDE DEF n, d, q, r, p, t
    <2>2. n \in Nat /\ d \in Nat \ {0} /\ q \in Nat /\ r \in Nat /\ p \in Nat \ {0}
      BY <1>2, <1>3
    <2> DEFINE m == 2 * p
    <2>3. m = 2 * p /\ m \in Nat \ {0} /\ DividedTo(m, n, d, q, r) /\ r < d
      BY <1>4, <2>2
    <2>4. t \in Nat
      BY <2>1, <2>2, NextBit
    <2> HIDE DEF m
    <2>5. Rounds(n, d, q, r, p, m, t)
      BY <2>1, <2>2, <2>3, <2>4 DEF Rounds
    <2>6. BitClear(p, q) /\ DividedTo(p, n, d, q, t) /\ DividedTo(p, n, d, q + p, t - d)
      BY <2>5, OneRound
    <2>8. t <= n
      BY <2>2, <2>6, <2>4, RemainderFits
    <2>9. t < 2 * d
      <3>1. t = 2 * r + 0 \/ t = 2 * r + 1
        BY <2>1, <2>2, NextBit
      <3> QED
        BY <2>2, <2>3, <3>1
    <2> QED
      BY <2>4, <2>6, <2>8, <2>9 DEF BitClear
  <1>6. t < HalfSize * HalfSize
    <2> HIDE DEF t, n
    <2> QED
      BY <1>2, <1>5
  <1>7. next \in Words /\ Val(next) = t
    BY <1>1, <1>6, Shifted
  <1>8. Compare(next, b) >= 0 <=> t >= d
    <2> HIDE DEF next, t
    <2>1. Compare(next, b) >= 0 <=> Val(next) >= Val(b)
      BY <1>1, <1>7, CompareGeq
    <2> QED
      BY <1>7, <2>1
  <1>9. /\ new.bit = i - 1
        /\ IF Compare(next, b) >= 0
           THEN new.quo = SetBit(s.quo, i) /\ new.rem = Sub(next, b)
           ELSE new.quo = s.quo /\ new.rem = next
    BY DEF DivStep
  <1> HIDE DEF new
  <1>10. 2^(new.bit + 1) = p
    <2> HIDE DEF i
    <2>1. i - 1 + 1 = i
      BY <1>1
    <2> QED
      BY <1>9, <2>1
  <1>11. new.bit \in -1..(Bits - 1)
    <2> HIDE DEF i
    <2> QED
      BY <1>1, <1>9, Widths
  <1>12. SUFFICES /\ new.quo \in Words /\ new.rem \in Words
                  /\ DividedTo(p, n, d, Val(new.quo), Val(new.rem)) /\ Val(new.rem) < d
    <2> HIDE DEF p
    <2> QED
      BY <1>1, <1>10, <1>11 DEF Divided, new
  <1>13. CASE t >= d
    <2>1. new.quo = SetBit(s.quo, i) /\ new.rem = Sub(next, b)
      BY <1>8, <1>9, <1>13, Zenon
    <2>2. new.quo \in Words /\ Val(new.quo) = q + p
      <3>1. ~IsSet(s.quo, i)
        <4>1. IsSet(s.quo, i) <=> (q \div p) % 2 = 1
          BY <1>1, BitOfWord
        <4>2. 0 # 1
          OBVIOUS
        <4> QED
          BY <1>5, <4>1, <4>2, Zenon
      <3>2. SetBit(s.quo, i) \in Words /\ Val(SetBit(s.quo, i)) = q + p
        BY <1>1, <3>1, BitOfWord
      <3> QED
        BY <2>1, <3>2, Zenon
    <2>3. new.rem \in Words /\ Val(new.rem) = t - d
      <3> HIDE DEF next, t
      <3>1. Sub(next, b) \in Words /\ Val(Sub(next, b)) = t - d
        BY <1>1, <1>7, <1>13, SubExact
      <3> QED
        BY <2>1, <3>1, Zenon
    <2> HIDE DEF n, d, q, r, p, t
    <2>4. t - d < d
      BY <1>2, <1>5
    <2> QED
      BY <1>5, <2>2, <2>3, <2>4
  <1>14. CASE ~(t >= d)
    <2>1. new.quo = s.quo /\ new.rem = next
      BY <1>8, <1>9, <1>14, Zenon
    <2>2. new.quo \in Words /\ Val(new.quo) = q /\ new.rem \in Words /\ Val(new.rem) = t
      BY <1>1, <1>7, <2>1, Zenon
    <2> HIDE DEF n, d, q, r, p, t
    <2>3. t < d
      BY <1>2, <1>5, <1>14
    <2> QED
      BY <1>5, <2>2, <2>3
  <1> QED
    BY <1>13, <1>14

(* The inductive invariant: DivisionInvariant, and the range of the counter.*)
DivInv == Divided(num, den, [quo |-> quo, rem |-> rem, bit |-> bit])

LEMMA DivInvIs ==
    ASSUME DivInv
    PROVE  /\ num \in Words /\ den \in Words \ {Zero}
           /\ bit \in -1..(Bits - 1)
           /\ DivisionInvariant
  BY Zenon DEF DivInv, Divided, DividedTo, DivisionInvariant

LEMMA DivInvInit == DivInit => DivInv
  <1> SUFFICES ASSUME DivInit
               PROVE  DivInv
    OBVIOUS
  <1>1. Divided(num, den, Start(num, den))
    BY StartDivides DEF DivInit
  <1> QED
    BY <1>1, Zenon DEF DivInit, DivInv, Divided

LEMMA DivInvStep == DivInv /\ [DivLoop]_divVars => DivInv'
  <1> SUFFICES ASSUME DivInv, [DivLoop]_divVars
               PROVE  DivInv'
    OBVIOUS
  <1>1. CASE UNCHANGED divVars
    BY <1>1 DEF DivInv, Divided, DividedTo, divVars, Val
  <1>2. CASE DivLoop
    <2> DEFINE s == [quo |-> quo, rem |-> rem, bit |-> bit]
               next == DivStep(num, den, s)
    <2>1. s.bit >= 0 /\ Divided(num, den, s)
      BY <1>2 DEF DivLoop, DivInv
    <2>2. Divided(num, den, next)
      <3> HIDE DEF s
      <3> QED
        BY <2>1, RoundDivides
    <2>3. /\ num' = num /\ den' = den
          /\ quo' = next.quo /\ rem' = next.rem /\ bit' = next.bit
      BY <1>2 DEF DivLoop
    <2> HIDE DEF s, next
    <2> QED
      BY <2>2, <2>3 DEF DivInv, Divided, DividedTo, Val
  <1> QED
    BY <1>1, <1>2

(* At every width, all along divloop: the bits of the numerator that have   *)
(* been read are divided exactly, and neither the shift of the remainder    *)
(* nor the subtraction loses a bit.                                         *)
THEOREM DivisionCorrect == DivSpec => []DivisionInvariant
  <1>1. DivInv => DivisionInvariant
    BY DivInvIs
  <1> QED
    BY <1>1, DivInvInit, DivInvStep, PTL DEF DivSpec

-----------------------------------------------------------------------------
(* Signs. *)

(* 2^255 in the code: the weight of the bit that is the sign.               *)
Top == (HalfSize * HalfSize) \div 2

(* Top is half the number of words, and wrapping is modulo twice Top.       *)
LEMMA TopFacts ==
    /\ Top \in Nat \ {0, 1} /\ HalfSize * HalfSize = 2 * Top /\ Top = 2^(Bits - 1)
    /\ \A n \in Int : /\ Rep!UWrap(n) = n % (2 * Top)
                      /\ Rep!SWrap(n) = ((n + Top) % (2 * Top)) - Top
  <1> DEFINE k == Bits - 1
             p == 2^k
             m == HalfSize * HalfSize
  <1>1. k \in Nat /\ Bits = k + 1 /\ k >= 1
    BY Widths
  <1>2. p \in Nat \ {0} /\ 2^(k + 1) = 2 * p
    <2> HIDE DEF k
    <2> QED
      BY <1>1, PowerType, PowerDoubles
  <1>3. m = 2 * p
    BY <1>1, <1>2, Widths
  <1>4. m \div 2 = p
    <2> HIDE DEF m, p
    <2> QED
      BY <1>2, <1>3
  <1>5. HalfSize \in Nat \ {0} /\ HalfSize >= 4
    <2>1. HalfBits - 2 \in Nat /\ HalfBits = (HalfBits - 2) + 2
      BY Widths
    <2>2. 2^HalfBits = 2^(HalfBits - 2) * 2^2 /\ 2^(HalfBits - 2) \in Nat \ {0}
      BY <2>1, PowerOfSum, PowerType
    <2>3. 2^2 = 4
      OBVIOUS
    <2> DEFINE r == 2^(HalfBits - 2)
    <2>4. HalfSize = r * 4 /\ r \in Nat \ {0}
      BY <2>2, <2>3, Widths
    <2> HIDE DEF r
    <2> QED
      BY <2>4
  <1>6. m >= 16
    BY <1>5
  <1> HIDE DEF m, p
  <1>7. Top = p /\ p # 1
    BY <1>2, <1>3, <1>4, <1>6 DEF m, Top
  <1> QED
    BY <1>2, <1>3, <1>7 DEF m, p, Top, Rep!UWrap, Rep!SWrap, Rep!Modulus

(* The bit that is_neg reads is set from Top on.                            *)
LEMMA SignBit ==
    ASSUME NEW w \in Words
    PROVE  /\ Val(w) \in 0..(2 * Top - 1)
           /\ IsNeg(w) <=> Val(w) >= Top
           /\ SignedVal(w) = IF Val(w) >= Top THEN Val(w) - 2 * Top ELSE Val(w)
  <1> DEFINE v == Val(w)
  <1>1. v \in 0..(2 * Top - 1) /\ Top \in Nat \ {0}
    BY WordRange, HalfSizeType, TopFacts
  <1>2. IsNeg(w) <=> (v \div Top) % 2 = 1
    <2>1. Bits - 1 \in 0..(Bits - 1)
      BY Widths
    <2>2. IsSet(w, Bits - 1) <=> (Val(w) \div 2^(Bits - 1)) % 2 = 1
      BY <2>1, BitOfWord
    <2> QED
      BY <2>2, TopFacts DEF IsNeg
  <1>3. IsNeg(w) <=> v >= Top
    <2> HIDE DEF v
    <2>1. CASE v >= Top
      <3>1. v = 1 * Top + (v - Top) /\ v - Top \in 0..(Top - 1)
        BY <1>1, <2>1
      <3>2. v \div Top = 1
        BY <1>1, <3>1, RemainderIs
      <3> QED
        BY <1>2, <2>1, <3>2
    <2>2. CASE v < Top
      <3>1. v = 0 * Top + v /\ v \in 0..(Top - 1)
        BY <1>1, <2>2
      <3>2. v \div Top = 0
        BY <1>1, <3>1, RemainderIs
      <3> QED
        BY <1>1, <1>2, <2>2, <3>2
    <2> QED
      BY <1>1, <2>1, <2>2
  <1> QED
    BY <1>1, <1>3, TopFacts DEF SignedVal

(* Neg, the complement plus one. *)
LEMMA NegValue ==
    ASSUME NEW w \in Words
    PROVE  /\ Neg(w) \in Words
           /\ Val(Neg(w)) = IF Val(w) = 0 THEN 0 ELSE 2 * Top - Val(w)
  <1> DEFINE size == HalfSize
             h == w.high
             l == w.low
             c == Word(size - 1 - h, size - 1 - l)
  <1>1. size \in Nat \ {0} /\ h \in 0..(size - 1) /\ l \in 0..(size - 1) /\ size >= 2
    <2>1. HalfSize \in Nat \ {0} /\ HalfSize # 1
      <3>1. HalfSize * HalfSize = 2 * Top /\ Top \in Nat
        BY TopFacts
      <3> QED
        BY <3>1, HalfSizeType
    <2> QED
      BY <2>1 DEF Words, Halves
  <1>2. c \in Words /\ Val(c) = (size - 1 - h) * size + (size - 1 - l)
    BY <1>1 DEF Words, Halves, Word, Val
  <1>3. Val(c) = 2 * Top - 1 - Val(w)
    <2>1. Val(w) = h * size + l
      BY DEF Val
    <2>2. size * size = 2 * Top
      BY TopFacts
    <2> HIDE DEF size, h, l, c
    <2>3. (size - 1 - h) * size = size * size - size - h * size
      <3>1. 1 * size = size
        BY <1>1
      <3>2. size \in Int /\ 1 \in Int /\ h \in Int
        BY <1>1
      <3>3. (size - 1 - h) * size = size * size - 1 * size - h * size
        BY <3>2, Distributes
      <3> QED
        BY <3>1, <3>3
    <2> DEFINE p == h * size
               q == size * size
    <2>4. p \in Int /\ q \in Int
      BY <1>1
    <2>5. Val(c) = q - size - p + (size - 1 - l) /\ q = 2 * Top /\ Val(w) = p + l
      BY <1>2, <2>1, <2>2, <2>3
    <2> HIDE DEF p, q
    <2>6. Top \in Int
      BY TopFacts
    <2> QED
      BY <1>1, <2>4, <2>5, <2>6
  <1>4. One \in Words /\ Val(One) = 1
    <2>1. 0 * size + 1 = 1
      BY <1>1
    <2> QED
      BY <1>1, <2>1 DEF One, Word, Words, Halves, Val
  <1>5. /\ Neg(w) \in Words
        /\ \E k \in {0, 1} : Val(c) + Val(One) = k * (HalfSize * HalfSize) + Val(Neg(w))
    <2>1. Neg(w) = Add(c, One)
      BY DEF Neg
    <2> HIDE DEF c
    <2> QED
      BY <1>2, <1>4, <2>1, AddValue, HalfSizeType
  <1>6. PICK k \in {0, 1} : 2 * Top - Val(w) = k * (2 * Top) + Val(Neg(w))
    <2>1. PICK k \in {0, 1} : Val(c) + Val(One) = k * (HalfSize * HalfSize) + Val(Neg(w))
      BY <1>5
    <2> HIDE DEF c
    <2>2. Val(w) \in Int /\ Top \in Int /\ HalfSize * HalfSize = 2 * Top
      BY SignBit, TopFacts
    <2> QED
      BY <1>3, <1>4, <2>1, <2>2
  <1>7. Val(w) \in 0..(2 * Top - 1) /\ Val(Neg(w)) \in 0..(2 * Top - 1) /\ Top \in Nat \ {0}
    BY <1>5, SignBit, TopFacts
  <1> QED
    BY <1>5, <1>6, <1>7

(* The signed numbers, and the absolute value that divrem divides.          *)
LEMMA SignedRange ==
    ASSUME NEW w \in Words
    PROVE  /\ SignedVal(w) \in (-Top)..(Top - 1)
           /\ IsNeg(w) <=> SignedVal(w) < 0
           /\ AbsWord(w) \in Words
           /\ Val(AbsWord(w)) = Rep!Magnitude(SignedVal(w))
  <1>1. /\ Val(w) \in 0..(2 * Top - 1) /\ Top \in Nat \ {0}
        /\ IsNeg(w) <=> Val(w) >= Top
        /\ SignedVal(w) = IF Val(w) >= Top THEN Val(w) - 2 * Top ELSE Val(w)
    BY SignBit, TopFacts
  <1>2. Neg(w) \in Words /\ Val(Neg(w)) = IF Val(w) = 0 THEN 0 ELSE 2 * Top - Val(w)
    BY NegValue
  <1> QED
    BY <1>1, <1>2 DEF AbsWord, Rep!Magnitude

(* A number between the bounds is the signed value of the word of its      *)
(* residue.                                                                 *)
LEMMA SWrapIs ==
    ASSUME NEW n \in (-(2 * Top))..(2 * Top)
    PROVE  Rep!SWrap(n) = IF n < -Top THEN n + 2 * Top
                          ELSE IF n < Top THEN n ELSE n - 2 * Top
  <1>1. Top \in Nat \ {0} /\ Rep!SWrap(n) = ((n + Top) % (2 * Top)) - Top
    BY TopFacts
  <1> DEFINE m == 2 * Top
  <1>2. m \in Nat \ {0} /\ m = 2 * Top
    BY <1>1
  <1> HIDE DEF m
  <1>3. CASE n < -Top
    <2>1. n + Top \in Int /\ n + Top = (-1) * m + (n + Top + m) /\ n + Top + m \in 0..(m - 1)
      BY <1>1, <1>2, <1>3
    <2>2. (n + Top) % m = n + Top + m
      BY <1>2, <2>1, RemainderIs
    <2> QED
      BY <1>1, <1>2, <1>3, <2>2
  <1>4. CASE n >= -Top /\ n < Top
    <2>1. n + Top \in Int /\ n + Top = 0 * m + (n + Top) /\ n + Top \in 0..(m - 1)
      BY <1>1, <1>2, <1>4
    <2>2. (n + Top) % m = n + Top
      BY <1>2, <2>1, RemainderIs
    <2> QED
      BY <1>1, <1>2, <1>4, <2>2
  <1>5. CASE n >= Top
    <2>1. n + Top \in Int /\ n + Top = 1 * m + (n + Top - m) /\ n + Top - m \in 0..(m - 1)
      BY <1>1, <1>2, <1>5
    <2>2. (n + Top) % m = n + Top - m
      BY <1>2, <2>1, RemainderIs
    <2> QED
      BY <1>1, <1>2, <1>5, <2>2
  <1> QED
    BY <1>1, <1>3, <1>4, <1>5

(* Division of magnitudes, with the signs put in afterwards.                *)
LEMMA SignsOfDivision ==
    ASSUME NEW u \in Int, NEW v \in Int, NEW q \in Nat, NEW r \in Nat,
           NEW n, n = Rep!Magnitude(u), NEW d, d = Rep!Magnitude(v),
           v # 0, n = q * d + r, r < d
    PROVE  /\ Rep!Quot(u, v) = IF (u < 0) = (v < 0) THEN q ELSE -q
           /\ Rep!Rem(u, v) = IF u < 0 THEN -r ELSE r
  <1> DEFINE quot == Rep!Quot(u, v)
             p == q * d
  <1>1. /\ n \in Nat /\ d \in Nat \ {0}
        /\ n = (IF u < 0 THEN -u ELSE u) /\ d = (IF v < 0 THEN -v ELSE v)
    BY DEF Rep!Magnitude
  <1>2. n \div d = q
    <2>1. r \in 0..(d - 1) /\ n = q * d + r
      BY <1>1
    <2> QED
      BY <1>1, <2>1, RemainderIs
  <1>3. quot = IF (u < 0) = (v < 0) THEN q ELSE -q
    BY <1>2 DEF Rep!Quot
  <1>4. Rep!Rem(u, v) = u - v * quot
    BY DEF Rep!Rem
  <1>5. n = p + r /\ p \in Int
    BY <1>1
  <1> HIDE DEF quot
  <1>6. v * quot = IF u < 0 THEN -p ELSE p
    <2>1. v = d \/ v = -d
      BY <1>1
    <2>2. /\ d * q = p /\ (-d) * (-q) = p
          /\ (-d) * q = -p /\ d * (-q) = -p
      BY <1>1
    <2>3. v = (IF v < 0 THEN -d ELSE d)
      BY <1>1
    <2> HIDE DEF p
    <2> QED
      BY <1>3, <2>2, <2>3
  <1> HIDE DEF p
  <1>7. u - v * quot = IF u < 0 THEN -r ELSE r
    <2>1. u = (IF u < 0 THEN -n ELSE n)
      BY <1>1
    <2> QED
      BY <1>1, <1>5, <1>6, <2>1
  <1> QED
    BY <1>3, <1>4, <1>7 DEF quot

(* Int256.divrem, at every width: the signs are taken off and put back,     *)
(* min_int included, whose absolute value is no signed number.              *)
THEOREM SignedDivisionCorrect == DivSpec => []SignedDivisionExact
  <1>1. DivInv => SignedDivisionExact
    <2> SUFFICES ASSUME DivInv, bit = -1, NEW a \in {num, Neg(num)}, NEW b \in {den, Neg(den)},
                        AbsWord(a) = num, AbsWord(b) = den
                 PROVE  LET res == SignedResult(a, b, quo, rem)
                        IN  /\ SignedVal(res.quo) =
                                 Rep!SWrap(Rep!Quot(SignedVal(a), SignedVal(b)))
                            /\ SignedVal(res.rem) = Rep!Rem(SignedVal(a), SignedVal(b))
      BY DEF SignedDivisionExact
    <2> DEFINE u == SignedVal(a)
               v == SignedVal(b)
               q == Val(quo)
               r == Val(rem)
    <2>1. /\ num \in Words /\ den \in Words \ {Zero} /\ quo \in Words /\ rem \in Words
          /\ a \in Words /\ b \in Words
      BY DivInvIs, NegValue DEF DivisionInvariant
    <2>2. Val(num) = q * Val(den) + r /\ r < Val(den)
      <3>1. 2^(bit + 1) = 1
        BY PowerZero, -1 + 1 = 0
      <3>2. Val(num) \div 1 = (q \div 1) * Val(den) + r /\ r < Val(den)
        BY <3>1, DivInvIs DEF DivisionInvariant
      <3>3. Val(num) \in Int /\ q \in Int
        BY <2>1, SignBit
      <3>4. \A n \in Int : n \div 1 = n
        OBVIOUS
      <3> HIDE DEF q, r
      <3> QED
        BY <3>2, <3>3, <3>4
    <2>3. /\ u \in (-Top)..(Top - 1) /\ (IsNeg(a) <=> u < 0) /\ Val(num) = Rep!Magnitude(u)
          /\ v \in (-Top)..(Top - 1) /\ (IsNeg(b) <=> v < 0) /\ Val(den) = Rep!Magnitude(v)
      BY <2>1, SignedRange
    <2>4. q \in Nat /\ r \in Nat /\ Val(den) \in Nat \ {0} /\ Top \in Nat \ {0}
      <3>1. q \in 0..(2 * Top - 1) /\ r \in 0..(2 * Top - 1) /\ Top \in Nat \ {0}
        BY <2>1, SignBit, TopFacts
      <3> QED
        BY <2>1, <3>1, Positive
    <2>5. v # 0
      BY <2>3, <2>4 DEF Rep!Magnitude
    <2> HIDE DEF u, v, q, r
    <2>6. /\ Rep!Quot(u, v) = IF (u < 0) = (v < 0) THEN q ELSE -q
          /\ Rep!Rem(u, v) = IF u < 0 THEN -r ELSE r
      <3> DEFINE n == Val(num)
                 d == Val(den)
      <3>1. u \in Int /\ v \in Int
        BY <2>3, <2>4
      <3>2. n = Rep!Magnitude(u) /\ d = Rep!Magnitude(v) /\ n = q * d + r /\ r < d
        BY <2>2, <2>3
      <3> HIDE DEF n, d
      <3>3. /\ n = q * d + r /\ r < d /\ q \in Nat /\ r \in Nat /\ v # 0
            /\ n = Rep!Magnitude(u) /\ d = Rep!Magnitude(v)
        BY <2>4, <2>5, <3>1, <3>2
      <3>4. /\ Rep!Quot(u, v) = IF (u < 0) = (v < 0) THEN q ELSE -q
          /\ Rep!Rem(u, v) = IF u < 0 THEN -r ELSE r
        BY <3>1, <3>3, SignsOfDivision, SMTT(30)
      <3> QED
        BY <3>4
    <2>7. q <= Top /\ r <= Top
      <3>1. Val(num) <= Top
        BY <2>3, <2>4 DEF Rep!Magnitude
      <3> DEFINE d == Val(den)
                 p == q * d
      <3>2. d \in Nat \ {0}
        BY <2>4
      <3> HIDE DEF d
      <3>3. p \in Nat /\ p >= q
        BY <2>4, <3>2
      <3>4. p + r <= Top
        BY <2>2, <3>1 DEF d
      <3> HIDE DEF p
      <3> QED
        BY <2>4, <3>3, <3>4
    <2>8. /\ SignedVal(quo) = Rep!SWrap(q) /\ SignedVal(Neg(quo)) = Rep!SWrap(-q)
          /\ SignedVal(Neg(rem)) = -r
      <3>1. /\ SignedVal(quo) = (IF q >= Top THEN q - 2 * Top ELSE q)
            /\ Neg(quo) \in Words /\ Val(Neg(quo)) = (IF q = 0 THEN 0 ELSE 2 * Top - q)
            /\ Neg(rem) \in Words /\ Val(Neg(rem)) = (IF r = 0 THEN 0 ELSE 2 * Top - r)
        BY <2>1, SignBit, NegValue DEF q, r
      <3>2. /\ SignedVal(Neg(quo)) = (IF Val(Neg(quo)) >= Top THEN Val(Neg(quo)) - 2 * Top
                                      ELSE Val(Neg(quo)))
            /\ SignedVal(Neg(rem)) = (IF Val(Neg(rem)) >= Top THEN Val(Neg(rem)) - 2 * Top
                                      ELSE Val(Neg(rem)))
        BY <3>1, SignBit
      <3>3. q \in (-(2 * Top))..(2 * Top) /\ -q \in (-(2 * Top))..(2 * Top)
        BY <2>4, <2>7
      <3>4. /\ Rep!SWrap(q) = (IF q < -Top THEN q + 2 * Top ELSE IF q < Top THEN q ELSE q - 2 * Top)
            /\ Rep!SWrap(-q) = (IF -q < -Top THEN -q + 2 * Top ELSE IF -q < Top THEN -q ELSE -q - 2 * Top)
        BY <3>3, SWrapIs
      <3> QED
        BY <2>4, <2>7, <3>1, <3>2, <3>4
    <2>9. SignedVal(rem) = r
      <3>1. r < Top
        BY <2>2, <2>3, <2>4 DEF Rep!Magnitude
      <3> QED
        BY <2>1, <2>4, <3>1, SignBit DEF r
    <2>10. (IsNeg(a) = IsNeg(b)) <=> ((u < 0) = (v < 0))
      <3>1. IsNeg(a) \in BOOLEAN /\ IsNeg(b) \in BOOLEAN
        BY DEF IsNeg, IsSet
      <3> QED
        BY <2>3, <3>1
    <2> DEFINE res == SignedResult(a, b, quo, rem)
    <2>11. SignedVal(res.quo) = Rep!SWrap(Rep!Quot(u, v))
      <3>1. CASE IsNeg(a) = IsNeg(b)
        <4>1. res.quo = quo
          BY <3>1 DEF SignedResult
        <4> QED
          BY <2>6, <2>8, <2>10, <3>1, <4>1
      <3>2. CASE ~(IsNeg(a) = IsNeg(b))
        <4>1. res.quo = Neg(quo)
          BY <3>2 DEF SignedResult
        <4> QED
          BY <2>6, <2>8, <2>10, <3>2, <4>1
      <3> QED
        BY <3>1, <3>2
    <2>12. SignedVal(res.rem) = Rep!Rem(u, v)
      BY <2>3, <2>6, <2>8, <2>9 DEF SignedResult
    <2> QED
      BY <2>11, <2>12 DEF u, v
  <1> QED
    BY <1>1, DivInvInit, DivInvStep, PTL DEF DivSpec

(* Division with remainder of any integer, and what it makes of multiples. *)
LEMMA IntEuclid ==
    ASSUME NEW m \in Nat \ {0}, NEW n \in Int
    PROVE  /\ n \div m \in Int /\ n % m \in 0..(m - 1)
           /\ n = (n \div m) * m + (n % m)
  <1> DEFINE q == n \div m
             r == n % m
  <1>1. q \in Int /\ q * m <= n /\ n < q * m + m
    OBVIOUS
  <1> HIDE DEF q
  <1>2. n - q * m \in 0..(m - 1) /\ n = q * m + (n - q * m)
    BY <1>1
  <1>3. r = n - q * m
    BY <1>1, <1>2, RemainderIs
  <1> HIDE DEF r
  <1>4. q \in Int /\ r \in 0..(m - 1) /\ n = q * m + r
    BY <1>1, <1>2, <1>3
  <1> QED
    BY <1>4, Zenon DEF q, r

(* Adding a multiple of the modulus does not change the residue.            *)
LEMMA Periodic ==
    ASSUME NEW m \in Nat \ {0}, NEW n \in Int, NEW k \in Int, NEW l, l = n + k * m
    PROVE  l % m = n % m
  <1> DEFINE q == n \div m
             r == n % m
  <1>1. q \in Int /\ r \in 0..(m - 1) /\ n = q * m + r
    BY IntEuclid
  <1> HIDE DEF q, r
  <1>2. (q + k) * m = q * m + k * m
    BY <1>1
  <1> DEFINE p == q * m
             t == k * m
             s == (q + k) * m
  <1>3. p \in Int /\ t \in Int /\ s = p + t /\ n = p + r /\ l = n + t
    BY <1>1, <1>2
  <1> HIDE DEF p, t, s
  <1>4. l = s + r /\ l \in Int
    BY <1>1, <1>3
  <1> HIDE DEF s
  <1>5. l = (q + k) * m + r /\ q + k \in Int
    BY <1>1, <1>4 DEF s
  <1>6. l % m = r
    BY <1>1, <1>4, <1>5, RemainderIs
  <1> QED
    BY <1>6 DEF r

(* A number and its residue wrap to the same signed number. *)
LEMMA SWrapPeriodic ==
    ASSUME NEW n \in Int, NEW k \in Int, NEW l, l = n + k * (2 * Top)
    PROVE  Rep!SWrap(l) = Rep!SWrap(n) /\ l \in Int
  <1> DEFINE m == 2 * Top
             t == k * m
  <1>1. m \in Nat \ {0} /\ Top \in Int
    BY TopFacts
  <1>2. l = n + t /\ t \in Int
    BY <1>1
  <1>3. l + Top = (n + Top) + t /\ l \in Int /\ n + Top \in Int
    <2> HIDE DEF t
    <2> QED
      BY <1>1, <1>2
  <1> HIDE DEF m
  <1>4. (l + Top) % m = (n + Top) % m
    <2> DEFINE i == l + Top
               j == n + Top
    <2>1. i = j + k * m /\ j \in Int
      BY <1>3
    <2> HIDE DEF i, j
    <2>2. i % m = j % m
      BY <1>1, <2>1, Periodic
    <2> QED
      BY <2>2 DEF i, j
  <1> QED
    BY <1>3, <1>4, TopFacts DEF m

(* The signed value is the wrapped value. *)
LEMMA SignedIsWrapped ==
    ASSUME NEW w \in Words
    PROVE  /\ SignedVal(w) = Rep!SWrap(Val(w)) /\ SignedVal(w) \in Int /\ Val(w) \in Int
           /\ \E k \in {0, -1} : SignedVal(w) = Val(w) + k * (2 * Top)
  <1>1. /\ Val(w) \in 0..(2 * Top - 1) /\ Top \in Nat \ {0}
        /\ SignedVal(w) = IF Val(w) >= Top THEN Val(w) - 2 * Top ELSE Val(w)
    BY SignBit, TopFacts
  <1>2. Val(w) \in (-(2 * Top))..(2 * Top)
    BY <1>1
  <1>3. SignedVal(w) = Rep!SWrap(Val(w))
    BY <1>1, <1>2, SWrapIs
  <1>4. \E k \in {0, -1} : SignedVal(w) = Val(w) + k * (2 * Top)
    <2>1. Val(w) + 0 * (2 * Top) = Val(w) /\ Val(w) + (-1) * (2 * Top) = Val(w) - 2 * Top
      BY <1>1
    <2> QED
      BY <1>1, <2>1
  <1> QED
    BY <1>1, <1>3, <1>4

(* An operation that is exact modulo the number of words is exact on        *)
(* signed numbers modulo their number.                                      *)
LEMMA WrappedResult ==
    ASSUME NEW w \in Words, NEW n \in Int, Val(w) = Rep!UWrap(n)
    PROVE  SignedVal(w) = Rep!SWrap(n)
  <1> DEFINE m == 2 * Top
             q == n \div m
             r == n % m
  <1>1. m \in Nat \ {0} /\ Val(w) = r
    BY TopFacts
  <1> HIDE DEF m
  <1>2. q \in Int /\ r \in 0..(m - 1) /\ n = q * m + r
    BY <1>1, IntEuclid
  <1> HIDE DEF q, r
  <1>3. n = r + q * m /\ r \in Int
    <2> DEFINE p == q * m
    <2>1. p \in Int /\ n = p + r /\ r \in Int
      BY <1>1, <1>2
    <2> HIDE DEF p
    <2>2. n = r + p
      BY <2>1
    <2> QED
      BY <2>1, <2>2 DEF p
  <1>4. Rep!SWrap(n) = Rep!SWrap(r)
    BY <1>2, <1>3, SWrapPeriodic DEF m
  <1> QED
    BY <1>1, <1>4, SignedIsWrapped

(* Sums and differences of signed numbers.                                  *)
LEMMA SignedSums ==
    ASSUME NEW a \in Words, NEW b \in Words
    PROVE  /\ SignedVal(Add(a, b)) = Rep!SWrap(SignedVal(a) + SignedVal(b))
           /\ SignedVal(Sub(a, b)) = Rep!SWrap(SignedVal(a) - SignedVal(b))
  <1> DEFINE m == 2 * Top
             u == SignedVal(a)
             v == SignedVal(b)
  <1>1. /\ Add(a, b) \in Words /\ Val(Add(a, b)) = Rep!UWrap(Val(a) + Val(b))
        /\ Sub(a, b) \in Words /\ Val(Sub(a, b)) = Rep!UWrap(Val(a) - Val(b))
    BY AddValue, SubValue, HalvesAreExact, HalfSizeType
  <1>2. /\ u \in Int /\ v \in Int /\ Val(a) \in Int /\ Val(b) \in Int
        /\ \E k \in {0, -1} : u = Val(a) + k * m
        /\ \E k \in {0, -1} : v = Val(b) + k * m
    BY SignedIsWrapped
  <1>3. m \in Int
    BY TopFacts
  <1> HIDE DEF m, u, v
  <1>4. PICK k \in {0, -1} : u = Val(a) + k * m
    BY <1>2
  <1>5. PICK l \in {0, -1} : v = Val(b) + l * m
    BY <1>2
  <1>6. /\ u + v = (Val(a) + Val(b)) + (k + l) * m
        /\ u - v = (Val(a) - Val(b)) + (k - l) * m
        /\ k + l \in Int /\ k - l \in Int /\ Val(a) + Val(b) \in Int /\ Val(a) - Val(b) \in Int
    <2> DEFINE s == k * m
               t == l * m
    <2>1. s \in Int /\ t \in Int /\ (k + l) * m = s + t /\ (k - l) * m = s - t
      BY <1>3
    <2>2. u = Val(a) + s /\ v = Val(b) + t
      BY <1>4, <1>5
    <2> HIDE DEF s, t
    <2> QED
      BY <1>2, <2>1, <2>2
  <1>7. Rep!SWrap(u + v) = Rep!SWrap(Val(a) + Val(b)) /\ Rep!SWrap(u - v) = Rep!SWrap(Val(a) - Val(b))
    BY <1>6, SWrapPeriodic DEF m
  <1>8. /\ SignedVal(Add(a, b)) = Rep!SWrap(Val(a) + Val(b))
        /\ SignedVal(Sub(a, b)) = Rep!SWrap(Val(a) - Val(b))
    BY <1>1, <1>6, WrappedResult
  <1> QED
    BY <1>7, <1>8 DEF u, v

(* Int256.compare orders words as the signed numbers they stand for.        *)
LEMMA SignedOrder ==
    ASSUME NEW a \in Words, NEW b \in Words
    PROVE  SignedCompare(a, b) < 0 <=> SignedVal(a) < SignedVal(b)
  <1>1. /\ Val(a) \in 0..(2 * Top - 1) /\ Val(b) \in 0..(2 * Top - 1) /\ Top \in Nat \ {0}
        /\ IsNeg(a) <=> Val(a) >= Top
        /\ IsNeg(b) <=> Val(b) >= Top
        /\ SignedVal(a) = IF Val(a) >= Top THEN Val(a) - 2 * Top ELSE Val(a)
        /\ SignedVal(b) = IF Val(b) >= Top THEN Val(b) - 2 * Top ELSE Val(b)
    BY SignBit, TopFacts
  <1>2. Compare(a, b) < 0 <=> Val(a) < Val(b)
    BY HalvesAreExact
  <1> QED
    BY <1>1, <1>2 DEF SignedCompare

-----------------------------------------------------------------------------
(* Long multiplication. *)

(* A digit has at least two bits: five digits add up to less than a half.   *)
LEMMA DigitSize ==
    /\ Base \in Nat /\ Base >= 4 /\ HalfSize = Base * Base /\ HalfSize \in Nat \ {0}
    /\ 5 * (Base - 1) < HalfSize /\ 2^DigitBits = Base
  <1>1. DigitBits - 2 \in Nat /\ DigitBits = (DigitBits - 2) + 2
    BY DigitBitsAssumption
  <1> DEFINE k == DigitBits - 2
             p == 2^k
  <1>2. p \in Nat \ {0} /\ 2^2 = 4 /\ 2^(k + 2) = p * 2^2
    <2>1. k \in Nat /\ 2 \in Nat
      BY <1>1
    <2>2. 2^2 = 4
      OBVIOUS
    <2> HIDE DEF k
    <2>3. p \in Nat \ {0}
      BY <2>1, PowerType
    <2>4. 2^(k + 2) = p * 2^2
      BY <2>1, PowerOfSum
    <2> QED
      BY <2>2, <2>3, <2>4
  <1>3. Base = p * 4
    BY <1>1, <1>2 DEF Base
  <1> HIDE DEF p
  <1>4. Base \in Nat /\ Base >= 4
    BY <1>2, <1>3
  <1>5. HalfSize = Base * Base
    BY DEF HalfSize
  <1>6. 5 * (Base - 1) < Base * Base
    <2> DEFINE b == Base
    <2>1. b \in Nat /\ b >= 4
      BY <1>4
    <2> HIDE DEF b
    <2>2. CASE b = 4
      BY <2>2 DEF b
    <2>3. CASE b >= 5
      <3>1. b * b >= 5 * b
        BY <2>3, <2>1
      <3> QED
        BY <2>1, <3>1 DEF b
    <2> QED
      BY <2>1, <2>2, <2>3
  <1>7. HalfSize \in Nat \ {0}
    BY HalfSizeType
  <1> QED
    BY <1>4, <1>5, <1>6, <1>7 DEF Base

(* A product of digits and a digit carried do not leave a half. *)
LEMMA DigitProduct ==
    ASSUME NEW u \in 0..(Base - 1), NEW v \in 0..(Base - 1), NEW c \in 0..(Base - 1)
    PROVE  /\ Times(u, v) = u * v /\ Plus(c, u * v) = u * v + c
           /\ u * v \in Nat /\ u * v + c \in 0..(HalfSize - 1)
  <1> DEFINE p == u * v
             size == HalfSize
             last == Base - 1
  <1>1. Base \in Nat /\ Base >= 4 /\ size = Base * Base /\ size \in Nat \ {0}
    BY DigitSize
  <1>2. p \in Nat /\ p <= last * last
    <2>1. u \in Nat /\ v \in Nat /\ last \in Nat /\ u <= last /\ v <= last
      BY <1>1
    <2> HIDE DEF last
    <2> QED
      BY <2>1
  <1>3. last * last = size - Base - Base + 1
    BY <1>1
  <1>4. p + c \in 0..(size - 1) /\ p \in 0..(size - 1) /\ c \in Nat
    <2> HIDE DEF p, size
    <2> QED
      BY <1>1, <1>2, <1>3
  <1> HIDE DEF p, size
  <1>5. p % size = p /\ (c + p) % size = p + c
    BY <1>1, <1>4
  <1> QED
    BY <1>2, <1>4, <1>5 DEF p, size, Times, Plus

(* The digits of a half. *)
LEMMA DigitsOfHalf ==
    ASSUME NEW h \in 0..(HalfSize - 1)
    PROVE  /\ GetLow(h) \in 0..(Base - 1) /\ GetHigh(h) \in 0..(Base - 1)
           /\ h = GetHigh(h) * Base + GetLow(h)
  <1>1. Base \in Nat /\ Base >= 4 /\ HalfSize = Base * Base /\ h \in Nat
    BY DigitSize
  <1> DEFINE q == h \div Base
             r == h % Base
  <1>2. q \in Nat /\ r \in 0..(Base - 1) /\ h = q * Base + r
    <2>1. Base \in Nat \ {0}
      BY <1>1
    <2> QED
      BY <1>1, <2>1, Euclid
  <1> HIDE DEF q, r
  <1>3. q < Base
    <2> SUFFICES ASSUME q >= Base
                 PROVE  FALSE
      BY <1>1, <1>2
    <2> DEFINE p == q * Base
               s == Base * Base
    <2>1. p >= s /\ p \in Nat /\ s \in Nat
      BY <1>1, <1>2
    <2>2. h = p + r /\ h < s
      BY <1>1, <1>2
    <2> HIDE DEF p, s
    <2> QED
      BY <1>2, <2>1, <2>2
  <1>4. q \in 0..(Base - 1) /\ r \in 0..(Base - 1) /\ h = q * Base + r
    BY <1>1, <1>2, <1>3
  <1> QED
    BY <1>4, Zenon DEF q, r, GetLow, GetHigh

(* The digits of a word, and the number they are the digits of. *)
LEMMA DigitsOfWord ==
    ASSUME NEW w \in Words
    PROVE  /\ \A i \in 0..3 : Digit(w, i) \in 0..(Base - 1)
           /\ Val(w) = ((Digit(w, 3) * Base + Digit(w, 2)) * Base + Digit(w, 1)) * Base + Digit(w, 0)
  <1>1. w.low \in 0..(HalfSize - 1) /\ w.high \in 0..(HalfSize - 1)
    BY DEF Words, Halves
  <1>2. /\ GetLow(w.low) \in 0..(Base - 1) /\ GetHigh(w.low) \in 0..(Base - 1)
        /\ GetLow(w.high) \in 0..(Base - 1) /\ GetHigh(w.high) \in 0..(Base - 1)
        /\ w.low = GetHigh(w.low) * Base + GetLow(w.low)
        /\ w.high = GetHigh(w.high) * Base + GetLow(w.high)
    BY <1>1, DigitsOfHalf
  <1>3. /\ Digit(w, 0) = GetLow(w.low) /\ Digit(w, 1) = GetHigh(w.low)
        /\ Digit(w, 2) = GetLow(w.high) /\ Digit(w, 3) = GetHigh(w.high)
    BY DEF Digit
  <1>4. \A i \in 0..3 : i = 0 \/ i = 1 \/ i = 2 \/ i = 3
    OBVIOUS
  <1>5. \A i \in 0..3 : Digit(w, i) \in 0..(Base - 1)
    BY <1>2, <1>3, <1>4
  <1>6. Base \in Nat /\ HalfSize = Base * Base
    BY DigitSize
  <1>7. Val(w) = w.high * (Base * Base) + w.low
    BY <1>6 DEF Val
  <1> DEFINE d0 == Digit(w, 0)
             d1 == Digit(w, 1)
             d2 == Digit(w, 2)
             d3 == Digit(w, 3)
  <1>8. d0 \in Int /\ d1 \in Int /\ d2 \in Int /\ d3 \in Int
    BY <1>4, <1>5
  <1>9. Val(w) = (d3 * Base + d2) * (Base * Base) + (d1 * Base + d0)
    BY <1>2, <1>3, <1>7
  <1> HIDE DEF d0, d1, d2, d3
  <1>10. (d3 * Base + d2) * (Base * Base) + (d1 * Base + d0)
         = ((d3 * Base + d2) * Base + d1) * Base + d0
    BY <1>6, <1>8
  <1>11. Val(w) = ((d3 * Base + d2) * Base + d1) * Base + d0
    BY <1>9, <1>10
  <1> QED
    BY <1>5, <1>11 DEF d0, d1, d2, d3

(* A recursive function of at most four values. *)
LEMMA FourSteps ==
    ASSUME NEW n \in 0..3, NEW base \in Nat, NEW F \in [1..3 -> [Nat -> Nat]]
    PROVE  \E g \in [0..n -> Nat] :
              /\ g[0] = base
              /\ \A k \in 1..n : g[k] = F[k][g[k - 1]]
  <1> DEFINE e1 == F[1][base]
             e2 == F[2][e1]
             e3 == F[3][e2]
             g == [k \in 0..n |-> IF k = 0 THEN base ELSE IF k = 1 THEN e1 ELSE IF k = 2 THEN e2 ELSE e3]
  <1>1. e1 \in Nat /\ e2 \in Nat /\ e3 \in Nat
    OBVIOUS
  <1>2. ASSUME NEW k \in 1..n
        PROVE  g[k] = F[k][g[k - 1]]
    <2>1. k = 1 \/ k = 2 \/ k = 3
      OBVIOUS
    <2>2. k - 1 \in 0..n /\ k \in 0..n
      OBVIOUS
    <2> HIDE DEF e1, e2, e3
    <2>3. CASE k = 1
      BY <2>2, <2>3 DEF e1
    <2>4. CASE k = 2
      BY <2>2, <2>4 DEF e2
    <2>5. CASE k = 3
      BY <2>2, <2>5 DEF e3
    <2> QED
      BY <2>1, <2>3, <2>4, <2>5
  <1>3. g \in [0..n -> Nat] /\ g[0] = base
    <2> HIDE DEF e1, e2, e3
    <2> QED
      BY <1>1
  <1> HIDE DEF g
  <1> QED
    BY <1>2, <1>3

(* A row: each digit of a times digit j of b, with the carry from the right.*)
LEMMA RowDigits ==
    ASSUME NEW a \in Words, NEW b \in Words, NEW j \in 0..3
    PROVE  \A k \in 0..(3 - j) :
              /\ Row(a, b, j)[k] \in 0..(HalfSize - 1)
              /\ Row(a, b, j)[k] = Digit(b, j) * Digit(a, k)
                                     + (IF k = 0 THEN 0 ELSE GetHigh(Row(a, b, j)[k - 1]))
  <1> DEFINE n == 3 - j
             product(k) == Times(Digit(b, j), Digit(a, k))
             base == product(0)
             F == [k \in 1..3 |-> [z \in Nat |-> Plus(GetHigh(z), product(k))]]
             s == Row(a, b, j)
  <1>1. n \in 0..3 /\ 0 \in 0..n /\ HalfSize \in Nat \ {0} /\ Base \in Nat \ {0}
    BY DigitSize
  <1>2. \A k \in 0..3 : Digit(b, j) \in 0..(Base - 1) /\ Digit(a, k) \in 0..(Base - 1)
    BY DigitsOfWord
  <1>3. ASSUME NEW k \in 0..3, NEW c \in 0..(Base - 1)
        PROVE  /\ product(k) = Digit(b, j) * Digit(a, k)
               /\ product(k) \in 0..(HalfSize - 1)
               /\ Plus(c, product(k)) = Digit(b, j) * Digit(a, k) + c
               /\ Plus(c, product(k)) \in 0..(HalfSize - 1)
    <2>1. 0 \in 0..(Base - 1)
      BY <1>1
    <2>2. /\ Times(Digit(b, j), Digit(a, k)) = Digit(b, j) * Digit(a, k)
          /\ Plus(c, Digit(b, j) * Digit(a, k)) = Digit(b, j) * Digit(a, k) + c
          /\ Digit(b, j) * Digit(a, k) + c \in 0..(HalfSize - 1)
          /\ Digit(b, j) * Digit(a, k) + 0 \in 0..(HalfSize - 1)
          /\ Digit(b, j) * Digit(a, k) \in Nat
      BY <1>2, <2>1, DigitProduct
    <2> DEFINE p == Digit(b, j) * Digit(a, k)
    <2> HIDE DEF p
    <2> QED
      BY <2>2 DEF p
  <1>4. base \in Nat /\ F \in [1..3 -> [Nat -> Nat]]
    <2>1. \A k \in 0..3 : product(k) \in Nat
      <3>1. 0 \in 0..(Base - 1)
        BY <1>1
      <3> HIDE DEF product
      <3> QED
        BY <1>1, <1>3, <3>1
    <2> HIDE DEF product
    <2>2. ASSUME NEW k \in 1..3, NEW z \in Nat
          PROVE  Plus(GetHigh(z), product(k)) \in Nat
      <3>1. product(k) \in Nat
        BY <2>1
      <3>2. GetHigh(z) \in Nat
        BY <1>1 DEF GetHigh
      <3> QED
        BY <1>1, <3>1, <3>2 DEF Plus
    <2> QED
      BY <2>1, <2>2
  <1> HIDE DEF product
  <1>5. PICK g \in [0..n -> Nat] : g[0] = base /\ \A k \in 1..n : g[k] = F[k][g[k - 1]]
    <2>1. n \in 0..3
      BY <1>1
    <2> HIDE DEF n, base, F
    <2> QED
      BY <1>4, <2>1, FourSteps, Zenon
  <1>6. ASSUME NEW k \in 0..n
        PROVE  g[k] = IF k = 0 THEN product(k) ELSE Plus(GetHigh(g[k - 1]), product(k))
    <2>1. CASE k = 0
      BY <1>5, <2>1
    <2>2. CASE k # 0
      <3>1. k \in 1..n /\ k \in 1..3 /\ k - 1 \in 0..n
        BY <2>2
      <3>2. g[k - 1] \in Nat
        BY <3>1
      <3> QED
        BY <1>5, <2>2, <3>1, <3>2
    <2> QED
      BY <2>1, <2>2
  <1>7. g = [k \in 0..n |-> IF k = 0 THEN product(k) ELSE Plus(GetHigh(g[k - 1]), product(k))]
    BY <1>6
  <1>8. s = [k \in 0..n |-> IF k = 0 THEN product(k) ELSE Plus(GetHigh(s[k - 1]), product(k))]
    <2> DEFINE Unfolds(h) ==
                 h = [k \in 0..n |-> IF k = 0 THEN product(k) ELSE Plus(GetHigh(h[k - 1]), product(k))]
    <2>1. s = CHOOSE h : Unfolds(h)
      BY Zenon DEF Row, product
    <2>2. Unfolds(g)
      BY <1>7
    <2> HIDE DEF Unfolds, s
    <2>3. Unfolds(s)
      BY <2>1, <2>2, Zenon
    <2> QED
      BY <2>3 DEF Unfolds
  <1> DEFINE Good(k) == /\ s[k] \in 0..(HalfSize - 1)
                        /\ s[k] = Digit(b, j) * Digit(a, k)
                                   + (IF k = 0 THEN 0 ELSE GetHigh(s[k - 1]))
  <1> HIDE DEF s
  <1>9. Good(0)
    <2>1. s[0] = product(0)
      BY <1>1, <1>8
    <2>2. 0 \in 0..(Base - 1) /\ 0 \in 0..3
      BY <1>1
    <2>3. product(0) = Digit(b, j) * Digit(a, 0) /\ product(0) \in 0..(HalfSize - 1)
      BY <1>3, <2>2
    <2>4. product(0) + 0 = product(0)
      BY <1>1, <2>3
    <2> QED
      BY <2>1, <2>3, <2>4
  <1>10. ASSUME NEW k \in 1..n, Good(k - 1)
         PROVE  Good(k)
    <2>1. k \in 0..n /\ k \in 0..3 /\ k # 0 /\ k - 1 \in 0..n
      OBVIOUS
    <2>2. s[k] = Plus(GetHigh(s[k - 1]), product(k))
      BY <1>8, <2>1
    <2>3. GetHigh(s[k - 1]) \in 0..(Base - 1)
      BY <1>10, DigitsOfHalf
    <2> QED
      BY <1>3, <2>1, <2>2, <2>3
  <1> HIDE DEF Good
  <1>11. ASSUME NEW k \in 0..n
         PROVE  Good(k)
    <2>1. k = 0 \/ k = 1 \/ k = 2 \/ k = 3
      OBVIOUS
    <2>2. 1 \in 1..n => Good(1)
      <3>1. 1 - 1 = 0
        OBVIOUS
      <3> QED
        BY <1>9, <1>10, <3>1
    <2>3. 2 \in 1..n => Good(2)
      <3>1. 2 - 1 = 1 /\ (2 \in 1..n => 1 \in 1..n)
        OBVIOUS
      <3> QED
        BY <1>10, <2>2, <3>1
    <2>4. 3 \in 1..n => Good(3)
      <3>1. 3 - 1 = 2 /\ (3 \in 1..n => 2 \in 1..n)
        OBVIOUS
      <3> QED
        BY <1>10, <2>3, <3>1
    <2>5. k # 0 => k \in 1..n
      OBVIOUS
    <2> QED
      BY <1>9, <2>1, <2>2, <2>3, <2>4, <2>5
  <1> QED
    BY <1>11 DEF Good, s

(* What Mul adds up in a column of the result, without the carry. *)
Rows(a, b) == [j \in 0..3 |-> Row(a, b, j)]

Column(a, b, n) ==
    FoldLeft(LAMBDA sum, j : Plus(sum, GetLow(Rows(a, b)[j - 1][n + 1 - j])),
             0, [j \in 1..(n + 1) |-> j])

(* The part of row j in column n. *)
Part(a, b, n, j) == IF j <= n THEN GetLow(Row(a, b, j)[n - j]) ELSE 0

(* What row j adds to a column. *)
LEMMA PartIsDigit ==
    ASSUME NEW a \in Words, NEW b \in Words, NEW n \in 0..3, NEW j \in 0..3
    PROVE  Part(a, b, n, j) \in 0..(Base - 1)
  <1>1. CASE j <= n
    <2>1. n - j \in 0..(3 - j)
      BY <1>1
    <2>2. Row(a, b, j)[n - j] \in 0..(HalfSize - 1)
      BY <2>1, RowDigits
    <2> QED
      BY <1>1, <2>2, DigitsOfHalf DEF Part
  <1>2. CASE ~(j <= n)
    BY <1>2, DigitSize DEF Part
  <1> QED
    BY <1>1, <1>2

(* A fold over the rows, unrolled. *)
LEMMA ColumnFold ==
    ASSUME NEW a \in Words, NEW b \in Words, NEW n \in 0..3, NEW g \in [0..(n + 1) -> Nat],
           g[0] = 0, \A k \in 1..(n + 1) : g[k] = Plus(g[k - 1], Part(a, b, n, k - 1))
    PROVE  Column(a, b, n) = g[n + 1]
  <1> DEFINE m == n + 1
             seq == [j \in 1..m |-> j]
             term(j) == GetLow(Rows(a, b)[j - 1][n + 1 - j])
             Step == [j \in 1..m |-> [z \in Nat |-> Plus(z, term(j))]]
             Folds(h) == h = [S \in SUBSET (DOMAIN seq) |->
                        IF S = {} THEN 0 ELSE Plus(h[S \ {Max(S)}], term(seq[Max(S)]))]
             iter == CHOOSE h : Folds(h)
  <1>1. Column(a, b, n) = iter[DOMAIN seq]
    BY DEF Column, FoldLeft, MapThenFoldSet
  <1>2. ASSUME NEW j \in 1..m
        PROVE  term(j) = Part(a, b, n, j - 1) /\ term(j) \in Nat
    <2>1. j - 1 \in 0..3 /\ j - 1 <= n /\ n + 1 - j = n - (j - 1)
      OBVIOUS
    <2>2. Rows(a, b)[j - 1] = Row(a, b, j - 1)
      BY <2>1 DEF Rows
    <2>3. term(j) = Part(a, b, n, j - 1)
      BY <2>1, <2>2 DEF Part
    <2>4. Part(a, b, n, j - 1) \in 0..(Base - 1)
      BY <2>1, PartIsDigit
    <2> HIDE DEF term
    <2> QED
      BY <2>3, <2>4, DigitSize
  <1>3. m \in Nat /\ 0 \in Nat /\ seq \in [1..m -> 1..m] /\ DOMAIN seq = 1..m
    OBVIOUS
  <1>4. \A z \in Nat, y0 \in Nat : Plus(z, y0) \in Nat
    BY DigitSize DEF Plus
  <1> HIDE DEF term
  <1>5. Step \in [1..m -> [Nat -> Nat]]
    <2> HIDE DEF m
    <2> QED
      BY <1>2, <1>4
  <1>6. \A j \in 1..m, z \in Nat : Step[j][z] = Plus(z, term(j))
    OBVIOUS
  <1> HIDE DEF Step, iter, m
  <1>7. PICK it : Iterates(it, Nat, Step, 0, m, seq)
    <2> HIDE DEF seq
    <2> QED
      BY <1>3, <1>5, LeftFoldExists
  <1>8. \A S \in SUBSET (1..m) :
           it[S] = IF S = {} THEN 0 ELSE Plus(it[S \ {Max(S)}], term(seq[Max(S)]))
    <2> SUFFICES ASSUME NEW S \in SUBSET (1..m), S # {}
                 PROVE  it[S] = Plus(it[S \ {Max(S)}], term(seq[Max(S)]))
      BY <1>7 DEF Iterates
    <2>1. Max(S) \in S /\ S \ {Max(S)} \in SUBSET (1..m)
      BY <1>3, MaxOfSubset
    <2>2. seq[Max(S)] \in 1..m /\ it[S \ {Max(S)}] \in Nat
      BY <1>3, <1>7, <2>1 DEF Iterates
    <2>3. it[S] = Step[seq[Max(S)]][it[S \ {Max(S)}]]
      BY <1>7 DEF Iterates
    <2> QED
      BY <1>6, <2>2, <2>3
  <1>9. Folds(it)
    BY <1>3, <1>7, <1>8 DEF Iterates
  <1>10. Folds(iter)
    <2> HIDE DEF Folds
    <2> QED
      BY <1>9, Zenon DEF iter
  <1>11. iter[{}] = 0
    BY <1>10
  <1>12. ASSUME NEW k \in 1..m, iter[1..(k - 1)] \in Nat
         PROVE  iter[1..k] = Step[seq[k]][iter[1..(k - 1)]]
    <2>1. Max(1..k) = k /\ (1..k) \ {k} = 1..(k - 1) /\ 1..k # {}
      <3>1. k \in Nat \ {0}
        BY <1>3
      <3> QED
        BY <3>1, MaxOfInterval
    <2>2. 1..k \in SUBSET (DOMAIN seq)
      BY <1>3
    <2>3. iter[1..k] = Plus(iter[(1..k) \ {Max(1..k)}], term(seq[Max(1..k)]))
      BY <1>10, <2>1, <2>2
    <2>4. iter[1..k] = Plus(iter[1..(k - 1)], term(seq[k]))
      BY <2>1, <2>3
    <2>5. seq[k] = k
      OBVIOUS
    <2> QED
      BY <1>6, <1>12, <2>4, <2>5
  <1>13. \A k \in 1..m : g[k] = Step[seq[k]][g[k - 1]]
    <2> SUFFICES ASSUME NEW k \in 1..m
                 PROVE  g[k] = Step[seq[k]][g[k - 1]]
      OBVIOUS
    <2>1. k - 1 \in 0..m /\ g[k - 1] \in Nat
      BY <1>3 DEF m
    <2>2. g[k] = Plus(g[k - 1], Part(a, b, n, k - 1))
      BY DEF m
    <2> QED
      BY <1>2, <1>6, <2>1, <2>2
  <1>14. Extends(iter, Nat, Step, 0, m, seq) /\ Accumulates(g, Nat, Step, 0, m, seq)
    BY <1>11, <1>12, <1>13 DEF Extends, Accumulates, m
  <1>15. iter[1..m] = g[m]
    <2> HIDE DEF seq
    <2> QED
      BY <1>3, <1>14, LeftFoldIntervals
  <1> QED
    BY <1>1, <1>3, <1>15 DEF m

(* A column is the sum of its digits: adding them leaves no half. *)
LEMMA ColumnIs ==
    ASSUME NEW a \in Words, NEW b \in Words, NEW n \in 0..3
    PROVE  Column(a, b, n) = Part(a, b, n, 0) + Part(a, b, n, 1) + Part(a, b, n, 2) + Part(a, b, n, 3)
  <1> DEFINE t0 == Part(a, b, n, 0)
             t1 == Part(a, b, n, 1)
             t2 == Part(a, b, n, 2)
             t3 == Part(a, b, n, 3)
             g == [i \in 0..(n + 1) |-> IF i = 0 THEN 0 ELSE IF i = 1 THEN t0 ELSE IF i = 2 THEN t0 + t1
                                        ELSE IF i = 3 THEN t0 + t1 + t2 ELSE t0 + t1 + t2 + t3]
  <1>1. /\ t0 \in 0..(Base - 1) /\ t1 \in 0..(Base - 1) /\ t2 \in 0..(Base - 1) /\ t3 \in 0..(Base - 1)
        /\ (n < 1 => t1 = 0) /\ (n < 2 => t2 = 0) /\ (n < 3 => t3 = 0)
    <2>1. 0 \in 0..3 /\ 1 \in 0..3 /\ 2 \in 0..3 /\ 3 \in 0..3
      OBVIOUS
    <2>2. (n < 1 => ~(1 <= n)) /\ (n < 2 => ~(2 <= n)) /\ (n < 3 => ~(3 <= n))
      OBVIOUS
    <2>3. (n < 1 => t1 = 0) /\ (n < 2 => t2 = 0) /\ (n < 3 => t3 = 0)
      BY <2>2, Zenon DEF Part
    <2> QED
      BY <2>1, <2>3, PartIsDigit
  <1>2. Base \in Nat /\ 5 * (Base - 1) < HalfSize /\ HalfSize \in Nat
    BY DigitSize
  <1>3. \A k \in 1..(n + 1) : k = 1 \/ k = 2 \/ k = 3 \/ k = 4
    OBVIOUS
  <1>4. \A z \in Nat, w \in Nat : z + w < HalfSize => Plus(z, w) = z + w
    BY DigitSize DEF Plus
  <1>5. ASSUME NEW k \in 1..(n + 1)
        PROVE  g[k] = Plus(g[k - 1], Part(a, b, n, k - 1))
    <2>1. k \in 0..(n + 1) /\ k - 1 \in 0..(n + 1)
      OBVIOUS
    <2>2. CASE k = 1
      <3>1. k - 1 = 0 /\ g[k] = t0 /\ g[k - 1] = 0 /\ Part(a, b, n, k - 1) = t0
        BY <2>1, <2>2
      <3> HIDE DEF t0, g
      <3> QED
        BY <1>1, <1>2, <1>4, <3>1
    <2>3. CASE k = 2
      <3>1. k - 1 = 1 /\ g[k] = t0 + t1 /\ g[k - 1] = t0 /\ Part(a, b, n, k - 1) = t1
        BY <2>1, <2>3
      <3> HIDE DEF t0, t1, g
      <3> QED
        BY <1>1, <1>2, <1>4, <3>1
    <2>4. CASE k = 3
      <3>1. k - 1 = 2 /\ g[k] = t0 + t1 + t2 /\ g[k - 1] = t0 + t1 /\ Part(a, b, n, k - 1) = t2
        BY <2>1, <2>4
      <3> HIDE DEF t0, t1, t2, g
      <3> QED
        BY <1>1, <1>2, <1>4, <3>1
    <2>5. CASE k = 4
      <3>1. k - 1 = 3 /\ g[k] = t0 + t1 + t2 + t3 /\ g[k - 1] = t0 + t1 + t2 /\ Part(a, b, n, k - 1) = t3
        BY <2>1, <2>5
      <3> HIDE DEF t0, t1, t2, t3, g
      <3> QED
        BY <1>1, <1>2, <1>4, <3>1
    <2> QED
      BY <1>3, <2>2, <2>3, <2>4, <2>5
  <1>6. g \in [0..(n + 1) -> Nat] /\ g[0] = 0 /\ g[n + 1] = t0 + t1 + t2 + t3
    <2> HIDE DEF t0, t1, t2, t3
    <2> QED
      BY <1>1, <1>2
  <1> HIDE DEF g
  <1>7. Column(a, b, n) = g[n + 1]
    BY <1>5, <1>6, ColumnFold
  <1> QED
    BY <1>6, <1>7

(* Two digits make a half. *)
LEMMA HalfOfDigits ==
    ASSUME NEW m \in 0..(HalfSize - 1), NEW n \in 0..(HalfSize - 1)
    PROVE  /\ HighLow(m, n) = GetLow(m) * Base + GetLow(n)
           /\ HighLow(m, n) \in 0..(HalfSize - 1)
  <1> DEFINE q == GetHigh(m)
             l == GetLow(m)
             r == GetLow(n)
             p == l * Base
  <1>1. /\ q \in 0..(Base - 1) /\ l \in 0..(Base - 1) /\ r \in 0..(Base - 1)
        /\ m = q * Base + l
    BY DigitsOfHalf
  <1>2. /\ Base \in Nat /\ Base >= 4 /\ HalfSize = Base * Base /\ HalfSize \in Nat \ {0}
        /\ 2^DigitBits = Base
    BY DigitSize
  <1>3. HighLow(m, n) = (((m * Base) % HalfSize) + r) % HalfSize
    BY <1>2 DEF HighLow, ShiftHalfLeft, Plus
  <1> HIDE DEF q, l, r
  <1>4. p \in Nat /\ p + r < HalfSize
    <2>1. l * Base <= (Base - 1) * Base /\ l * Base \in Nat
      BY <1>1, <1>2
    <2>2. (Base - 1) * Base = HalfSize - Base
      BY <1>2
    <2> QED
      BY <1>1, <1>2, <2>1, <2>2
  <1>5. (m * Base) % HalfSize = p
    <2> DEFINE s == m * Base
               size == HalfSize
    <2>1. s = q * size + p
      BY <1>1, <1>2
    <2>2. p \in 0..(size - 1) /\ s \in Int /\ q \in Int /\ size \in Nat \ {0}
      BY <1>1, <1>2, <1>4
    <2> HIDE DEF p, s, size
    <2>3. s % size = p
      BY <2>1, <2>2, RemainderIs
    <2> QED
      BY <2>3 DEF s, size
  <1> HIDE DEF p
  <1>6. (p + r) % HalfSize = p + r /\ p + r \in 0..(HalfSize - 1)
    BY <1>1, <1>2, <1>4
  <1> QED
    BY <1>3, <1>5, <1>6 DEF p, l, r

(* The columns with their carries, from the right. *)
LEMMA ResultColumns ==
    ASSUME NEW a \in Words, NEW b \in Words
    PROVE  \E r \in [0..3 -> 0..(HalfSize - 1)] :
              /\ r[0] = Column(a, b, 0)
              /\ \A n \in 1..3 : r[n] = Column(a, b, n) + GetHigh(r[n - 1])
              /\ Mul(a, b) = Word(HighLow(r[3], r[2]), HighLow(r[1], r[0]))
  <1> DEFINE base == Column(a, b, 0)
             F == [k \in 1..3 |-> [z \in Nat |-> Plus(Column(a, b, k), GetHigh(z))]]
             Unfolds(h) == h = [n \in 0..3 |-> IF n = 0 THEN Column(a, b, 0)
                                               ELSE Plus(Column(a, b, n), GetHigh(h[n - 1]))]
             r == CHOOSE h : Unfolds(h)
  <1>1. Base \in Nat \ {0} /\ 5 * (Base - 1) < HalfSize /\ HalfSize \in Nat \ {0}
    BY DigitSize
  <1>2. ASSUME NEW n \in 0..3
        PROVE  Column(a, b, n) \in 0..(4 * (Base - 1))
    <2>1. \A j \in 0..3 : Part(a, b, n, j) \in 0..(Base - 1)
      BY PartIsDigit
    <2>2. /\ Part(a, b, n, 0) \in 0..(Base - 1) /\ Part(a, b, n, 1) \in 0..(Base - 1)
          /\ Part(a, b, n, 2) \in 0..(Base - 1) /\ Part(a, b, n, 3) \in 0..(Base - 1)
      BY <2>1
    <2> QED
      BY <1>1, <2>2, ColumnIs
  <1>3. \A z \in Nat : GetHigh(z) \in Nat
    BY <1>1 DEF GetHigh
  <1>4. base \in Nat /\ F \in [1..3 -> [Nat -> Nat]]
    <2>1. ASSUME NEW k \in 1..3, NEW z \in Nat
          PROVE  Plus(Column(a, b, k), GetHigh(z)) \in Nat
      BY <1>1, <1>2, <1>3 DEF Plus
    <2> QED
      BY <1>1, <1>2, <2>1
  <1>5. PICK g \in [0..3 -> Nat] : g[0] = base /\ \A k \in 1..3 : g[k] = F[k][g[k - 1]]
    <2>1. 3 \in 0..3
      OBVIOUS
    <2> HIDE DEF base, F
    <2> QED
      BY <1>4, <2>1, FourSteps
  <1>6. Unfolds(g)
    <2>1. ASSUME NEW n \in 0..3
          PROVE  g[n] = IF n = 0 THEN Column(a, b, 0) ELSE Plus(Column(a, b, n), GetHigh(g[n - 1]))
      <3>1. CASE n = 0
        BY <1>5, <3>1
      <3>2. CASE n # 0
        <4>1. n \in 1..3 /\ n - 1 \in 0..3
          BY <3>2
        <4>2. g[n - 1] \in Nat
          BY <4>1
        <4> QED
          BY <1>5, <3>2, <4>1, <4>2
      <3> QED
        BY <3>1, <3>2
    <2> QED
      BY <2>1
  <1> HIDE DEF Unfolds
  <1>7. Unfolds(r)
    BY <1>6, Zenon
  <1>8. r = [n \in 0..3 |-> IF n = 0 THEN Column(a, b, 0) ELSE Plus(Column(a, b, n), GetHigh(r[n - 1]))]
    <2> HIDE DEF r
    <2> QED
      BY <1>7 DEF Unfolds
  <1>9. Mul(a, b) = Word(HighLow(r[3], r[2]), HighLow(r[1], r[0]))
    BY Zenon DEF Mul, Column, Rows, Unfolds
  <1> HIDE DEF r
  <1>10. r[0] = Column(a, b, 0) /\ \A n \in 1..3 : r[n] = Plus(Column(a, b, n), GetHigh(r[n - 1]))
    BY <1>8
  <1>11. r[0] \in 0..(HalfSize - 1)
    <2>1. 0 \in 0..3
      OBVIOUS
    <2> QED
      BY <1>1, <1>2, <1>10, <2>1
  <1>12. ASSUME NEW n \in 1..3, r[n - 1] \in 0..(HalfSize - 1)
         PROVE  r[n] \in 0..(HalfSize - 1) /\ r[n] = Column(a, b, n) + GetHigh(r[n - 1])
    <2> DEFINE c == Column(a, b, n)
               t == GetHigh(r[n - 1])
    <2>1. c \in 0..(4 * (Base - 1)) /\ t \in 0..(Base - 1) /\ r[n] = Plus(c, t)
      BY <1>2, <1>10, <1>12, DigitsOfHalf
    <2> HIDE DEF c, t
    <2>2. c + t \in 0..(HalfSize - 1)
      BY <1>1, <2>1
    <2>3. (c + t) % HalfSize = c + t
      BY <1>1, <2>2
    <2>4. r[n] = c + t
      BY <2>1, <2>3 DEF Plus
    <2> QED
      BY <2>2, <2>4 DEF c, t
  <1>13. r[1] \in 0..(HalfSize - 1) /\ r[1] = Column(a, b, 1) + GetHigh(r[1 - 1])
    <2>1. 1 - 1 = 0 /\ 1 \in 1..3
      OBVIOUS
    <2> QED
      BY <1>11, <1>12, <2>1
  <1>14. r[2] \in 0..(HalfSize - 1) /\ r[2] = Column(a, b, 2) + GetHigh(r[2 - 1])
    <2>1. 2 - 1 = 1 /\ 2 \in 1..3
      OBVIOUS
    <2> QED
      BY <1>12, <1>13, <2>1
  <1>15. r[3] \in 0..(HalfSize - 1) /\ r[3] = Column(a, b, 3) + GetHigh(r[3 - 1])
    <2>1. 3 - 1 = 2 /\ 3 \in 1..3
      OBVIOUS
    <2> QED
      BY <1>12, <1>14, <2>1
  <1>16. \A n \in 0..3 : r[n] \in 0..(HalfSize - 1)
    <2>1. \A n \in 0..3 : n = 0 \/ n = 1 \/ n = 2 \/ n = 3
      OBVIOUS
    <2> QED
      BY <1>11, <1>13, <1>14, <1>15, <2>1
  <1>17. r \in [0..3 -> 0..(HalfSize - 1)]
    BY <1>8, <1>16
  <1>18. \A n \in 1..3 : r[n] = Column(a, b, n) + GetHigh(r[n - 1])
    <2>1. \A n \in 1..3 : n = 1 \/ n = 2 \/ n = 3
      OBVIOUS
    <2> QED
      BY <1>13, <1>14, <1>15, <2>1
  <1> QED
    BY <1>9, <1>10, <1>17, <1>18

(* The product of two numbers of four digits, column by column.             *)
LEMMA ProductOfDigits ==
    ASSUME NEW B \in Int,
           NEW a0 \in Int, NEW a1 \in Int, NEW a2 \in Int, NEW a3 \in Int,
           NEW b0 \in Int, NEW b1 \in Int, NEW b2 \in Int, NEW b3 \in Int
    PROVE  (((a3 * B + a2) * B + a1) * B + a0) * (((b3 * B + b2) * B + b1) * B + b0)
           = ((b1 * a3 + b2 * a2 + b3 * a1) + ((b2 * a3 + b3 * a2) + b3 * a3 * B) * B) * (B * B * (B * B))
             + ((((b0 * a3 + b1 * a2 + b2 * a1 + b3 * a0) * B
                + (b0 * a2 + b1 * a1 + b2 * a0)) * B
                + (b0 * a1 + b1 * a0)) * B + b0 * a0)
  OBVIOUS

(* Uint256.mul, digit by digit, is multiplication modulo the number of      *)
(* words.                                                                   *)
LEMMA MulValue ==
    ASSUME NEW a \in Words, NEW b \in Words
    PROVE  Mul(a, b) \in Words /\ Val(Mul(a, b)) = Rep!UWrap(Val(a) * Val(b))
  <1> DEFINE P(j, k) == Digit(b, j) * Digit(a, k)
             H(j, k) == GetHigh(Row(a, b, j)[k])
             L(j, k) == GetLow(Row(a, b, j)[k])
  <1>1. Base \in Nat /\ HalfSize = Base * Base /\ HalfSize \in Nat \ {0}
    BY DigitSize
  <1>2. ASSUME NEW j \in 0..3, NEW k \in 0..(3 - j)
        PROVE  /\ P(j, k) \in Int /\ H(j, k) \in Int /\ L(j, k) \in Int
               /\ P(j, k) + (IF k = 0 THEN 0 ELSE H(j, k - 1)) = H(j, k) * Base + L(j, k)
    <2>1. /\ Row(a, b, j)[k] \in 0..(HalfSize - 1)
          /\ Row(a, b, j)[k] = P(j, k) + (IF k = 0 THEN 0 ELSE H(j, k - 1))
      BY RowDigits
    <2>2. /\ H(j, k) \in 0..(Base - 1) /\ L(j, k) \in 0..(Base - 1)
          /\ Row(a, b, j)[k] = H(j, k) * Base + L(j, k)
      BY <2>1, DigitsOfHalf
    <2>3. P(j, k) \in Int
      <3>1. k \in 0..3
        OBVIOUS
      <3>2. Digit(b, j) \in 0..(Base - 1) /\ Digit(a, k) \in 0..(Base - 1)
        BY <3>1, DigitsOfWord
      <3> QED
        BY <1>1, <3>2
    <2> QED
      BY <1>1, <2>1, <2>2, <2>3
  <1>3. PICK r \in [0..3 -> 0..(HalfSize - 1)] :
              /\ r[0] = Column(a, b, 0)
              /\ \A n \in 1..3 : r[n] = Column(a, b, n) + GetHigh(r[n - 1])
              /\ Mul(a, b) = Word(HighLow(r[3], r[2]), HighLow(r[1], r[0]))
    BY ResultColumns
  <1> DEFINE T(n) == GetHigh(r[n])
             D(n) == GetLow(r[n])
  <1>4. \A n \in 0..3 : /\ T(n) \in 0..(Base - 1) /\ D(n) \in 0..(Base - 1)
                        /\ r[n] = T(n) * Base + D(n)
    BY DigitsOfHalf
  <1>5. /\ Column(a, b, 0) = L(0, 0)
        /\ Column(a, b, 1) = L(0, 1) + L(1, 0)
        /\ Column(a, b, 2) = L(0, 2) + L(1, 1) + L(2, 0)
        /\ Column(a, b, 3) = L(0, 3) + L(1, 2) + L(2, 1) + L(3, 0)
    <2>1. \A n \in 0..3 : Column(a, b, n) = Part(a, b, n, 0) + Part(a, b, n, 1) + Part(a, b, n, 2) + Part(a, b, n, 3)
      BY ColumnIs
    <2>2. \A n \in 0..3, j \in 0..3 : Part(a, b, n, j) = IF j <= n THEN L(j, n - j) ELSE 0
      BY DEF Part
    <2>3. \A j \in 0..3 : \A k \in 0..(3 - j) : L(j, k) \in Int
      BY <1>2
    <2> HIDE DEF L
    <2> QED
      BY <2>1, <2>2, <2>3
  <1>6. /\ P(0, 0) \in Int /\ H(0, 0) \in Int /\ L(0, 0) \in Int
        /\ P(0, 1) \in Int /\ H(0, 1) \in Int /\ L(0, 1) \in Int
        /\ P(0, 2) \in Int /\ H(0, 2) \in Int /\ L(0, 2) \in Int
        /\ P(0, 3) \in Int /\ H(0, 3) \in Int /\ L(0, 3) \in Int
        /\ P(1, 0) \in Int /\ H(1, 0) \in Int /\ L(1, 0) \in Int
        /\ P(1, 1) \in Int /\ H(1, 1) \in Int /\ L(1, 1) \in Int
        /\ P(1, 2) \in Int /\ H(1, 2) \in Int /\ L(1, 2) \in Int
        /\ P(2, 0) \in Int /\ H(2, 0) \in Int /\ L(2, 0) \in Int
        /\ P(2, 1) \in Int /\ H(2, 1) \in Int /\ L(2, 1) \in Int
        /\ P(3, 0) \in Int /\ H(3, 0) \in Int /\ L(3, 0) \in Int
    <2>1. \A j \in 0..3 : \A k \in 0..(3 - j) : P(j, k) \in Int /\ H(j, k) \in Int /\ L(j, k) \in Int
      BY <1>2
    <2> HIDE DEF P, H, L
    <2> QED
      BY <2>1
  <1>7. /\ P(0, 0) = H(0, 0) * Base + L(0, 0)
        /\ P(0, 1) + H(0, 0) = H(0, 1) * Base + L(0, 1)
        /\ P(0, 2) + H(0, 1) = H(0, 2) * Base + L(0, 2)
        /\ P(0, 3) + H(0, 2) = H(0, 3) * Base + L(0, 3)
        /\ P(1, 0) = H(1, 0) * Base + L(1, 0)
        /\ P(1, 1) + H(1, 0) = H(1, 1) * Base + L(1, 1)
        /\ P(1, 2) + H(1, 1) = H(1, 2) * Base + L(1, 2)
        /\ P(2, 0) = H(2, 0) * Base + L(2, 0)
        /\ P(2, 1) + H(2, 0) = H(2, 1) * Base + L(2, 1)
        /\ P(3, 0) = H(3, 0) * Base + L(3, 0)
    <2>1. \A j \in 0..3 : \A k \in 0..(3 - j) :
             P(j, k) + (IF k = 0 THEN 0 ELSE H(j, k - 1)) = H(j, k) * Base + L(j, k)
      BY <1>2
    <2> HIDE DEF P, H, L
    <2>2. \A j \in 0..3 : P(j, 0) + 0 = H(j, 0) * Base + L(j, 0)
      BY <2>1
    <2>3. \A j \in 0..2 : P(j, 1) + H(j, 0) = H(j, 1) * Base + L(j, 1)
      BY <2>1
    <2>4. \A j \in 0..1 : P(j, 2) + H(j, 1) = H(j, 2) * Base + L(j, 2)
      BY <2>1
    <2>5. P(0, 3) + H(0, 2) = H(0, 3) * Base + L(0, 3)
      BY <2>1
    <2> QED
      BY <1>6, <2>2, <2>3, <2>4, <2>5
  <1>8. /\ L(0, 0) = T(0) * Base + D(0)
        /\ L(0, 1) + L(1, 0) + T(0) = T(1) * Base + D(1)
        /\ L(0, 2) + L(1, 1) + L(2, 0) + T(1) = T(2) * Base + D(2)
        /\ L(0, 3) + L(1, 2) + L(2, 1) + L(3, 0) + T(2) = T(3) * Base + D(3)
    <2>1. /\ r[0] = Column(a, b, 0) /\ r[1] = Column(a, b, 1) + T(0)
          /\ r[2] = Column(a, b, 2) + T(1) /\ r[3] = Column(a, b, 3) + T(2)
      BY <1>3
    <2>2. /\ r[0] = T(0) * Base + D(0) /\ r[1] = T(1) * Base + D(1)
          /\ r[2] = T(2) * Base + D(2) /\ r[3] = T(3) * Base + D(3)
      BY <1>4
    <2> HIDE DEF L, T, D
    <2> QED
      BY <1>5, <2>1, <2>2
  <1>9. /\ T(0) \in Int /\ T(1) \in Int /\ T(2) \in Int /\ T(3) \in Int
        /\ D(0) \in 0..(Base - 1) /\ D(1) \in 0..(Base - 1) /\ D(2) \in 0..(Base - 1) /\ D(3) \in 0..(Base - 1)
    BY <1>1, <1>4
  <1> DEFINE result == ((D(3) * Base + D(2)) * Base + D(1)) * Base + D(0)
             sum == (((P(0, 3) + P(1, 2) + P(2, 1) + P(3, 0)) * Base
                       + (P(0, 2) + P(1, 1) + P(2, 0))) * Base + (P(0, 1) + P(1, 0))) * Base + P(0, 0)
             lost == H(0, 3) + H(1, 2) + H(2, 1) + H(3, 0) + T(3)
             all == Base * Base * (Base * Base)
  <1>10. sum = result + lost * all /\ lost \in Int
    <2>1. /\ D(0) \in Int /\ D(1) \in Int /\ D(2) \in Int /\ D(3) \in Int /\ Base \in Int
      BY <1>1, <1>9
    <2> DEFINE g0 == H(0, 0) + T(0)
               g1 == H(0, 1) + H(1, 0) + T(1)
               g2 == H(0, 2) + H(1, 1) + H(2, 0) + T(2)
               c0 == P(0, 0)
               c1 == P(0, 1) + P(1, 0)
               c2 == P(0, 2) + P(1, 1) + P(2, 0)
               c3 == P(0, 3) + P(1, 2) + P(2, 1) + P(3, 0)
               d0 == D(0)
               d1 == D(1)
               d2 == D(2)
               d3 == D(3)
    <2>2. /\ sum = ((c3 * Base + c2) * Base + c1) * Base + c0
          /\ result = ((d3 * Base + d2) * Base + d1) * Base + d0
      OBVIOUS
    <2> HIDE DEF P, H, L, T, D, sum, result, all
    <2>3. /\ g0 \in Int /\ g1 \in Int /\ g2 \in Int /\ lost \in Int
          /\ c0 \in Int /\ c1 \in Int /\ c2 \in Int /\ c3 \in Int
          /\ d0 \in Int /\ d1 \in Int /\ d2 \in Int /\ d3 \in Int
      BY <1>6, <1>9, <2>1
    <2>4. c0 = d0 + g0 * Base
      BY <1>6, <1>7, <1>8, <1>9, <2>1
    <2>5. c1 = d1 + g1 * Base - g0
      BY <1>6, <1>7, <1>8, <1>9, <2>1
    <2>6. c2 = d2 + g2 * Base - g1
      BY <1>6, <1>7, <1>8, <1>9, <2>1
    <2>7. c3 = d3 + lost * Base - g2
      <3> DEFINE p0 == H(0, 3) * Base
                 p1 == H(1, 2) * Base
                 p2 == H(2, 1) * Base
                 p3 == H(3, 0) * Base
                 p4 == T(3) * Base
      <3>1. lost * Base = p0 + p1 + p2 + p3 + p4
        BY <1>6, <1>9, <2>1
      <3>2. p0 \in Int /\ p1 \in Int /\ p2 \in Int /\ p3 \in Int /\ p4 \in Int
        BY <1>6, <1>9, <2>1
      <3>3. /\ P(0, 3) + H(0, 2) = p0 + L(0, 3)
            /\ P(1, 2) + H(1, 1) = p1 + L(1, 2)
            /\ P(2, 1) + H(2, 0) = p2 + L(2, 1)
            /\ P(3, 0) = p3 + L(3, 0)
            /\ L(0, 3) + L(1, 2) + L(2, 1) + L(3, 0) + T(2) = p4 + d3
        BY <1>7, <1>8
      <3>4. g2 = H(0, 2) + H(1, 1) + H(2, 0) + T(2)
        OBVIOUS
      <3>5. c3 = P(0, 3) + P(1, 2) + P(2, 1) + P(3, 0)
        OBVIOUS
      <3> DEFINE q == lost * Base
                 t == T(2)
                 h0 == H(0, 2)
                 h1 == H(1, 1)
                 h2 == H(2, 0)
                 l0 == L(0, 3)
                 l1 == L(1, 2)
                 l2 == L(2, 1)
                 l3 == L(3, 0)
      <3>6. t \in Int /\ h0 \in Int /\ h1 \in Int /\ h2 \in Int
            /\ l0 \in Int /\ l1 \in Int /\ l2 \in Int /\ l3 \in Int
        BY <1>6, <1>9
      <3>7. q = p0 + p1 + p2 + p3 + p4 /\ g2 = h0 + h1 + h2 + t /\ d3 \in Int
        BY <2>3, <3>1, <3>4
      <3>8. l0 + l1 + l2 + l3 + t = p4 + d3
        BY <3>3
      <3>9. c3 = (p0 + l0 - h0) + (p1 + l1 - h1) + (p2 + l2 - h2) + (p3 + l3)
        <4> DEFINE e0 == P(0, 3)
                   e1 == P(1, 2)
                   e2 == P(2, 1)
                   e3 == P(3, 0)
        <4>1. e0 \in Int /\ e1 \in Int /\ e2 \in Int /\ e3 \in Int
          BY <1>6
        <4>2. e0 + h0 = p0 + l0 /\ e1 + h1 = p1 + l1 /\ e2 + h2 = p2 + l2 /\ e3 = p3 + l3
          BY <3>3
        <4>3. c3 = e0 + e1 + e2 + e3
          BY <3>5
        <4> HIDE DEF p0, p1, p2, p3, c3, h0, h1, h2, l0, l1, l2, l3, e0, e1, e2, e3
        <4> QED
          BY <3>2, <3>6, <4>1, <4>2, <4>3
      <3> HIDE DEF p0, p1, p2, p3, p4, q, c3, d3, g2, t, h0, h1, h2, l0, l1, l2, l3
      <3>10. c3 = d3 + q - g2
        BY <3>2, <3>6, <3>7, <3>8, <3>9
      <3> QED
        BY <3>10 DEF q
    <2> HIDE DEF g0, g1, g2, lost, c0, c1, c2, c3, d0, d1, d2, d3
    <2>8. c3 * Base + c2 = (d3 * Base + d2) + (lost * Base) * Base - g1
      BY <2>1, <2>3, <2>6, <2>7
    <2>9. (c3 * Base + c2) * Base + c1
          = ((d3 * Base + d2) * Base + d1) + ((lost * Base) * Base) * Base - g0
      BY <2>1, <2>3, <2>5, <2>8
    <2>10. ((c3 * Base + c2) * Base + c1) * Base + c0
           = (((d3 * Base + d2) * Base + d1) * Base + d0) + (((lost * Base) * Base) * Base) * Base
      BY <2>1, <2>3, <2>4, <2>9
    <2>11. (((lost * Base) * Base) * Base) * Base = lost * (Base * Base * (Base * Base))
      BY <2>1, <2>3
    <2> QED
      BY <2>2, <2>3, <2>10, <2>11 DEF all
  <1>11. \E k \in Int : Val(a) * Val(b) = k * all + sum
    <2> DEFINE a0 == Digit(a, 0)
               a1 == Digit(a, 1)
               a2 == Digit(a, 2)
               a3 == Digit(a, 3)
               b0 == Digit(b, 0)
               b1 == Digit(b, 1)
               b2 == Digit(b, 2)
               b3 == Digit(b, 3)
               k == (b1 * a3 + b2 * a2 + b3 * a1) + ((b2 * a3 + b3 * a2) + b3 * a3 * Base) * Base
    <2>1. /\ a0 \in Int /\ a1 \in Int /\ a2 \in Int /\ a3 \in Int
          /\ b0 \in Int /\ b1 \in Int /\ b2 \in Int /\ b3 \in Int /\ Base \in Int
      BY <1>1, DigitsOfWord
    <2>2. /\ Val(a) = ((a3 * Base + a2) * Base + a1) * Base + a0
          /\ Val(b) = ((b3 * Base + b2) * Base + b1) * Base + b0
      BY DigitsOfWord
    <2>3. sum = (((b0 * a3 + b1 * a2 + b2 * a1 + b3 * a0) * Base
                   + (b0 * a2 + b1 * a1 + b2 * a0)) * Base + (b0 * a1 + b1 * a0)) * Base + b0 * a0
      OBVIOUS
    <2> HIDE DEF a0, a1, a2, a3, b0, b1, b2, b3, sum
    <2>4. k \in Int
      BY <2>1
    <2>5. Val(a) * Val(b) = k * all + sum
      BY <2>1, <2>2, <2>3, ProductOfDigits
    <2> QED
      BY <2>4, <2>5
  <1>12. Mul(a, b) \in Words /\ Val(Mul(a, b)) = result
    <2>1. /\ HighLow(r[3], r[2]) = D(3) * Base + D(2) /\ HighLow(r[3], r[2]) \in 0..(HalfSize - 1)
          /\ HighLow(r[1], r[0]) = D(1) * Base + D(0) /\ HighLow(r[1], r[0]) \in 0..(HalfSize - 1)
      BY HalfOfDigits
    <2>2. Mul(a, b) = [high |-> HighLow(r[3], r[2]), low |-> HighLow(r[1], r[0])]
      BY <1>3 DEF Word
    <2>3. Mul(a, b) \in Words
      BY <2>1, <2>2 DEF Words, Halves
    <2>4. Val(Mul(a, b)) = (D(3) * Base + D(2)) * (Base * Base) + (D(1) * Base + D(0))
      BY <1>1, <2>1, <2>2 DEF Val
    <2> DEFINE d0 == D(0)
               d1 == D(1)
               d2 == D(2)
               d3 == D(3)
    <2>5. d0 \in Int /\ d1 \in Int /\ d2 \in Int /\ d3 \in Int
      BY <1>1, <1>9
    <2> HIDE DEF d0, d1, d2, d3
    <2>6. (d3 * Base + d2) * (Base * Base) + (d1 * Base + d0)
          = ((d3 * Base + d2) * Base + d1) * Base + d0
      BY <1>1, <2>5
    <2> QED
      BY <2>3, <2>4, <2>6 DEF d0, d1, d2, d3
  <1> DEFINE product == Val(a) * Val(b)
  <1>13. all = 2 * Top /\ 2 * Top \in Nat \ {0} /\ Rep!UWrap(product) = product % (2 * Top)
    <2>1. Val(a) \in Int /\ Val(b) \in Int
      BY SignedIsWrapped
    <2>2. product \in Int
      BY <2>1
    <2>3. all = HalfSize * HalfSize
      BY <1>1
    <2> HIDE DEF product, all
    <2> QED
      BY <2>2, <2>3, TopFacts
  <1>14. result \in 0..(all - 1)
    <2>1. Val(Mul(a, b)) \in 0..(2 * Top - 1)
      BY <1>12, SignBit
    <2> HIDE DEF result, all
    <2> QED
      BY <1>12, <1>13, <2>1
  <1> HIDE DEF product, all, sum, result, lost
  <1>15. PICK k \in Int : product = k * all + sum
    BY <1>11 DEF product
  <1>16. product = (k + lost) * all + result
    <2>1. (k + lost) * all = k * all + lost * all
      BY <1>10, <1>13
    <2> DEFINE m == k * all
               n == lost * all
    <2>2. m \in Int /\ n \in Int /\ (k + lost) * all = m + n
      BY <1>10, <1>13, <2>1
    <2>3. product = m + sum /\ sum = result + n /\ result \in Int
      BY <1>10, <1>13, <1>14, <1>15
    <2> HIDE DEF m, n
    <2>4. product = (m + n) + result
      BY <2>2, <2>3
    <2> QED
      BY <2>2, <2>4
  <1>17. product % all = result
    <2> DEFINE q == k + lost
    <2>1. q \in Int /\ product = q * all + result
      BY <1>10, <1>16
    <2>2. product \in Int
      BY <1>13, <1>14, <2>1
    <2> HIDE DEF q
    <2> QED
      BY <1>13, <1>14, <2>1, <2>2, RemainderIs
  <1> QED
    BY <1>12, <1>13, <1>17 DEF product

(* Products of signed numbers: the signs only add multiples of the modulus. *)
LEMMA SignedProduct ==
    ASSUME NEW a \in Words, NEW b \in Words
    PROVE  SignedVal(Mul(a, b)) = Rep!SWrap(SignedVal(a) * SignedVal(b))
  <1> DEFINE m == 2 * Top
             u == SignedVal(a)
             v == SignedVal(b)
             c == Val(a)
             d == Val(b)
             n == c * d
  <1>1. Mul(a, b) \in Words /\ Val(Mul(a, b)) = Rep!UWrap(n)
    BY MulValue
  <1>2. /\ u \in Int /\ v \in Int /\ c \in Int /\ d \in Int
        /\ \E k \in {0, -1} : u = c + k * m
        /\ \E k \in {0, -1} : v = d + k * m
    BY SignedIsWrapped
  <1>3. m \in Int
    BY TopFacts
  <1> HIDE DEF m, u, v, c, d
  <1>4. PICK k \in {0, -1} : u = c + k * m
    BY <1>2
  <1>5. PICK l \in {0, -1} : v = d + l * m
    BY <1>2
  <1> DEFINE extra == c * l + k * d + k * l * m
  <1>6. u * v = n + extra * m /\ extra \in Int /\ n \in Int
    <2>1. (c + k * m) * (d + l * m) = c * d + (c * l + k * d + k * l * m) * m
      BY <1>2, <1>3
    <2>2. n \in Int /\ extra \in Int
      BY <1>2, <1>3
    <2> HIDE DEF n, extra
    <2>3. u * v = (c + k * m) * (d + l * m)
      BY Zenon, <1>4, <1>5
    <2> QED
      BY Zenon, <2>1, <2>2, <2>3 DEF n, extra
  <1> HIDE DEF n, extra
  <1>7. Rep!SWrap(u * v) = Rep!SWrap(n)
    <2> DEFINE p == u * v
    <2>1. p = n + extra * m
      BY <1>6
    <2> HIDE DEF p
    <2>2. Rep!SWrap(p) = Rep!SWrap(n)
      BY <1>6, <2>1, SWrapPeriodic DEF m
    <2> QED
      BY <2>2 DEF p
  <1>8. SignedVal(Mul(a, b)) = Rep!SWrap(n)
    BY <1>1, <1>6, WrappedResult
  <1> QED
    BY <1>7, <1>8 DEF u, v

(* At every width, Uint256 and Int256 are the IntRep that SafeArith.ml is a *)
(* functor over: the sums, differences and products of pairs of halves are  *)
(* those of the numbers they stand for, wrapped as IntRep wraps them, and   *)
(* the two orders are the orders of numbers.                                *)
THEOREM PairsOfHalvesAreIntegers == DivSpec => []ImplementsIntRep
  <1>1. DivInv => ImplementsIntRep
    <2> SUFFICES ASSUME DivInv
                 PROVE  ImplementsIntRep
      OBVIOUS
    <2>1. num \in Words /\ den \in Words
      BY DivInvIs
    <2>2. /\ Val(Add(num, den)) = Rep!UWrap(Val(num) + Val(den))
          /\ Val(Sub(num, den)) = Rep!UWrap(Val(num) - Val(den))
          /\ Compare(num, den) < 0 <=> Val(num) < Val(den)
      BY <2>1, HalvesAreExact
    <2>3. /\ Val(Mul(num, den)) = Rep!UWrap(Val(num) * Val(den))
          /\ SignedVal(Mul(num, den)) = Rep!SWrap(SignedVal(num) * SignedVal(den))
      BY <2>1, MulValue, SignedProduct
    <2>4. /\ SignedVal(Add(num, den)) = Rep!SWrap(SignedVal(num) + SignedVal(den))
          /\ SignedVal(Sub(num, den)) = Rep!SWrap(SignedVal(num) - SignedVal(den))
          /\ SignedCompare(num, den) < 0 <=> SignedVal(num) < SignedVal(den)
      BY <2>1, SignedSums, SignedOrder
    <2> QED
      BY <2>2, <2>3, <2>4 DEF ImplementsIntRep
  <1> QED
    BY <1>1, DivInvInit, DivInvStep, PTL DEF DivSpec

-----------------------------------------------------------------------------
(* Literals. *)

(* divrem as a whole: the rounds of its fold are those of divloop, and the  *)
(* last one leaves no bit undivided.                                        *)
RoundsFrom(it, a, b, n, base) ==
    it = [S \in SUBSET (1..n) |->
             IF S = {} THEN base ELSE DivStep(a, b, it[S \ {Max(S)}])]

LEMMA RoundsExist ==
    ASSUME NEW a, NEW b, NEW n \in Nat, NEW base
    PROVE  \E it : RoundsFrom(it, a, b, n, base)
  <1> DEFINE Good(k, f) == /\ f = [m \in 0..k |-> f[m]] /\ f[0] = base
                           /\ \A m \in 1..k : f[m] = DivStep(a, b, f[m - 1])
             K == {k \in Nat : \E f : Good(k, f)}
  <1>1. 0 \in K
    <2> DEFINE f == [m \in 0..0 |-> base]
    <2>1. Good(0, f)
      OBVIOUS
    <2> QED
      BY <2>1
  <1>2. ASSUME NEW k \in Nat, k \in K
        PROVE  k + 1 \in K
    <2>1. PICK old : Good(k, old)
      BY <1>2
    <2> DEFINE f == [m \in 0..(k + 1) |-> IF m = k + 1 THEN DivStep(a, b, old[k]) ELSE old[m]]
    <2>2. (\A m \in 0..k : f[m] = old[m]) /\ f[k + 1] = DivStep(a, b, old[k])
      OBVIOUS
    <2>3. f = [m \in 0..(k + 1) |-> f[m]]
      OBVIOUS
    <2> HIDE DEF f
    <2>4. ASSUME NEW m \in 1..(k + 1)
          PROVE  f[m] = DivStep(a, b, f[m - 1])
      <3>1. m = k + 1 \/ m \in 1..k
        OBVIOUS
      <3>2. CASE m = k + 1
        <4>1. m - 1 = k /\ k \in 0..k
          BY <3>2
        <4> QED
          BY <2>2, <3>2, <4>1
      <3>3. CASE m \in 1..k
        <4>1. m \in 0..k /\ m - 1 \in 0..k
          BY <3>3
        <4> QED
          BY <2>1, <2>2, <3>3, <4>1
      <3> QED
        BY <3>1, <3>2, <3>3
    <2>5. Good(k + 1, f)
      <3>1. f[0] = base
        BY <2>1, <2>2
      <3> QED
        BY <2>3, <2>4, <3>1
    <2> HIDE DEF Good
    <2> QED
      BY <2>5
  <1>3. PICK f : Good(n, f)
    <2> HIDE DEF Good
    <2>1. n \in K
      <3> HIDE DEF K
      <3> QED
        BY <1>1, <1>2, SetInduction
    <2> QED
      BY <2>1
  <1>4. PICK it : it = [S \in SUBSET (1..n) |-> f[Cardinality(S)]]
    OBVIOUS
  <1>5. ASSUME NEW S \in SUBSET (1..n)
        PROVE  it[S] = IF S = {} THEN base ELSE DivStep(a, b, it[S \ {Max(S)}])
    <2>1. CASE S = {}
      BY <1>3, <1>4, <2>1, FS_EmptySet
    <2>2. CASE S # {}
      <3>1. Max(S) \in S
        BY <2>2, MaxOfSubset
      <3> DEFINE T == S \ {Max(S)}
                 c == Cardinality(S)
      <3>2. T \in SUBSET (1..n)
        OBVIOUS
      <3>3. IsFiniteSet(1..n) /\ Cardinality(1..n) = n
        <4>1. 1 \in Int /\ n \in Int
          OBVIOUS
        <4>2. IsFiniteSet(1..n) /\ Cardinality(1..n) = IF 1 > n THEN 0 ELSE n - 1 + 1
          BY <4>1, FS_Interval
        <4> QED
          BY <4>2
      <3>4. IsFiniteSet(S) /\ c <= n
        BY <3>3, FS_Subset
      <3>5. c \in Nat /\ c # 0 /\ Cardinality(T) = c - 1
        <4>1. c \in Nat /\ (c = 0 <=> S = {})
          BY <3>4, FS_CardinalityType, FS_EmptySet
        <4>2. Cardinality(S \ {Max(S)}) = c - 1
          BY <3>1, <3>4, FS_RemoveElement
        <4> QED
          BY <2>2, <4>1, <4>2
      <3> HIDE DEF T
      <3>6. c \in 1..n
        BY <3>4, <3>5
      <3>7. it[S] = f[c] /\ it[T] = f[c - 1]
        BY <1>4, <3>2, <3>5
      <3> HIDE DEF c
      <3>8. f[c] = DivStep(a, b, f[c - 1])
        BY <1>3, <3>6
      <3> QED
        BY <2>2, <3>7, <3>8 DEF T
    <2> QED
      BY <2>1, <2>2
  <1>6. it = [S \in SUBSET (1..n) |-> it[S]]
    BY <1>4
  <1>7. RoundsFrom(it, a, b, n, base)
    BY <1>5, <1>6 DEF RoundsFrom
  <1> QED
    BY <1>7

LEMMA DivRemDivides ==
    ASSUME NEW a \in Words, NEW b \in Words \ {Zero}
    PROVE  Divided(a, b, DivRem(a, b)) /\ DivRem(a, b).bit = -1
  <1> DEFINE start == Start(a, b)
             n == start.bit + 1
             seq == [m \in 1..n |-> m]
             iter == CHOOSE iter : iter = [S \in SUBSET (DOMAIN seq) |->
                        IF S = {} THEN start ELSE DivStep(a, b, iter[S \ {Max(S)}])]
  <1>1. DivRem(a, b) = iter[DOMAIN seq]
    BY DEF DivRem, FoldLeft, MapThenFoldSet
  <1>2. Divided(a, b, start)
    BY StartDivides
  <1>3. start.bit \in -1..(Bits - 1) /\ n = start.bit + 1 /\ n \in Nat
    BY <1>2, Widths DEF Divided
  <1>4. DOMAIN seq = 1..n
    OBVIOUS
  <1> HIDE DEF start, n, seq
  <1>5. iter = [S \in SUBSET (1..n) |->
                   IF S = {} THEN start ELSE DivStep(a, b, iter[S \ {Max(S)}])]
    <2>1. PICK it : RoundsFrom(it, a, b, n, start)
      BY <1>3, RoundsExist
    <2> QED
      BY <1>4, <2>1 DEF RoundsFrom
  <1> HIDE DEF iter
  <1> DEFINE K == {k \in Nat : k <= n => Divided(a, b, iter[1..k]) /\ iter[1..k].bit = start.bit - k}
  <1>6. 0 \in K
    <2>1. 1..0 = {} /\ {} \in SUBSET (1..n)
      OBVIOUS
    <2>2. iter[1..0] = start
      BY <1>5, <2>1
    <2> QED
      BY <1>2, <1>3, <2>2
  <1>7. ASSUME NEW k \in Nat, k \in K
        PROVE  k + 1 \in K
    <2> SUFFICES ASSUME k + 1 <= n
                 PROVE  /\ Divided(a, b, iter[1..(k + 1)])
                        /\ iter[1..(k + 1)].bit = start.bit - (k + 1)
      OBVIOUS
    <2>1. k + 1 \in Nat \ {0} /\ (k + 1) - 1 = k
      OBVIOUS
    <2>2. Max(1..(k + 1)) = k + 1 /\ (1..(k + 1)) \ {k + 1} = 1..k /\ 1..(k + 1) # {}
      BY <2>1, MaxOfInterval
    <2>3. 1..(k + 1) \in SUBSET (1..n)
      BY <1>3
    <2>4. iter[1..(k + 1)] = DivStep(a, b, iter[1..k])
      BY <1>5, <2>2, <2>3
    <2>5. PICK s : s = iter[1..k]
      OBVIOUS
    <2>6. Divided(a, b, s) /\ s.bit = start.bit - k /\ s.bit >= 0
      BY <1>3, <1>7, <2>5
    <2>7. Divided(a, b, DivStep(a, b, s))
      BY <2>6, RoundDivides
    <2>8. DivStep(a, b, s).bit = s.bit - 1
      BY DEF DivStep
    <2>9. s.bit - 1 = start.bit - (k + 1)
      BY <1>3, <2>6
    <2> QED
      BY <2>4, <2>5, <2>7, <2>8, <2>9
  <1>8. n \in K
    <2> HIDE DEF K
    <2> QED
      BY <1>3, <1>6, <1>7, SetInduction
  <1> QED
    BY <1>1, <1>3, <1>4, <1>8

LEMMA DivRemExact ==
    ASSUME NEW a \in Words, NEW b \in Words \ {Zero}
    PROVE  LET res == DivRem(a, b)
           IN  /\ res.quo \in Words /\ res.rem \in Words
               /\ Val(a) = Val(res.quo) * Val(b) + Val(res.rem)
               /\ Val(res.rem) < Val(b)
  <1> DEFINE res == DivRem(a, b)
             q == Val(res.quo)
             r == Val(res.rem)
  <1>1. Divided(a, b, res) /\ res.bit = -1
    BY DivRemDivides
  <1> HIDE DEF res
  <1>2. res.quo \in Words /\ res.rem \in Words /\ r < Val(b)
    BY <1>1 DEF Divided
  <1>3. Val(a) \in Int /\ q \in Int
    BY <1>2, SignBit
  <1>4. 2^(res.bit + 1) = 1
    BY <1>1, PowerZero, -1 + 1 = 0
  <1>5. Val(a) \div 1 = (q \div 1) * Val(b) + r
    BY <1>1, <1>4 DEF Divided, DividedTo
  <1>6. \A n \in Int : n \div 1 = n
    OBVIOUS
  <1> HIDE DEF q, r
  <1>7. Val(a) = q * Val(b) + r
    BY <1>3, <1>5, <1>6
  <1> QED
    BY <1>2, <1>7 DEF q, r, res

(* Ten and the digits are words. *)
LEMMA SmallWords ==
    /\ HalfSize \in Nat /\ HalfSize >= 16
    /\ Ten \in Words \ {Zero} /\ Val(Ten) = 10
    /\ Zero \in Words /\ Val(Zero) = 0
    /\ \A d \in 0..9 : DigitWord(d) \in Words /\ Val(DigitWord(d)) = d
  <1>1. HalfSize \in Nat /\ HalfSize >= 16
    <2>1. HalfBits - 4 \in Nat /\ HalfBits = (HalfBits - 4) + 4 /\ 4 \in Nat
      BY Widths
    <2>2. 2^HalfBits = 2^(HalfBits - 4) * 2^4 /\ 2^(HalfBits - 4) \in Nat \ {0}
      BY <2>1, PowerOfSum, PowerType
    <2>3. 2^4 = 16
      OBVIOUS
    <2> DEFINE r == 2^(HalfBits - 4)
    <2>4. HalfSize = r * 16 /\ r \in Nat \ {0}
      BY <2>2, <2>3, Widths
    <2> HIDE DEF r
    <2> QED
      BY <2>4
  <1>2. ASSUME NEW n \in 0..10
        PROVE  /\ Word(n \div HalfSize, n % HalfSize) = Word(0, n)
               /\ Word(0, n) \in Words /\ Val(Word(0, n)) = n
    <2>1. PICK size : size = HalfSize
      OBVIOUS
    <2>2. size \in Nat \ {0} /\ n = 0 * size + n /\ n \in 0..(size - 1) /\ n \in Int /\ 0 \in 0..(size - 1)
      BY <1>1, <2>1
    <2>3. n \div size = 0 /\ n % size = n
      BY <2>2, RemainderIs
    <2> QED
      BY <2>1, <2>2, <2>3 DEF Word, Words, Halves, Val
  <1>3. Ten = Word(0, 10) /\ Ten \in Words /\ Val(Ten) = 10
    BY <1>2 DEF Ten
  <1>4. Zero \in Words /\ Val(Zero) = 0
    BY <1>2 DEF Zero
  <1>5. Ten # Zero
    BY <1>3, <1>4
  <1>6. \A d \in 0..9 : DigitWord(d) \in Words /\ Val(DigitWord(d)) = d
    BY <1>2 DEF DigitWord
  <1> QED
    BY <1>1, <1>3, <1>4, <1>5, <1>6

(* A word is its value. *)
LEMMA WordIsValue ==
    ASSUME NEW u \in Words, NEW w \in Words, Val(u) = Val(w)
    PROVE  u = w
  <1> DEFINE size == HalfSize
  <1>1. /\ u.high \in 0..(size - 1) /\ u.low \in 0..(size - 1) /\ u = [high |-> u.high, low |-> u.low]
        /\ w.high \in 0..(size - 1) /\ w.low \in 0..(size - 1) /\ w = [high |-> w.high, low |-> w.low]
        /\ size \in Nat \ {0}
    BY HalfSizeType DEF Words, Halves
  <1>2. PICK n : n = Val(u)
    OBVIOUS
  <1>3. n = u.high * size + u.low /\ n = w.high * size + w.low
    BY <1>2 DEF Val
  <1> HIDE DEF size
  <1>4. u.high \in Int /\ w.high \in Int /\ n \in Int
    BY <1>1, <1>3
  <1>5. n % size = u.low /\ n \div size = u.high
    BY <1>1, <1>3, <1>4, RemainderIs
  <1>6. n % size = w.low /\ n \div size = w.high
    BY <1>1, <1>3, <1>4, RemainderIs
  <1> QED
    BY <1>1, <1>5, <1>6

(* A string of digits as a number, digit after digit.                       *)
LEMMA DecimalSteps ==
    ASSUME NEW n \in Nat, NEW s \in [1..n -> Nat], NEW g \in [0..n -> Nat],
           g[0] = 0, \A k \in 1..n : g[k] = 10 * g[k - 1] + s[k]
    PROVE  Decimal(s) = g[n]
  <1> DEFINE Step == [d \in Nat |-> [z \in Nat |-> 10 * z + d]]
             iter == CHOOSE iter : iter = [S \in SUBSET (DOMAIN s) |->
                        IF S = {} THEN 0 ELSE 10 * iter[S \ {Max(S)}] + s[Max(S)]]
  <1>1. Decimal(s) = iter[DOMAIN s]
    BY DEF Decimal, FoldLeft, MapThenFoldSet
  <1>2. Step \in [Nat -> [Nat -> Nat]]
    OBVIOUS
  <1>3. \A d \in Nat, z \in Nat : Step[d][z] = 10 * z + d
    OBVIOUS
  <1> HIDE DEF Step, iter
  <1>4. PICK it : Iterates(it, Nat, Step, 0, n, s)
    <2>1. 0 \in Nat
      OBVIOUS
    <2> QED
      BY <1>2, <2>1, LeftFoldExists
  <1>5. \A S \in SUBSET (1..n) :
           it[S] = IF S = {} THEN 0 ELSE 10 * it[S \ {Max(S)}] + s[Max(S)]
    <2> SUFFICES ASSUME NEW S \in SUBSET (1..n), S # {}
                 PROVE  it[S] = 10 * it[S \ {Max(S)}] + s[Max(S)]
      BY <1>4 DEF Iterates
    <2>1. Max(S) \in S /\ S \ {Max(S)} \in SUBSET (1..n)
      BY MaxOfSubset
    <2>2. s[Max(S)] \in Nat /\ it[S \ {Max(S)}] \in Nat
      BY <1>4, <2>1 DEF Iterates
    <2>3. it[S] = Step[s[Max(S)]][it[S \ {Max(S)}]]
      BY <1>4 DEF Iterates
    <2> QED
      BY <1>3, <2>2, <2>3
  <1>6. it = [S \in SUBSET (DOMAIN s) |->
                 IF S = {} THEN 0 ELSE 10 * it[S \ {Max(S)}] + s[Max(S)]]
    BY <1>4, <1>5 DEF Iterates
  <1>7. iter = [S \in SUBSET (DOMAIN s) |->
                   IF S = {} THEN 0 ELSE 10 * iter[S \ {Max(S)}] + s[Max(S)]]
    BY <1>6 DEF iter
  <1>8. iter[{}] = 0
    BY <1>7
  <1>9. ASSUME NEW k \in 1..n, iter[1..(k - 1)] \in Nat
        PROVE  iter[1..k] = Step[s[k]][iter[1..(k - 1)]]
    <2>1. Max(1..k) = k /\ (1..k) \ {k} = 1..(k - 1) /\ 1..k # {}
      <3>1. k \in Nat \ {0}
        OBVIOUS
      <3> QED
        BY <3>1, MaxOfInterval
    <2>2. 1..k \in SUBSET (DOMAIN s)
      OBVIOUS
    <2>3. iter[1..k] = 10 * iter[(1..k) \ {Max(1..k)}] + s[Max(1..k)]
      BY <1>7, <2>1, <2>2
    <2>4. s[k] \in Nat
      OBVIOUS
    <2>5. iter[1..k] = 10 * iter[1..(k - 1)] + s[k]
      BY <2>1, <2>3
    <2>6. Step[s[k]][iter[1..(k - 1)]] = 10 * iter[1..(k - 1)] + s[k]
      BY <1>3, <1>9, <2>4
    <2> QED
      BY <2>5, <2>6
  <1>10. \A k \in 1..n : g[k] = Step[s[k]][g[k - 1]]
    <2> SUFFICES ASSUME NEW k \in 1..n
                 PROVE  g[k] = Step[s[k]][g[k - 1]]
      OBVIOUS
    <2>1. k - 1 \in 0..n /\ s[k] \in Nat
      OBVIOUS
    <2> QED
      BY <1>3, <2>1
  <1>11. Extends(iter, Nat, Step, 0, n, s) /\ Accumulates(g, Nat, Step, 0, n, s)
    BY <1>8, <1>9, <1>10 DEF Extends, Accumulates
  <1>12. iter[1..n] = g[n]
    <2>1. 0 \in Nat
      OBVIOUS
    <2> QED
      BY <1>11, <2>1, LeftFoldIntervals
  <1> QED
    BY <1>1, <1>12

LEMMA DecimalOfMore ==
    ASSUME NEW s \in Seq(0..9), NEW d \in 0..9
    PROVE  /\ Decimal(s) \in Nat
           /\ Decimal(Append(s, d)) = 10 * Decimal(s) + d
  <1> DEFINE n == Len(s)
             t == Append(s, d)
             Step == [e \in Nat |-> [z \in Nat |-> 10 * z + e]]
  <1>1. n \in Nat /\ s \in [1..n -> Nat]
    OBVIOUS
  <1>2. t \in [1..(n + 1) -> Nat] /\ (\A k \in 1..n : t[k] = s[k]) /\ t[n + 1] = d
    <2>1. t \in Seq(Nat) /\ Len(t) = n + 1 /\ t[n + 1] = d
      OBVIOUS
    <2>2. \A k \in 1..n : t[k] = s[k]
      OBVIOUS
    <2> HIDE DEF t, n
    <2> QED
      BY <2>1, <2>2
  <1>3. Step \in [Nat -> [Nat -> Nat]] /\ \A e \in Nat, z \in Nat : Step[e][z] = 10 * z + e
    OBVIOUS
  <1> HIDE DEF n, t, Step
  <1>4. PICK g : Accumulates(g, Nat, Step, 0, n + 1, t)
    <2>1. 0 \in Nat /\ n + 1 \in Nat
      BY <1>1
    <2> QED
      BY <1>2, <1>3, <2>1, FoldSteps
  <1>5. /\ g \in [0..(n + 1) -> Nat] /\ g[0] = 0
        /\ \A k \in 1..(n + 1) : g[k] = 10 * g[k - 1] + t[k]
    <2>1. g \in [0..(n + 1) -> Nat] /\ g[0] = 0 /\ \A k \in 1..(n + 1) : g[k] = Step[t[k]][g[k - 1]]
      BY <1>4 DEF Accumulates
    <2>2. \A k \in 1..(n + 1) : t[k] \in Nat /\ k - 1 \in 0..(n + 1)
      BY <1>1, <1>2
    <2> QED
      BY <1>3, <2>1, <2>2
  <1>6. Decimal(t) = g[n + 1]
    <2>1. PICK m \in Nat : m = n + 1
      BY <1>1
    <2>2. /\ t \in [1..m -> Nat] /\ g \in [0..m -> Nat] /\ g[0] = 0
          /\ \A k \in 1..m : g[k] = 10 * g[k - 1] + t[k]
      BY <1>2, <1>5, <2>1
    <2> QED
      BY <2>1, <2>2, DecimalSteps
  <1>7. PICK h : h = [k \in 0..n |-> g[k]]
    OBVIOUS
  <1>8. h \in [0..n -> Nat] /\ h[0] = 0 /\ \A k \in 1..n : h[k] = 10 * h[k - 1] + s[k]
    <2>1. \A k \in 0..n : k \in 0..(n + 1)
      BY <1>1
    <2>2. \A k \in 1..n : k \in 1..(n + 1) /\ k \in 0..n /\ k - 1 \in 0..n
      BY <1>1
    <2>3. 0 \in 0..n
      BY <1>1
    <2> QED
      BY <1>2, <1>5, <1>7, <2>1, <2>2, <2>3
  <1>9. Decimal(s) = h[n]
    BY <1>1, <1>8, DecimalSteps
  <1>10. n \in 0..n /\ n + 1 \in 1..(n + 1) /\ (n + 1) - 1 = n
    BY <1>1
  <1>11. Decimal(s) = g[n] /\ g[n] \in Nat
    BY <1>7, <1>8, <1>9, <1>10
  <1>12. g[n + 1] = 10 * g[n] + d
    BY <1>2, <1>5, <1>10
  <1> QED
    BY <1>6, <1>11, <1>12 DEF t

LEMMA DecimalOfNothing == Decimal(<<>>) = 0
  <1> DEFINE s == <<>>
             g == [k \in 0..0 |-> 0]
  <1>1. s \in [1..0 -> Nat] /\ g \in [0..0 -> Nat] /\ g[0] = 0 /\ 0 \in Nat /\ 1..0 = {}
    OBVIOUS
  <1> HIDE DEF s, g
  <1>2. Decimal(s) = g[0]
    BY <1>1, DecimalSteps
  <1> QED
    BY <1>1, <1>2 DEF s

(* The last digit of a word, and the word without it. *)
LEMMA LastDigit ==
    ASSUME NEW w \in Words
    PROVE  LET d == DivRem(w, Ten)
           IN  /\ d.quo \in Words /\ d.rem.low \in 0..9
               /\ Val(w) = 10 * Val(d.quo) + d.rem.low
               /\ w # Zero => Val(d.quo) < Val(w)
  <1> DEFINE d == DivRem(w, Ten)
  <1>1. /\ d.quo \in Words /\ d.rem \in Words
        /\ Val(w) = Val(d.quo) * 10 + Val(d.rem) /\ Val(d.rem) < 10
    BY DivRemExact, SmallWords
  <1> HIDE DEF d
  <1>2. PICK q \in Nat : q = Val(d.quo)
    <2>1. Val(d.quo) \in 0..(HalfSize * HalfSize - 1)
      BY <1>1, WordRange, HalfSizeType
    <2>2. Val(d.quo) \in Nat
      BY <2>1
    <2> QED
      BY <2>2
  <1>3. PICK h \in Nat, l \in Nat, size \in Nat :
           h = d.rem.high /\ l = d.rem.low /\ size = HalfSize
    <2>1. d.rem.high \in Nat /\ d.rem.low \in Nat /\ HalfSize \in Nat
      BY <1>1, SmallWords DEF Words, Halves
    <2> QED
      BY <2>1
  <1>4. Val(d.rem) = h * size + l /\ size >= 16
    BY <1>3, SmallWords DEF Val
  <1>5. h = 0
    <2>1. h * size + l < 10
      BY <1>1, <1>4
    <2>2. CASE h >= 1
      <3>1. h * size >= size
        BY <1>4, <2>2
      <3> QED
        BY <1>3, <1>4, <2>1, <3>1
    <2> QED
      BY <2>2
  <1>6. h * size = 0
    BY <1>5
  <1>7. l \in 0..9 /\ Val(w) = 10 * q + l
    <2>1. Val(d.rem) = l
      BY <1>4, <1>6
    <2>2. l < 10 /\ Val(w) = q * 10 + l
      BY <1>1, <1>2, <2>1
    <2> QED
      BY <2>2
  <1>8. ASSUME w # Zero
        PROVE  q < Val(w)
    <2>1. Val(w) \in Nat \ {0}
      BY <1>8, Positive
    <2> QED
      BY <1>7, <2>1
  <1> QED
    BY <1>1, <1>2, <1>3, <1>7, <1>8 DEF d

(* The function app of to_string exists, by induction on the values of the  *)
(* words it is applied to.                                                  *)
WritesNext(app, i) ==
    IF i = Zero THEN <<>>
    ELSE LET d == DivRem(i, Ten) IN Append(app[d.quo], d.rem.low)

Writes(app) == app = [i \in Words |-> WritesNext(app, i)]

LEMMA WritesExists == \E app : Writes(app)
  <1> DEFINE Good(k, f) == /\ f = [i \in Words |-> f[i]]
                           /\ \A i \in Words : Val(i) < k => f[i] = WritesNext(f, i)
             K == {k \in Nat : \E f : Good(k, f)}
  <1>1. \A w \in Words : Val(w) \in Nat /\ Val(w) < 2 * Top /\ Top \in Nat
    BY SignBit, TopFacts
  <1>2. 0 \in K
    <2> DEFINE f == [i \in Words |-> <<>>]
    <2>1. Good(0, f)
      BY <1>1
    <2> QED
      BY <2>1
  <1>3. ASSUME NEW k \in Nat, k \in K
        PROVE  k + 1 \in K
    <2>1. PICK old : Good(k, old)
      BY <1>3
    <2> DEFINE f == [i \in Words |-> IF Val(i) < k THEN old[i] ELSE WritesNext(old, i)]
    <2>2. \A i \in Words : f[i] = IF Val(i) < k THEN old[i] ELSE WritesNext(old, i)
      OBVIOUS
    <2>3. f = [i \in Words |-> f[i]]
      OBVIOUS
    <2> HIDE DEF f
    <2>4. ASSUME NEW i \in Words, Val(i) < k + 1
          PROVE  f[i] = WritesNext(f, i)
      <3>1. f[i] = WritesNext(old, i)
        BY <2>1, <2>2
      <3>2. CASE i = Zero
        BY <3>1, <3>2 DEF WritesNext
      <3>3. CASE i # Zero
        <4>1. PICK q : q = DivRem(i, Ten).quo
          OBVIOUS
        <4>2. q \in Words /\ Val(q) < Val(i)
          BY <3>3, <4>1, LastDigit
        <4>3. Val(q) < k
          BY <1>1, <2>4, <4>2
        <4>4. f[q] = old[q]
          BY <2>2, <4>2, <4>3
        <4> QED
          BY <3>1, <3>3, <4>1, <4>4 DEF WritesNext
      <3> QED
        BY <3>2, <3>3
    <2>5. Good(k + 1, f)
      BY <2>3, <2>4
    <2> HIDE DEF Good
    <2> QED
      BY <2>5
  <1>4. PICK f : Good(2 * Top, f)
    <2> HIDE DEF Good
    <2>1. 2 * Top \in Nat
      BY TopFacts
    <2>2. 2 * Top \in K
      <3> HIDE DEF K
      <3> QED
        BY <1>2, <1>3, <2>1, SetInduction
    <2> QED
      BY <2>2
  <1>5. \A i \in Words : f[i] = WritesNext(f, i)
    BY <1>1, <1>4
  <1>6. Writes(f)
    BY <1>4, <1>5 DEF Writes
  <1> QED
    BY <1>6

LEMMA NumeralWrites ==
    \E app : Writes(app) /\ \A w \in Words : Numeral(w) = IF w = Zero THEN <<0>> ELSE app[w]
  <1> DEFINE app == CHOOSE app : app = [i \in Words |->
                       IF i = Zero THEN <<>>
                       ELSE LET d == DivRem(i, Ten) IN Append(app[d.quo], d.rem.low)]
  <1>1. \A w \in Words : Numeral(w) = IF w = Zero THEN <<0>> ELSE app[w]
    BY DEF Numeral
  <1>2. Writes(app)
    <2>1. PICK it : Writes(it)
      BY WritesExists
    <2>2. it = [i \in Words |->
                   IF i = Zero THEN <<>>
                   ELSE LET d == DivRem(i, Ten) IN Append(it[d.quo], d.rem.low)]
      BY <2>1 DEF Writes, WritesNext
    <2>3. app = [i \in Words |->
                   IF i = Zero THEN <<>>
                   ELSE LET d == DivRem(i, Ten) IN Append(app[d.quo], d.rem.low)]
      BY <2>2
    <2> HIDE DEF app
    <2> QED
      BY <2>3 DEF Writes, WritesNext
  <1> HIDE DEF app
  <1> QED
    BY <1>1, <1>2

(* Strings of digits without a leading zero. *)
NoLeadingZero(s) == s \in Seq(0..9) /\ (s # <<>> => s[1] # 0)

(* What to_string writes is its word, without a leading zero.               *)
LEMMA WrittenIsWord ==
    ASSUME NEW app, Writes(app)
    PROVE  \A w \in Words : NoLeadingZero(app[w]) /\ Decimal(app[w]) = Val(w)
                            /\ (w # Zero => app[w] # <<>>)
  <1> DEFINE Good(w) == NoLeadingZero(app[w]) /\ Decimal(app[w]) = Val(w) /\ (w # Zero => app[w] # <<>>)
             K == {k \in Nat : \A w \in Words : Val(w) < k => Good(w)}
  <1>1. \A w \in Words : Val(w) \in Nat /\ Val(w) < 2 * Top
    BY SignBit, TopFacts
  <1>2. 0 \in K
    <2> HIDE DEF Good
    <2> QED
      BY <1>1
  <1>3. ASSUME NEW k \in Nat, k \in K
        PROVE  k + 1 \in K
    <2> SUFFICES ASSUME NEW w \in Words, Val(w) < k + 1
                 PROVE  Good(w)
      OBVIOUS
    <2>1. app[w] = WritesNext(app, w)
      BY DEF Writes
    <2>2. CASE w = Zero
      <3>1. app[w] = <<>>
        BY <2>1, <2>2 DEF WritesNext
      <3> QED
        BY <2>2, <3>1, DecimalOfNothing, SmallWords DEF NoLeadingZero
    <2>3. CASE w # Zero
      <3> DEFINE q0 == DivRem(w, Ten).quo
                 d0 == DivRem(w, Ten).rem.low
      <3>1. q0 \in Words /\ d0 \in 0..9 /\ Val(w) = 10 * Val(q0) + d0 /\ Val(q0) < Val(w)
        BY <2>3, LastDigit
      <3>2. PICK q \in Words, d \in 0..9 : q = q0 /\ d = d0
        BY <3>1
      <3>3. app[w] = Append(app[q], d)
        BY <2>1, <2>3, <3>2 DEF WritesNext
      <3> HIDE DEF q0, d0
      <3>4. Val(w) = 10 * Val(q) + d /\ Val(q) < k
        BY <1>1, <3>1, <3>2
      <3>5. Good(q)
        BY <1>3, <3>4
      <3>6. PICK s : s = app[q]
        OBVIOUS
      <3>7. s \in Seq(0..9) /\ (s # <<>> => s[1] # 0) /\ Decimal(s) = Val(q) /\ (q # Zero => s # <<>>)
        BY <3>5, <3>6 DEF NoLeadingZero
      <3>8. Decimal(Append(s, d)) = Val(w)
        BY <3>4, <3>7, DecimalOfMore
      <3>9. Append(s, d) \in Seq(0..9) /\ Append(s, d) # <<>>
        BY <3>7
      <3>10. Append(s, d)[1] # 0
        <4>1. CASE s = <<>>
          <5>1. Val(q) = 0
            BY <3>7, <4>1, SmallWords
          <5>2. d # 0
            <6>1. Val(w) \in Nat \ {0}
              BY <2>3, Positive
            <6> QED
              BY <3>4, <5>1, <6>1
          <5>3. Append(s, d)[1] = d
            BY <4>1
          <5> QED
            BY <5>2, <5>3
        <4>2. CASE s # <<>>
          <5>1. Append(s, d)[1] = s[1]
            BY <3>7, <4>2
          <5> QED
            BY <3>7, <4>2, <5>1
        <4> QED
          BY <4>1, <4>2
      <3> QED
        BY <2>3, <3>3, <3>6, <3>8, <3>9, <3>10 DEF NoLeadingZero
    <2> QED
      BY <2>2, <2>3
  <1>4. 2 * Top \in Nat
    BY TopFacts
  <1>5. 2 * Top \in K
    <2> HIDE DEF K
    <2> QED
      BY <1>2, <1>3, <1>4, SetInduction
  <1> HIDE DEF Good
  <1>6. \A w \in Words : Good(w)
    BY <1>1, <1>5
  <1> QED
    BY <1>6 DEF Good

(* A string without a leading zero is what to_string writes for its number. *)
LEMMA WordIsWritten ==
    ASSUME NEW app, Writes(app), NEW s, NoLeadingZero(s)
    PROVE  /\ s # <<>> => Decimal(s) > 0
           /\ \A w \in Words : Val(w) = Decimal(s) => app[w] = s
  <1> DEFINE Good(t) == /\ t # <<>> => Decimal(t) > 0
                        /\ \A w \in Words : Val(w) = Decimal(t) => app[w] = t
             K == {k \in Nat : \A t \in Seq(0..9) : Len(t) = k /\ NoLeadingZero(t) => Good(t)}
  <1>1. 0 \in K
    <2> SUFFICES ASSUME NEW t \in Seq(0..9), Len(t) = 0
                 PROVE  Good(t)
      OBVIOUS
    <2>1. t = <<>>
      OBVIOUS
    <2>2. ASSUME NEW w \in Words, Val(w) = Decimal(t)
          PROVE  app[w] = t
      <3>1. Val(w) = Val(Zero)
        BY <2>1, <2>2, DecimalOfNothing, SmallWords
      <3>2. w = Zero
        BY <3>1, SmallWords, WordIsValue
      <3> QED
        BY <2>1, <3>2 DEF Writes, WritesNext
    <2> QED
      BY <2>1, <2>2
  <1>2. ASSUME NEW k \in Nat, k \in K
        PROVE  k + 1 \in K
    <2> SUFFICES ASSUME NEW t \in Seq(0..9), Len(t) = k + 1, NoLeadingZero(t)
                 PROVE  Good(t)
      OBVIOUS
    <2>1. PICK r \in Seq(0..9), d \in 0..9 : t = Append(r, d)
      <3>1. t # <<>>
        OBVIOUS
      <3>2. t = Append(Front(t), Last(t)) /\ Front(t) \in Seq(0..9) /\ Last(t) \in 0..9
        <4>1. Last(t) = t[k + 1] /\ Front(t) = SubSeq(t, 1, k)
          BY DEF Last, Front
        <4>2. SubSeq(t, 1, k) \in Seq(0..9) /\ t[k + 1] \in 0..9
          OBVIOUS
        <4>3. t = Append(SubSeq(t, 1, k), t[k + 1])
          OBVIOUS
        <4> QED
          BY <4>1, <4>2, <4>3
      <3> QED
        BY <3>2
    <2>2. Len(r) = k
      BY <2>1
    <2>3. r # <<>> => r[1] = t[1]
      BY <2>1
    <2>4. NoLeadingZero(r)
      BY <2>3 DEF NoLeadingZero
    <2>5. Good(r)
      BY <1>2, <2>2, <2>4
    <2>6. PICK n \in Nat : n = Decimal(r)
      BY DecimalOfMore
    <2>7. Decimal(t) = 10 * n + d
      BY <2>1, <2>6, DecimalOfMore
    <2>8. 10 * n + d > 0
      <3>1. CASE r # <<>>
        BY <2>5, <2>6, <3>1
      <3>2. CASE r = <<>>
        <4>1. t[1] = d /\ t # <<>>
          BY <2>1, <3>2
        <4>2. d # 0
          BY <4>1 DEF NoLeadingZero
        <4> QED
          BY <4>2
      <3> QED
        BY <3>1, <3>2
    <2>9. ASSUME NEW w \in Words, Val(w) = Decimal(t)
          PROVE  app[w] = t
      <3>1. w # Zero
        BY <2>7, <2>8, <2>9, SmallWords
      <3> DEFINE q0 == DivRem(w, Ten).quo
                 d0 == DivRem(w, Ten).rem.low
      <3>2. q0 \in Words /\ d0 \in 0..9 /\ Val(w) = 10 * Val(q0) + d0
        BY LastDigit
      <3>3. PICK q \in Words, e \in 0..9 : q = q0 /\ e = d0
        BY <3>2
      <3>4. app[w] = Append(app[q], e)
        BY <3>1, <3>3 DEF Writes, WritesNext
      <3> HIDE DEF q0, d0
      <3>5. PICK m \in Nat : m = Val(q)
        <4>1. Val(q) \in 0..(HalfSize * HalfSize - 1)
          BY WordRange, HalfSizeType
        <4>2. Val(q) \in Nat
          BY <4>1
        <4> QED
          BY <4>2
      <3>6. 10 * m + e = 10 * n + d
        BY <2>7, <2>9, <3>2, <3>3, <3>5
      <3>7. m = n /\ e = d
        BY <3>6
      <3>8. app[q] = r
        BY <2>5, <2>6, <3>5, <3>7
      <3> QED
        BY <2>1, <3>4, <3>7, <3>8
    <2> QED
      BY <2>7, <2>8, <2>9
  <1>3. Len(s) \in Nat /\ s \in Seq(0..9)
    BY DEF NoLeadingZero
  <1>4. Len(s) \in K
    <2> HIDE DEF K
    <2> QED
      BY <1>1, <1>2, <1>3, SetInduction
  <1> HIDE DEF Good
  <1>5. Good(s)
    BY <1>3, <1>4
  <1> QED
    BY <1>5 DEF Good

(* to_string gives exactly the canonical string of a word.                  *)
LEMMA NumeralIs ==
    ASSUME NEW w \in Words, NEW s \in Seq(0..9)
    PROVE  Numeral(w) = s <=> Canonical(s) /\ Decimal(s) = Val(w)
  <1>1. PICK app : Writes(app) /\ Numeral(w) = IF w = Zero THEN <<0>> ELSE app[w]
    BY NumeralWrites
  <1>2. Decimal(<<0>>) = 0 /\ <<0>> \in Seq(0..9)
    <2>1. Append(<<>>, 0) = <<0>> /\ <<>> \in Seq(0..9) /\ 0 \in 0..9
      OBVIOUS
    <2>2. Decimal(Append(<<>>, 0)) = 10 * Decimal(<<>>) + 0
      BY <2>1, DecimalOfMore
    <2> QED
      BY <2>1, <2>2, DecimalOfNothing
  <1>3. Canonical(s) => s = <<0>> \/ (NoLeadingZero(s) /\ s # <<>>)
    <2> SUFFICES ASSUME Canonical(s), s[1] = 0
                 PROVE  s = <<0>>
      BY DEF Canonical, NoLeadingZero
    <2>1. Len(s) = 1
      BY DEF Canonical
    <2> QED
      BY <2>1
  <1>4. NoLeadingZero(s) /\ s # <<>> => Canonical(s)
    BY DEF Canonical, NoLeadingZero
  <1>5. Canonical(<<0>>)
    BY DEF Canonical
  <1>6. CASE w = Zero
    <2>1. Val(w) = 0 /\ Numeral(w) = <<0>>
      BY <1>1, <1>6, SmallWords
    <2>2. ASSUME Canonical(s), Decimal(s) = 0
          PROVE  s = <<0>>
      <3>1. NoLeadingZero(s) /\ s # <<>> => Decimal(s) > 0
        BY <1>1, WordIsWritten
      <3> QED
        BY <1>3, <2>2, <3>1
    <2> QED
      BY <1>2, <1>5, <2>1, <2>2
  <1>7. CASE w # Zero
    <2>1. Numeral(w) = app[w]
      BY <1>1, <1>7
    <2>2. ASSUME app[w] = s
          PROVE  Canonical(s) /\ Decimal(s) = Val(w)
      BY <1>1, <1>4, <1>7, <2>2, WrittenIsWord
    <2>3. ASSUME Canonical(s), Decimal(s) = Val(w)
          PROVE  app[w] = s
      <3>1. s # <<0>>
        <4>1. Val(w) # 0
          BY <1>7, Positive
        <4> QED
          BY <1>2, <2>3, <4>1
      <3>2. NoLeadingZero(s)
        BY <1>3, <2>3, <3>1
      <3> QED
        BY <1>1, <2>3, <3>2, WordIsWritten
    <2> QED
      BY <2>1, <2>2, <2>3
  <1> QED
    BY <1>6, <1>7

(* The inductive invariant of of_string: the number so far is that of the   *)
(* characters so far, wrapped.                                              *)
TextInv ==
    /\ text \in Seq(0..9) /\ word \in Words
    /\ Val(word) = Decimal(text) % (2 * Top)

LEMMA OneMoreDigit ==
    ASSUME NEW m \in Nat \ {0}, NEW n \in Nat, NEW d \in Nat
    PROVE  ((((n % m) * 10) % m) + d) % m = (10 * n + d) % m
  <1>1. PICK a \in Nat, r \in 0..(m - 1) : n = a * m + r /\ n % m = r
    <2>1. n \div m \in Nat /\ n % m \in 0..(m - 1) /\ n = (n \div m) * m + (n % m)
      BY Euclid
    <2> QED
      BY <2>1
  <1>2. PICK b \in Nat, c \in 0..(m - 1) : r * 10 = b * m + c /\ (r * 10) % m = c
    <2> DEFINE u == r * 10
    <2>1. u \in Nat
      OBVIOUS
    <2> HIDE DEF u
    <2>2. u \div m \in Nat /\ u % m \in 0..(m - 1) /\ u = (u \div m) * m + (u % m)
      BY <2>1, Euclid
    <2>3. PICK b \in Nat, c \in 0..(m - 1) : u = b * m + c /\ u % m = c
      BY <2>2
    <2> QED
      BY <2>3 DEF u
  <1>3. PICK e \in Nat, f \in 0..(m - 1) : c + d = e * m + f /\ (c + d) % m = f
    <2> DEFINE u == c + d
    <2>1. u \in Nat
      OBVIOUS
    <2> HIDE DEF u
    <2>2. u \div m \in Nat /\ u % m \in 0..(m - 1) /\ u = (u \div m) * m + (u % m)
      BY <2>1, Euclid
    <2>3. PICK e \in Nat, f \in 0..(m - 1) : u = e * m + f /\ u % m = f
      BY <2>2
    <2> QED
      BY <2>3 DEF u
  <1>4. 10 * n + d = (10 * a + b + e) * m + f
    <2>1. PICK am \in Int, bm \in Int, em \in Int : am = a * m /\ bm = b * m /\ em = e * m
      <3>1. a * m \in Int /\ b * m \in Int /\ e * m \in Int
        OBVIOUS
      <3> QED
        BY <3>1
    <2>2. (10 * a + b + e) * m = 10 * am + bm + em
      <3>1. (10 * a) * m = 10 * (a * m)
        OBVIOUS
      <3>2. 10 * a \in Int /\ b \in Int /\ e \in Int /\ m \in Int
        OBVIOUS
      <3>3. (10 * a + b + e) * m = (10 * a) * m + b * m + e * m
        BY <3>2, Distributes
      <3> QED
        BY <2>1, <3>1, <3>3
    <2>3. n = am + r /\ r * 10 = bm + c /\ c + d = em + f
      BY <1>1, <1>2, <1>3, <2>1
    <2> QED
      BY <2>2, <2>3
  <1>5. (10 * n + d) % m = f
    <2> DEFINE u == 10 * n + d
               v == 10 * a + b + e
    <2>1. u \in Int /\ v \in Int /\ u = v * m + f
      BY <1>4
    <2> HIDE DEF u, v
    <2>2. u % m = f
      BY <2>1, RemainderIs
    <2> QED
      BY <2>2 DEF u
  <1> QED
    BY <1>1, <1>2, <1>3, <1>5

LEMMA TextInvInit == TextInit => TextInv
  <1> SUFFICES ASSUME TextInit
               PROVE  TextInv
    OBVIOUS
  <1>1. text = <<>> /\ word = Zero
    BY DEF TextInit
  <1>2. 0 % (2 * Top) = 0
    <2>1. PICK m \in Nat \ {0} : m = 2 * Top
      BY TopFacts
    <2>2. 0 % m = 0
      OBVIOUS
    <2> QED
      BY <2>1, <2>2
  <1> QED
    BY <1>1, <1>2, DecimalOfNothing, SmallWords DEF TextInv

LEMMA TextInvStep == TextInv /\ [TextNext]_textVars => TextInv'
  <1> SUFFICES ASSUME TextInv, [TextNext]_textVars
               PROVE  TextInv'
    OBVIOUS
  <1>1. CASE UNCHANGED textVars
    BY <1>1 DEF TextInv, textVars, Val
  <1>2. ASSUME NEW d \in 0..9, ReadDigit(d)
        PROVE  TextInv'
    <2>1. text' = Append(text, d) /\ word' = Add(Mul(word, Ten), DigitWord(d))
      BY <1>2 DEF ReadDigit
    <2>2. text \in Seq(0..9) /\ word \in Words /\ Val(word) = Decimal(text) % (2 * Top)
      BY DEF TextInv
    <2>3. PICK n \in Nat : n = Decimal(text)
      BY <2>2, DecimalOfMore
    <2>4. PICK m \in Nat \ {0} : m = 2 * Top
      BY TopFacts
    <2>5. \A k \in Int : Rep!UWrap(k) = k % m
      BY <2>4, TopFacts
    <2>6. PICK u \in Words : u = Mul(word, Ten) /\ Val(u) = ((n % m) * 10) % m
      <3>1. Mul(word, Ten) \in Words /\ Val(Mul(word, Ten)) = Rep!UWrap(Val(word) * 10)
        BY <2>2, MulValue, SmallWords
      <3>2. Val(word) = n % m /\ (n % m) * 10 \in Int
        BY <2>2, <2>3, <2>4
      <3> QED
        BY <2>5, <3>1, <3>2
    <2>7. DigitWord(d) \in Words /\ Val(DigitWord(d)) = d
      BY SmallWords
    <2>8. word' \in Words
      BY <2>1, <2>6, <2>7, AddValue, HalfSizeType
    <2>9. Val(word') = (Val(u) + d) % m
      <3>1. Val(Add(u, DigitWord(d))) = Rep!UWrap(Val(u) + d)
        BY <2>7, HalvesAreExact
      <3>2. Val(u) + d \in Int
        BY SignBit, TopFacts
      <3> QED
        BY <2>1, <2>5, <2>6, <3>1, <3>2
    <2>10. ((((n % m) * 10) % m) + d) % m = (10 * n + d) % m
      <3>1. d \in Nat
        OBVIOUS
      <3> QED
        BY <3>1, OneMoreDigit
    <2>11. Decimal(text') = 10 * n + d /\ text' \in Seq(0..9)
      <3>1. PICK s \in Seq(0..9) : s = text
        BY <2>2
      <3>2. Decimal(Append(s, d)) = 10 * Decimal(s) + d
        BY DecimalOfMore
      <3>3. Append(s, d) \in Seq(0..9)
        OBVIOUS
      <3> QED
        BY <2>1, <2>3, <3>1, <3>2, <3>3
    <2>12. Val(word)' = Decimal(text)' % (2 * Top)
      <3>1. Val(word') = Decimal(text') % (2 * Top)
        BY <2>4, <2>6, <2>9, <2>10, <2>11
      <3>2. Val(word)' = Val(word')
        BY DEF Val
      <3>3. Decimal(text)' = Decimal(text')
        OBVIOUS
      <3>4. Top' = Top
        BY DEF Top, HalfSize, Base
      <3> QED
        BY <3>1, <3>2, <3>3, <3>4
    <2> QED
      BY <2>8, <2>11, <2>12 DEF TextInv
  <1> QED
    BY <1>1, <1>2 DEF TextNext

(* Reading the signed literals: for a number that fits, of_string has not   *)
(* wrapped, and taking off the sign gives back the string's number.         *)
LEMMA SignedLiteral ==
    ASSUME NEW s \in Seq(0..9), NEW w \in Words, NEW minus \in BOOLEAN,
           Val(w) = Decimal(s) % (2 * Top)
    PROVE  LET literal == IntLiteral(minus, s, w)
               n == IF minus THEN -Decimal(s) ELSE Decimal(s)
           IN  /\ literal # <<>>
                    <=> Canonical(s) /\ n \in (-Top)..(Top - 1) /\ ~(minus /\ n = 0)
               /\ literal # <<>> => SignedVal(literal[1]) = n
  <1> DEFINE literal == IntLiteral(minus, s, w)
             n == IF minus THEN -Decimal(s) ELSE Decimal(s)
             i == IF minus THEN Neg(w) ELSE w
  <1>1. PICK top \in Nat \ {0, 1} : top = Top
    BY TopFacts
  <1>2. PICK k \in Nat : k = Decimal(s)
    BY DecimalOfMore
  <1>3. PICK v \in 0..(2 * top - 1) : v = Val(w)
    BY <1>1, SignBit
  <1>4. (k < 2 * top => v = k) /\ v = k % (2 * top)
    <2>1. PICK m \in Nat : m = 2 * top
      OBVIOUS
    <2>2. v = k % m
      BY <1>1, <1>2, <1>3, <2>1
    <2>3. k < m => k % m = k
      BY <2>1
    <2> QED
      BY <2>1, <2>2, <2>3
  <1>5. IsNeg(w) <=> v >= top
    BY <1>1, <1>3, SignBit
  <1>6. w = MinInt <=> v = top
    <2>1. MinInt \in Words /\ Val(MinInt) = top
      <3>1. Bits - 1 \in 0..(Bits - 1)
        BY Widths
      <3>2. ~IsSet(Zero, Bits - 1)
        <4>1. ~IsNeg(Zero)
          BY <1>1, SignBit, SmallWords
        <4> QED
          BY <4>1 DEF IsNeg
      <3>3. MinInt \in Words /\ Val(MinInt) = Val(Zero) + 2^(Bits - 1)
        BY <3>1, <3>2, SmallWords, BitOfWord DEF MinInt
      <3>4. Val(Zero) = 0 /\ 2^(Bits - 1) = top
        BY <1>1, SmallWords, TopFacts
      <3> QED
        BY <3>3, <3>4
    <2> QED
      BY <1>3, <2>1, WordIsValue
  <1>7. i \in Words /\ Val(i) = IF minus /\ v # 0 THEN 2 * top - v ELSE v
    BY <1>1, <1>3, NegValue
  <1> HIDE DEF i
  <1>8. /\ IsNeg(i) <=> Val(i) >= top
        /\ SignedVal(i) = IF Val(i) >= top THEN Val(i) - 2 * top ELSE Val(i)
        /\ AbsWord(i) \in Words
        /\ Val(AbsWord(i)) = IF Val(i) >= top THEN 2 * top - Val(i) ELSE Val(i)
    <2>1. /\ IsNeg(i) <=> Val(i) >= top
          /\ SignedVal(i) = IF Val(i) >= top THEN Val(i) - 2 * top ELSE Val(i)
      BY <1>1, <1>7, SignBit
    <2>2. Neg(i) \in Words /\ Val(Neg(i)) = IF Val(i) = 0 THEN 0 ELSE 2 * top - Val(i)
      BY <1>1, <1>7, NegValue
    <2> QED
      BY <1>7, <2>1, <2>2 DEF AbsWord
  <1>9. PICK a \in Words : a = AbsWord(i)
    BY <1>8
  <1>10. Numeral(a) = s <=> Canonical(s) /\ k = Val(a)
    BY <1>2, NumeralIs
  <1>11. literal = IF IsNeg(w) /\ w # MinInt THEN <<>>
                   ELSE IF minus = IsNeg(i) /\ Numeral(a) = s THEN <<i>> ELSE <<>>
    BY <1>9 DEF IntLiteral, i
  <1> HIDE DEF literal
  <1>12. n = IF minus THEN -k ELSE k
    BY <1>2
  <1> HIDE DEF n
  <1>13. IsNeg(w) \in BOOLEAN /\ IsNeg(i) \in BOOLEAN
    BY DEF IsNeg, IsSet
  <1>14. CASE v > top
    <2>1. literal = <<>>
      BY <1>5, <1>6, <1>11, <1>14
    <2>2. k > top
      BY <1>4, <1>14
    <2>3. n \notin (-top)..(top - 1)
      BY <1>12, <2>2
    <2> QED
      BY <1>1, <2>1, <2>3 DEF literal, n
  <1>15. CASE v <= top
    <2>1. ~(IsNeg(w) /\ w # MinInt)
      BY <1>5, <1>6, <1>15
    <2>2. literal = IF minus = IsNeg(i) /\ Numeral(a) = s THEN <<i>> ELSE <<>>
      BY <1>11, <2>1
    <2>3. CASE minus
      <3>1. Val(i) = IF v # 0 THEN 2 * top - v ELSE 0
        BY <1>7, <2>3
      <3>2. IsNeg(i) <=> v # 0
        BY <1>8, <1>15, <3>1
      <3>3. v # 0 => Val(a) = v /\ SignedVal(i) = -v
        BY <1>8, <1>9, <1>15, <3>1
      <3>4. literal # <<>> <=> v # 0 /\ Canonical(s) /\ k = v
        BY <1>10, <1>13, <2>2, <2>3, <3>2, <3>3
      <3>5. v # 0 /\ k = v <=> n \in (-top)..(top - 1) /\ n # 0
        BY <1>4, <1>12, <1>15, <2>3
      <3>6. literal # <<>> <=> Canonical(s) /\ n \in (-top)..(top - 1) /\ ~(minus /\ n = 0)
        BY <2>3, <3>4, <3>5
      <3>7. ASSUME literal # <<>>
            PROVE  SignedVal(literal[1]) = n
        <4>1. literal = <<i>> /\ v # 0 /\ k = v
          BY <2>2, <3>4, <3>7
        <4>2. literal[1] = i
          BY <4>1
        <4> QED
          BY <1>12, <2>3, <3>3, <4>1, <4>2
      <3> QED
        BY <1>1, <3>6, <3>7 DEF literal, n
    <2>4. CASE ~minus
      <3>1. Val(i) = v
        BY <1>7, <2>4
      <3>2. IsNeg(i) <=> v = top
        BY <1>8, <1>15, <3>1
      <3>3. v # top => Val(a) = v /\ SignedVal(i) = v
        BY <1>8, <1>9, <1>15, <3>1
      <3>4. literal # <<>> <=> v # top /\ Canonical(s) /\ k = v
        BY <1>10, <1>13, <2>2, <2>4, <3>2, <3>3
      <3>5. v # top /\ k = v <=> n \in (-top)..(top - 1)
        BY <1>4, <1>12, <1>15, <2>4
      <3>6. literal # <<>> <=> Canonical(s) /\ n \in (-top)..(top - 1) /\ ~(minus /\ n = 0)
        BY <2>4, <3>4, <3>5
      <3>7. ASSUME literal # <<>>
            PROVE  SignedVal(literal[1]) = n
        <4>1. literal = <<i>> /\ v # top /\ k = v
          BY <2>2, <3>4, <3>7
        <4>2. literal[1] = i
          BY <4>1
        <4> QED
          BY <1>12, <2>4, <3>3, <4>1, <4>2
      <3> QED
        BY <1>1, <3>6, <3>7 DEF literal, n
    <2> QED
      BY <2>3, <2>4
  <1> QED
    BY <1>14, <1>15

(* At every width, and for strings of any length: what build_int accepts is *)
(* exactly how the numbers of the type are written.  of_string wraps around *)
(* and lets min_int pass with either sign, but to_string does not give such *)
(* a string back.                                                           *)
THEOREM LiteralsAreExact == TextSpec => []LiteralsExact
  <1>1. TextInv => LiteralsExact
    <2> SUFFICES ASSUME TextInv
                 PROVE  LiteralsExact
      OBVIOUS
    <2>1. text \in Seq(0..9) /\ word \in Words /\ Val(word) = Decimal(text) % (2 * Top)
      BY DEF TextInv
    <2>2. PICK m \in Nat \ {0} : m = 2 * Top
      BY TopFacts
    <2>3. PICK k \in Nat : k = Decimal(text)
      BY <2>1, DecimalOfMore
    <2>4. Rep!UInts = 0..(m - 1) /\ Rep!SInts = (-Top)..(Top - 1)
      BY <2>2, HalfSizeType, TopFacts DEF Rep!UInts, Rep!SInts, Top
    <2>5. UintLiteral(FALSE, text, word) # <<>> <=> Canonical(text) /\ k \in 0..(m - 1)
      <3>1. UintLiteral(FALSE, text, word) # <<>> <=> Numeral(word) = text
        BY DEF UintLiteral
      <3>2. Numeral(word) = text <=> Canonical(text) /\ k = Val(word)
        BY <2>1, <2>3, NumeralIs
      <3>3. Val(word) = k % m
        BY <2>1, <2>2, <2>3
      <3>4. k = k % m <=> k \in 0..(m - 1)
        <4>1. k % m \in 0..(m - 1)
          OBVIOUS
        <4>2. k < m => k % m = k
          OBVIOUS
        <4> QED
          BY <4>1, <4>2
      <3> QED
        BY <3>1, <3>2, <3>3, <3>4
    <2>6. \A minus \in BOOLEAN :
             LET literal == IntLiteral(minus, text, word)
                 n == IF minus THEN -Decimal(text) ELSE Decimal(text)
             IN  /\ literal # <<>>
                      <=> Canonical(text) /\ n \in Rep!SInts /\ ~(minus /\ n = 0)
                 /\ literal # <<>> => SignedVal(literal[1]) = n
      BY <2>1, <2>4, SignedLiteral
    <2> QED
      BY <2>3, <2>4, <2>5, <2>6 DEF LiteralsExact
  <1> QED
    BY <1>1, TextInvInit, TextInvStep, PTL DEF TextSpec

-----------------------------------------------------------------------------
(* The bytes of a nonce. *)

(* What has been made so far: the counter a byte comes from and its place   *)
(* in the digest add up to its position.                                    *)
NonceInv ==
    /\ numKBytes \in Nat \ {0} /\ done \in 0..numKBytes
    /\ kBytes \in [1..numKBytes -> [counter : Int, place : Int]]
    /\ \A i \in 1..done : kBytes[i].counter \in Nat /\ kBytes[i].counter + kBytes[i].place = i
    /\ stage = "reduced" => done = numKBytes

LEMMA NonceInvInit == NonceInit => NonceInv
  BY NonceAssumption DEF NonceInit, NonceInv, Uninitialised

(* A digest is copied behind what is there, and over nothing of it. *)
LEMMA ChunkInv ==
    ASSUME NonceInv, NonceChunk
    PROVE  NonceInv'
  <1> DEFINE todo == Smaller(numKBytes - done, DigestLength)
  <1>1. numKBytes \in Nat \ {0} /\ done \in 0..numKBytes /\ done < numKBytes
    BY DEF NonceInv, NonceChunk
  <1>2. todo \in 1..(numKBytes - done)
    BY <1>1, NonceAssumption DEF Smaller
  <1>3. /\ kBytes' = Copied(done, todo) /\ done' = done + todo
        /\ numKBytes' = numKBytes /\ stage' = "chunks"
    BY DEF NonceChunk
  <1> HIDE DEF todo
  <1>4. done' \in 0..numKBytes
    BY <1>1, <1>2, <1>3
  <1>5. kBytes' \in [1..numKBytes -> [counter : Int, place : Int]]
    BY <1>1, <1>2, <1>3 DEF Copied, NonceInv
  <1>6. ASSUME NEW i \in 1..done'
        PROVE  kBytes'[i].counter \in Nat /\ kBytes'[i].counter + kBytes'[i].place = i
    <2>1. i \in 1..numKBytes
      BY <1>1, <1>4
    <2>2. CASE i <= done
      <3>1. kBytes'[i] = kBytes[i] /\ i \in 1..done
        BY <1>1, <1>3, <2>1, <2>2 DEF Copied
      <3> QED
        BY <3>1 DEF NonceInv
    <2>3. CASE i > done
      <3>1. kBytes'[i] = [counter |-> done, place |-> i - done]
        BY <1>1, <1>2, <1>3, <2>1, <2>3 DEF Copied
      <3> QED
        BY <1>1, <3>1
    <2> QED
      BY <1>1, <2>1, <2>2, <2>3
  <1> QED
    BY <1>1, <1>3, <1>4, <1>5, <1>6 DEF NonceInv

LEMMA NonceInvStep ==
    ASSUME NonceInv, [NonceNext]_nonceVars
    PROVE  NonceInv'
  <1>1. CASE NonceChunk
    BY <1>1, ChunkInv
  <1>2. CASE RandFails
    BY <1>2 DEF RandFails, NonceInv
  <1>3. CASE NonceReduce
    BY <1>3 DEF NonceReduce, NonceInv
  <1>4. CASE UNCHANGED nonceVars
    BY <1>4 DEF nonceVars, NonceInv
  <1> QED
    BY <1>1, <1>2, <1>3, <1>4 DEF NonceNext

(* However long the nonce, it is made of bytes that were all written, no    *)
(* two of them the same byte of the same digest: the counter that is hashed *)
(* is the number of bytes there are, which no two digests share.            *)
THEOREM NonceBytesAlwaysIndependent == NonceSpec => []NonceBytesIndependent
  <1>1. NonceInv => NonceBytesIndependent
    <2> SUFFICES ASSUME NonceInv, stage = "reduced"
                 PROVE  /\ \A i \in 1..numKBytes : kBytes[i] # Uninitialised
                        /\ \A i, j \in 1..numKBytes : i # j => kBytes[i] # kBytes[j]
      BY DEF NonceBytesIndependent
    <2>1. \A i \in 1..numKBytes : kBytes[i].counter \in Nat
                                 /\ kBytes[i].counter + kBytes[i].place = i
      BY DEF NonceInv
    <2>2. Uninitialised.counter \notin Nat
      BY DEF Uninitialised
    <2> QED
      BY <2>1, <2>2
  <1> QED
    BY <1>1, NonceInvInit, NonceInvStep, PTL DEF NonceSpec
=============================================================================
