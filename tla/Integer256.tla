----------------------------- MODULE Integer256 -----------------------------
(***************************************************************************)
(* Integer256.ml: 256-bit integers as pairs of Uint128, and what PrimTypes *)
(* makes of the strings that are read as such integers.                    *)
(*                                                                         *)
(* The width is a parameter: DigitBits stands for 64.  A word is a high    *)
(* and a low half of two digits each; multiplication goes digit by digit,  *)
(* division bit by bit.  Two loops are state machines: divloop, and the    *)
(* fold of of_string over the characters.  A string is a sign and a        *)
(* sequence of decimal digits.                                             *)
(***************************************************************************)
EXTENDS Integers, Sequences, SequencesExt

CONSTANTS
    DigitBits,       \* 64 in the code
    MaxDigits        \* bound on the length of the strings that are read

ASSUME DigitBitsAssumption ==
    /\ DigitBits \in Nat \ {0, 1} /\ MaxDigits \in Nat

Base == 2^DigitBits              \* a digit is below Base,
HalfBits == 2 * DigitBits
HalfSize == Base * Base          \* a half, a Uint128, below HalfSize
Bits == 4 * DigitBits

Halves == 0..(HalfSize - 1)
Words == [high : Halves, low : Halves]

Word(h, l) == [high |-> h, low |-> l]
Zero == Word(0, 0)
One == Word(0, 1)

VARIABLES
    num, den,        \* the operands
    quo, rem,        \* q and r of divloop
    bit,             \* its counter i
    text,            \* the characters of_string has consumed
    word             \* the number it made of them

divVars == <<num, den, quo, rem, bit>>
textVars == <<text, word>>

-----------------------------------------------------------------------------
(* Uint128, from the stdint library. *)

Plus(m, n) == (m + n) % HalfSize
Minus(m, n) == (m - n) % HalfSize
Times(m, n) == (m * n) % HalfSize
ShiftHalfLeft(m, s) == (m * 2^s) % HalfSize
ShiftHalfRight(m, s) == m \div 2^s

(* m with a single bit set, or cleared; a half without that bit is 0. *)
OrBit(single, m) ==
    IF single = 0 \/ (m \div single) % 2 = 1 THEN m ELSE m + single
AndNotBit(single, m) ==
    IF single = 0 \/ (m \div single) % 2 = 0 THEN m ELSE m - single

-----------------------------------------------------------------------------
(* module Uint256 *)

GetLow(m) == m % Base
GetHigh(m) == m \div Base
HighLow(m, n) == Plus(ShiftHalfLeft(m, DigitBits), GetLow(n))

Compare(a, b) ==
    IF a.high < b.high \/ (a.high = b.high /\ a.low < b.low) THEN -1
    ELSE IF a = b THEN 0 ELSE 1

Add(a, b) ==
    LET low == Plus(a.low, b.low)
        carry == IF low < a.low \/ low < b.low THEN 1 ELSE 0
    IN  Word(Plus(Plus(a.high, b.high), carry), low)

Sub(a, b) ==
    LET borrow == IF a.low < b.low THEN 1 ELSE 0
    IN  Word(Minus(Minus(a.high, b.high), borrow), Minus(a.low, b.low))

ShiftLeft(a, s) ==
    IF s >= Bits THEN Zero
    ELSE IF s >= HalfBits THEN Word(ShiftHalfLeft(a.low, s - HalfBits), 0)
    ELSE IF s = 0 THEN a
    ELSE Word(Plus(ShiftHalfLeft(a.high, s), ShiftHalfRight(a.low, HalfBits - s)),
              ShiftHalfLeft(a.low, s))

SetBit(a, i) ==
    LET single == ShiftLeft(One, i)
    IN  Word(OrBit(single.high, a.high), OrBit(single.low, a.low))

ClearBit(a, i) ==
    LET single == SetBit(Zero, i)
    IN  Word(AndNotBit(single.high, a.high), AndNotBit(single.low, a.low))

IsSet(a, i) == SetBit(a, i) = a

Digit(a, i) ==
    LET half == IF i < 2 THEN a.low ELSE a.high
    IN  IF i % 2 = 0 THEN GetLow(half) ELSE GetHigh(half)

(* Row j of the long multiplication: the product of digit j of b and the    *)
(* digits of a, each with the carry of the one before.                      *)
Row(a, b, j) ==
    LET s[k \in 0..(3 - j)] ==
          LET product == Times(Digit(b, j), Digit(a, k))
          IN  IF k = 0 THEN product ELSE Plus(GetHigh(s[k - 1]), product)
    IN  s

(* Mutant: the carries between the columns of the result are dropped. *)
MulNoCarry(a, b) ==
    LET rows == [j \in 0..3 |-> Row(a, b, j)]
        column(n) == FoldLeft(LAMBDA sum, j : Plus(sum, GetLow(rows[j - 1][n + 1 - j])),
                              0, [j \in 1..(n + 1) |-> j])
    IN  Word(HighLow(column(3), column(2)), HighLow(column(1), column(0)))

(* Now add the rows up. *)
Mul(a, b) ==
    LET rows == [j \in 0..3 |-> Row(a, b, j)]
        column(n) == FoldLeft(LAMBDA sum, j : Plus(sum, GetLow(rows[j - 1][n + 1 - j])),
                              0, [j \in 1..(n + 1) |-> j])
        r[n \in 0..3] == IF n = 0 THEN column(0)
                         ELSE Plus(column(n), GetHigh(r[n - 1]))
    IN  Word(HighLow(r[3], r[2]), HighLow(r[1], r[0]))

-----------------------------------------------------------------------------
(* divrem *)

Small(a, b) == a.high = 0 /\ b.high = 0

(* If we can do 128b arithmetic, do it. *)
Start(a, b) ==
    IF Small(a, b)
    THEN [quo |-> Word(0, a.low \div b.low), rem |-> Word(0, a.low % b.low), bit |-> -1]
    ELSE [quo |-> Zero, rem |-> Zero, bit |-> Bits - 1]

(* Mutant: R > D where R >= D is meant. *)
DivStepStrict(a, b, s) ==
    LET shifted == ShiftLeft(s.rem, 1)
        r == IF IsSet(a, s.bit) THEN SetBit(shifted, 0) ELSE ClearBit(shifted, 0)
    IN  IF Compare(r, b) > 0
        THEN [quo |-> SetBit(s.quo, s.bit), rem |-> Sub(r, b), bit |-> s.bit - 1]
        ELSE [quo |-> s.quo, rem |-> r, bit |-> s.bit - 1]

(* One round of divloop. *)
DivStep(a, b, s) ==
    LET shifted == ShiftLeft(s.rem, 1)
        r == IF IsSet(a, s.bit) THEN SetBit(shifted, 0) ELSE ClearBit(shifted, 0)
    IN  IF Compare(r, b) >= 0
        THEN [quo |-> SetBit(s.quo, s.bit), rem |-> Sub(r, b), bit |-> s.bit - 1]
        ELSE [quo |-> s.quo, rem |-> r, bit |-> s.bit - 1]

(* divrem as a whole, for of_string and to_string. *)
DivRem(a, b) ==
    LET start == Start(a, b)
    IN  FoldLeft(LAMBDA s, n : DivStep(a, b, s), start, [n \in 1..(start.bit + 1) |-> n])

-----------------------------------------------------------------------------
(* module Int256 *)

MinInt == SetBit(Zero, Bits - 1)
IsNeg(a) == IsSet(a, Bits - 1)

(* take 2s complement *)
Neg(a) == Add(Word(HalfSize - 1 - a.high, HalfSize - 1 - a.low), One)

AbsWord(a) == IF IsNeg(a) THEN Neg(a) ELSE a

SignedCompare(a, b) ==
    IF IsNeg(a) /\ ~IsNeg(b) THEN -1
    ELSE IF ~IsNeg(a) /\ IsNeg(b) THEN 1
    ELSE Compare(a, b)

(* Mutant: the remainder takes the sign of the divisor. *)
SignedResultByDivisor(a, b, q, r) ==
    [quo |-> IF IsNeg(a) = IsNeg(b) THEN q ELSE Neg(q),
     rem |-> IF IsNeg(b) THEN Neg(r) ELSE r]

(* Int256.divrem: q and r are Uint256.divrem's for the absolute values. *)
SignedResult(a, b, q, r) ==
    [quo |-> IF IsNeg(a) = IsNeg(b) THEN q ELSE Neg(q),
     rem |-> IF IsNeg(a) THEN Neg(r) ELSE r]

-----------------------------------------------------------------------------
(* Strings. *)

Ten == Word(10 \div HalfSize, 10 % HalfSize)
DigitWord(d) == Word(d \div HalfSize, d % HalfSize)

(* Uint256.to_string: app, most significant digit first. *)
Numeral(w) ==
    LET app[i \in Words] ==
          IF i = Zero THEN <<>>
          ELSE LET d == DivRem(i, Ten) IN Append(app[d.quo], d.rem.low)
    IN  IF w = Zero THEN <<0>> ELSE app[w]

(* Strings with a leading minus are no Uint256. *)
UintLiteral(minus, s, w) ==
    IF ~minus /\ Numeral(w) = s THEN <<w>> ELSE <<>>

(* Mutant: what of_string accepts is a literal. *)
IntLiteralUnchecked(minus, s, w) ==
    IF IsNeg(w) /\ w # MinInt THEN <<>>
    ELSE <<IF minus THEN Neg(w) ELSE w>>

(* build_int: of_string must succeed and to_string must give the string     *)
(* back.  of_string lets min_int pass with and without a minus.             *)
IntLiteral(minus, s, w) ==
    IF IsNeg(w) /\ w # MinInt THEN <<>>
    ELSE LET i == IF minus THEN Neg(w) ELSE w
         IN  IF minus = IsNeg(i) /\ Numeral(AbsWord(i)) = s THEN <<i>> ELSE <<>>

-----------------------------------------------------------------------------
DivInit ==
    /\ num \in Words /\ den \in Words \ {Zero}
    /\ quo = Start(num, den).quo
    /\ rem = Start(num, den).rem
    /\ bit = Start(num, den).bit

DivLoop ==
    /\ bit >= 0
    /\ LET next == DivStep(num, den, [quo |-> quo, rem |-> rem, bit |-> bit])
       IN  quo' = next.quo /\ rem' = next.rem /\ bit' = next.bit
    /\ UNCHANGED <<num, den>>

(* The division of any two words, on its own. *)
DivSpec == DivInit /\ [][DivLoop]_divVars

TextInit == text = <<>> /\ word = Zero

(* of_string's fold: one more character. *)
ReadDigit(d) ==
    /\ Len(text) < MaxDigits
    /\ text' = Append(text, d)
    /\ word' = Add(Mul(word, Ten), DigitWord(d))

TextNext == \E d \in 0..9 : ReadDigit(d)

(* The reading of any string of digits, on its own. *)
TextSpec == TextInit /\ [][TextNext]_textVars

-----------------------------------------------------------------------------
(* Properties. *)

Val(w) == w.high * HalfSize + w.low
SignedVal(w) == IF IsNeg(w) THEN Val(w) - HalfSize * HalfSize ELSE Val(w)

Rep == INSTANCE IntRep WITH Half <- (HalfSize * HalfSize) \div 2

(* Before the bits below bit + 1 are processed, the higher bits of the      *)
(* numerator have been divided: the quotient is exact, the remainder below  *)
(* the divisor, and shifting it has lost no bit.                            *)
DivisionInvariant ==
    LET weight == 2^(bit + 1)
    IN  /\ quo \in Words /\ rem \in Words
        /\ Val(quo) % weight = 0
        /\ Val(num) \div weight = (Val(quo) \div weight) * Val(den) + Val(rem)
        /\ Val(rem) < Val(den)

(* Uint256 and Int256 are integers of their width, as SafeArith.ml expects  *)
(* of an IntRep: every operation on pairs of halves is the one on numbers.  *)
ImplementsIntRep ==
    bit = -1 =>
        /\ Val(Add(num, den)) = Rep!UWrap(Val(num) + Val(den))
        /\ Val(Sub(num, den)) = Rep!UWrap(Val(num) - Val(den))
        /\ Val(Mul(num, den)) = Rep!UWrap(Val(num) * Val(den))
        /\ Compare(num, den) < 0 <=> Val(num) < Val(den)
        /\ SignedVal(Add(num, den)) = Rep!SWrap(SignedVal(num) + SignedVal(den))
        /\ SignedVal(Sub(num, den)) = Rep!SWrap(SignedVal(num) - SignedVal(den))
        /\ SignedVal(Mul(num, den)) = Rep!SWrap(SignedVal(num) * SignedVal(den))
        /\ SignedCompare(num, den) < 0 <=> SignedVal(num) < SignedVal(den)

(* Signed division truncates towards zero, the remainder has the sign of    *)
(* the dividend, and min_int / -1 is the only quotient that wraps.          *)
SignedDivisionExact ==
    bit = -1 =>
        \A a \in {num, Neg(num)}, b \in {den, Neg(den)} :
            AbsWord(a) = num /\ AbsWord(b) = den =>
                LET res == SignedResult(a, b, quo, rem)
                IN  /\ SignedVal(res.quo) =
                         Rep!SWrap(Rep!Quot(SignedVal(a), SignedVal(b)))
                    /\ SignedVal(res.rem) = Rep!Rem(SignedVal(a), SignedVal(b))

Decimal(s) == FoldLeft(LAMBDA n, d : 10 * n + d, 0, s)

Canonical(s) == s # <<>> /\ (Head(s) = 0 => Len(s) = 1)

(* A string is an integer literal exactly if it is how an integer that the  *)
(* width has is written, although of_string itself wraps around and takes   *)
(* 2^255 for a negative number.                                             *)
LiteralsExact ==
    /\ UintLiteral(FALSE, text, word) # <<>>
         <=> Canonical(text) /\ Decimal(text) \in Rep!UInts
    /\ \A minus \in BOOLEAN :
         LET literal == IntLiteral(minus, text, word)
             n == IF minus THEN -Decimal(text) ELSE Decimal(text)
         IN  /\ literal # <<>>
                  <=> Canonical(text) /\ n \in Rep!SInts /\ ~(minus /\ n = 0)
             /\ literal # <<>> => SignedVal(literal[1]) = n
=============================================================================
