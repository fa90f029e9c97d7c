------------------------------- MODULE Bytes --------------------------------
(***************************************************************************)
(* Byte streams of the C++ library: BIGNUMSerialize.cpp, the number        *)
(* templates of Serializable.h and the conversions of DataConversion.      *)
(*                                                                         *)
(* A stream is a sequence of bytes; offsets count from 0 as in the code.   *)
(* A character of a hexadecimal string is the value of its digit in upper  *)
(* case, that value and Digit in lower case, or NonHex.                    *)
(***************************************************************************)
EXTENDS Powers, Sequences, SequencesExt, FiniteSetsExt

CONSTANTS
    Digit,           \* values of a hexadecimal digit: 16
    Decimals,        \* those of them whose characters have no case: 10
    UintModulus      \* 2^32, the range of an unsigned int

ASSUME BytesAssumption ==
    Digit \in Nat \ {0, 1} /\ Decimals \in 1..Digit /\ UintModulus \in Nat \ {0}

Byte == Digit * Digit
AllBytes == 0..(Byte - 1)
Unsigned(n) == n % UintModulus

NonHex == -1
Null == -1                      \* a null pointer where a number could be

Zeros(n) == [i \in 1..n |-> 0]

(* bytes::resize *)
Resize(dst, n) ==
    IF n <= Len(dst) THEN SubSeq(dst, 1, n) ELSE dst \o Zeros(n - Len(dst))

(* fill and memcpy: src over the bytes of dst from offset on. *)
Place(dst, offset, src) ==
    [i \in 1..Len(dst) |->
        IF i \in (offset + 1)..(offset + Len(src)) THEN src[i - offset] ELSE dst[i]]

Slice(src, offset, size) == SubSeq(src, offset + 1, offset + size)

-----------------------------------------------------------------------------
(* OpenSSL's conversions of a BIGNUM: big-endian, without leading zeros.    *)

Bin2bn(s) == FoldLeft(LAMBDA z, b : z * Byte + b, 0, s)

(* The n bytes of a number. *)
BigEndian(v, n) == [i \in 1..n |-> (v \div Power(Byte, n - i)) % Byte]

NumBytes(v) == CHOOSE n \in 0..v : v < Power(Byte, n) /\ (n = 0 \/ Power(Byte, n - 1) <= v)

Bn2bin(v) == BigEndian(v, NumBytes(v))

-----------------------------------------------------------------------------
(* BIGNUMSerialize *)

BnGetNumber(src, offset, size) ==
    IF Unsigned(offset + size) > Len(src) THEN Null
    ELSE Bin2bn(Slice(src, offset, size))

(* Mutant: the number is put first and not padded. *)
BnSetNumberUnpadded(dst, offset, size, value) ==
    IF NumBytes(value) > size THEN dst
    ELSE LET room == IF Unsigned(offset + size) > Len(dst) THEN Resize(dst, offset + size) ELSE dst
         IN  Place(room, offset, Bn2bin(value))

(* Mutant: only as many bytes as the number needs. *)
BnSetNumberMinimal(dst, offset, size, value) ==
    IF NumBytes(value) > size THEN dst
    ELSE LET room == Resize(dst, Max({Len(dst), offset + NumBytes(value)}))
         IN  Place(room, offset, Bn2bin(value))

(* Mutant: a stream is cut to the end of what is written. *)
BnSetNumberCutting(dst, offset, size, value) ==
    IF NumBytes(value) > size THEN dst
    ELSE LET room == Resize(dst, offset + size)
         IN  Place(room, offset, Zeros(size - NumBytes(value)) \o Bn2bin(value))

(* A number that is too large for its field is not written at all. *)
BnSetNumber(dst, offset, size, value) ==
    IF NumBytes(value) > size THEN dst
    ELSE LET room == IF Unsigned(offset + size) > Len(dst) THEN Resize(dst, offset + size) ELSE dst
         IN  Place(room, offset, Zeros(size - NumBytes(value)) \o Bn2bin(value))

-----------------------------------------------------------------------------
(* Serializable: numbers of a C++ integer type in len bytes, big-endian.    *)

(* Mutant: the last bytes of a stream are not read. *)
GetNumberStrict(src, offset, len) ==
    IF Unsigned(offset + len) >= Len(src) THEN 0
    ELSE FoldLeft(+, 0, [i \in 1..len |-> src[offset + i] * Power(Byte, len - i)])

GetNumber(src, offset, len) ==
    IF Unsigned(offset + len) > Len(src) THEN 0
    ELSE FoldLeft(+, 0, [i \in 1..len |-> src[offset + i] * Power(Byte, len - i)])

(* "Destination is resized if necessary", but dst.size() - offset is        *)
(* unsigned: beyond the end there seems to be ample room, nothing is        *)
(* resized, and the first dst.at throws.                                    *)
SetNumber(dst, offset, value, len) ==
    LET available == Unsigned(Len(dst) - offset)
        room == IF available < len THEN Resize(dst, Len(dst) + len - available) ELSE dst
    IN  IF len > 0 /\ offset >= Len(room) THEN [exn |-> "out_of_range", stream |-> dst]
        ELSE [exn |-> "none",
              stream |-> Place(room, offset, BigEndian(value, len))]

-----------------------------------------------------------------------------
(* DataConversion *)

(* boost::algorithm::hex prints upper case. *)
HexOf(s) == [i \in 1..(2 * Len(s)) |->
                IF i % 2 = 1 THEN s[(i + 1) \div 2] \div Digit ELSE s[i \div 2] % Digit]

LowerCase(str) == [i \in 1..Len(str) |-> IF str[i] < Decimals THEN str[i] ELSE str[i] + Digit]

(* What unhex takes a character for, in either case. *)
DigitValue(c) == IF c < Digit THEN c ELSE c - Digit

(* Mutant: a last digit without its partner is dropped. *)
HexStrToUint8VecLax(str) ==
    LET good == {n \in 0..(Len(str) \div 2) : \A i \in 1..(2 * n) : str[i] # NonHex}
        pairs == Max(good)
    IN  [ok |-> pairs = Len(str) \div 2,
         out |-> [i \in 1..pairs |-> DigitValue(str[2 * i - 1]) * Digit + DigitValue(str[2 * i])]]

(* boost::algorithm::unhex: an exception leaves the bytes decoded so far.   *)
HexStrToUint8Vec(str) ==
    LET good == {n \in 0..(Len(str) \div 2) : \A i \in 1..(2 * n) : str[i] # NonHex}
        pairs == Max(good)
    IN  [ok |-> 2 * pairs = Len(str),
         out |-> [i \in 1..pairs |-> DigitValue(str[2 * i - 1]) * Digit + DigitValue(str[2 * i])]]

(* HexStrToStdArray and HexStrToStdArray64: an array of n bytes. *)
HexStrToStdArray(str, n) ==
    LET v == HexStrToUint8Vec(str)
    IN  IF v.ok THEN [ok |-> TRUE, out |-> Resize(v.out, n)]
        ELSE [ok |-> FALSE, out |-> Zeros(n)]

Uint8VecToHexStr(s, offset, len) == HexOf(Slice(s, offset, len))

(* lsb is unsigned: with one byte, lsb - 1 is no index. *)
CharArrTo16Bits(s) ==
    IF Len(s) = 0 THEN 0
    ELSE IF Len(s) = 1 THEN Null
    ELSE s[Len(s) - 1] * Byte + s[Len(s)]

Pack(a, b) == a * Power(Byte, 2) + b
UnpackA(n) == n \div Power(Byte, 2)
UnpackB(n) == n % Power(Byte, 2)

IntegerToBytes(value, size) == BigEndian(value, size)

(* std::hex prints lower case, no leading zeros, but one digit for 0.       *)
IntegerToHexString(value, size) ==
    LET n == CHOOSE n \in 1..(value + 1) : value < Power(Digit, n) /\ (n = 1 \/ Power(Digit, n - 1) <= value)
        shown == [i \in 1..n |-> (value \div Power(Digit, n - i)) % Digit]
    IN  LowerCase(IF n < 2 * size THEN Zeros(2 * size - n) \o shown ELSE shown)
=============================================================================
