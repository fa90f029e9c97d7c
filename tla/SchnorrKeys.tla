---------------------------- MODULE SchnorrKeys -----------------------------
(***************************************************************************)
(* PrivKey, PubKey and Signature of the C++ library, ECPOINTSerialize and  *)
(* the curve they live on.                                                 *)
(*                                                                         *)
(* The group has odd order: P and its negation share their first           *)
(* coordinate, and the second tells them apart by its parity.              *)
(* Objects hold their BIGNUM or EC_POINT by value: copying and assigning   *)
(* copy it (BN_copy, EC_POINT_copy).                                       *)
(*                                                                         *)
(* OpenSSL may run out of memory.  `converted' says whether a point was    *)
(* turned into a number; `copied' how many of a Deserialize's copies into  *)
(* its object went through, 0 also standing for a number or point that     *)
(* could not be made of the bytes.  A copy is whole or not made.  Null     *)
(* pointers of BN_new and EC_POINT_new, which the code logs and then uses, *)
(* are left out.                                                           *)
(***************************************************************************)
EXTENDS Bytes, Curve

CONSTANTS
    ScalarSize,      \* PRIV_KEY_SIZE, SIGNATURE_CHALLENGE_SIZE, SIGNATURE_RESPONSE_SIZE: 32
    CoordSize,       \* bytes of a coordinate: 32
    ZeroIsPoint      \* whether EC_POINT_bn2point reads 0 as infinity (OpenSSL 1.1.1) or fails

ASSUME KeysAssumption ==
    /\ Order % 2 = 1
    /\ ScalarSize \in Nat \ {0} /\ CoordSize \in Nat \ {0}
    /\ Order <= Power(Byte, ScalarSize) /\ Order \div 2 < Power(Byte, CoordSize)
    /\ ZeroIsPoint \in BOOLEAN

PubKeySize == 1 + CoordSize
SignatureSize == 2 * ScalarSize

Scalars == 0..(Power(Byte, ScalarSize) - 1)

-----------------------------------------------------------------------------
(* OpenSSL: the compressed form of a point. *)

Coordinate(P) == IF P <= Order \div 2 THEN P ELSE Order - P
OddY(P) == P > Order \div 2

Point2oct(P) ==
    IF P = Infinity THEN <<0>>
    ELSE <<IF OddY(P) THEN 3 ELSE 2>> \o IntegerToBytes(Coordinate(P), CoordSize)

Point2bn(P) == Bin2bn(Point2oct(P))

(* Octets without leading zeros must be exactly those of a point. *)
Bn2point(v) ==
    IF v = 0 THEN IF ZeroIsPoint THEN Infinity ELSE Null
    ELSE IF \E P \in Keys : Point2oct(P) = Bn2bin(v)
         THEN CHOOSE P \in Keys : Point2oct(P) = Bn2bin(v)
         ELSE Null

-----------------------------------------------------------------------------
(* ECPOINTSerialize *)

PointGetNumber(src, offset, size) ==
    LET v == BnGetNumber(src, offset, size)
    IN  IF v = Null THEN Null ELSE Bn2point(v)

(* A point that was not converted is not written; nobody is told. *)
PointSetNumber(dst, offset, size, P, converted) ==
    IF converted THEN BnSetNumber(dst, offset, size, Point2bn(P)) ELSE dst

-----------------------------------------------------------------------------
(* PrivKey: a scalar that nothing keeps below the order. *)

(* The default constructor draws until it has a key, unless the generator   *)
(* fails, which leaves the fresh number.                                    *)
NewPrivKeys == Keys \cup {0}

PrivKeySerialize(dst, offset, d) == BnSetNumber(dst, offset, ScalarSize, d)

(* The return code and the object after it. *)
PrivKeyDeserialize(d, src, offset, copied) ==
    LET v == BnGetNumber(src, offset, ScalarSize)
    IN  IF v = Null \/ copied < 1 THEN [code |-> -1, key |-> d] ELSE [code |-> 0, key |-> v]

(* The constructor from a stream ignores the code. *)
PrivKeyOf(src, offset, copied) == PrivKeyDeserialize(0, src, offset, copied).key

(* Two characters a byte, or std::invalid_argument. *)
GetPrivKeyFromString(str, copied) ==
    LET v == HexStrToUint8Vec(str)
    IN  IF Len(str) # 2 * ScalarSize \/ ~v.ok THEN Null ELSE PrivKeyOf(v.out, 0, copied)

-----------------------------------------------------------------------------
(* PubKey *)

PubKeySerialize(dst, offset, P, converted) ==
    PointSetNumber(dst, offset, PubKeySize, P, converted)

PubKeyDeserialize(P, src, offset, copied) ==
    LET Q == PointGetNumber(src, offset, PubKeySize)
    IN  IF Q = Null \/ copied < 1 THEN [code |-> -1, key |-> P] ELSE [code |-> 0, key |-> Q]

PubKeyOf(src, offset, copied) == PubKeyDeserialize(Infinity, src, offset, copied).key

GetPubKeyFromString(str, copied) ==
    LET v == HexStrToUint8Vec(str)
    IN  IF Len(str) # 2 * PubKeySize \/ ~v.ok THEN Null ELSE PubKeyOf(v.out, 0, copied)

(* Mutant: the sign of the second coordinate is not compared. *)
PubKeyLessByCoordinate(P, R) == Coordinate(P) < Coordinate(R)

(* operator< compares the numbers of the compressed forms; all of these     *)
(* answer false when OpenSSL cannot convert both points.                    *)
PubKeyLess(P, R) == Point2bn(P) < Point2bn(R)
PubKeyGreater(P, R) == PubKeyLess(R, P)
PubKeyEqual(P, R) == Point2bn(P) = Point2bn(R)

-----------------------------------------------------------------------------
(* Signature *)

SignatureSerialize(dst, offset, sig) ==
    BnSetNumber(BnSetNumber(dst, offset, ScalarSize, sig.r),
                offset + ScalarSize, ScalarSize, sig.s)

(* Mutant: the challenge is taken over before the response is read. *)
SignatureDeserializeEagerly(sig, src, offset, copied) ==
    LET r == BnGetNumber(src, offset, ScalarSize)
        s == BnGetNumber(src, offset + ScalarSize, ScalarSize)
    IN  IF r = Null \/ copied < 1 THEN [code |-> -1, sig |-> sig]
        ELSE IF s = Null \/ copied < 2 THEN [code |-> -1, sig |-> [sig EXCEPT !.r = r]]
        ELSE [code |-> 0, sig |-> [r |-> r, s |-> s]]

(* Both numbers are there before the first is copied.  If the second copy   *)
(* fails, the new challenge stays with the old response.                    *)
SignatureDeserialize(sig, src, offset, copied) ==
    LET r == BnGetNumber(src, offset, ScalarSize)
        s == BnGetNumber(src, offset + ScalarSize, ScalarSize)
    IN  IF r = Null \/ s = Null \/ copied < 1 THEN [code |-> -1, sig |-> sig]
        ELSE IF copied < 2 THEN [code |-> -1, sig |-> [sig EXCEPT !.r = r]]
        ELSE [code |-> 0, sig |-> [r |-> r, s |-> s]]

SignatureOf(src, offset, copied) == SignatureDeserialize(NewSignature, src, offset, copied).sig
=============================================================================
