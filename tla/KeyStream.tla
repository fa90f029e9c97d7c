----------------------------- MODULE KeyStream ------------------------------
(***************************************************************************)
(* A byte stream into which keys, signatures and plain numbers are written *)
(* and from which they are read, at any offset: the Serializable interface *)
(* as its users see it, whatever they did with the stream before.          *)
(***************************************************************************)
EXTENDS SchnorrKeys

CONSTANTS
    MaxStream,       \* bound on the length of the stream, in memory far below 2^32
    MaxLen           \* bound on the bytes of a plain number (its type has as many)

ASSUME StreamAssumption ==
    /\ MaxStream \in Nat /\ MaxLen \in Nat
    /\ MaxStream + MaxLen < UintModulus
    /\ MaxStream + PubKeySize < UintModulus /\ MaxStream + SignatureSize < UintModulus

VARIABLES
    dst,             \* the stream
    object           \* the Serializable at hand

streamVars == <<dst, object>>

PrivKey(d) == [kind |-> "priv", value |-> d]
PubKey(P) == [kind |-> "pub", value |-> P]
Signature(sig) == [kind |-> "sig", value |-> sig]

(* What the default constructors make. *)
FreshObjects == {PrivKey(d) : d \in NewPrivKeys} \cup {PubKey(Infinity), Signature(NewSignature)}

Offsets == 0..MaxStream

(* Serializable::Serialize, and the size it returns. *)
Serialize(o, stream, offset, converted) ==
    CASE o.kind = "priv" -> PrivKeySerialize(stream, offset, o.value)
      [] o.kind = "pub"  -> PubKeySerialize(stream, offset, o.value, converted)
      [] o.kind = "sig"  -> SignatureSerialize(stream, offset, o.value)

SerializedSize(o) ==
    CASE o.kind = "priv" -> ScalarSize
      [] o.kind = "pub"  -> PubKeySize
      [] o.kind = "sig"  -> SignatureSize

(* Serializable::Deserialize: the code and the object afterwards; and how   *)
(* many copies it makes.                                                    *)
Deserialize(o, stream, offset, copied) ==
    CASE o.kind = "priv" -> LET d == PrivKeyDeserialize(o.value, stream, offset, copied)
                            IN  [code |-> d.code, object |-> PrivKey(d.key)]
      [] o.kind = "pub"  -> LET d == PubKeyDeserialize(o.value, stream, offset, copied)
                            IN  [code |-> d.code, object |-> PubKey(d.key)]
      [] o.kind = "sig"  -> LET d == SignatureDeserialize(o.value, stream, offset, copied)
                            IN  [code |-> d.code, object |-> Signature(d.sig)]

Copies(o) == IF o.kind = "sig" THEN 2 ELSE 1

-----------------------------------------------------------------------------
StreamInit == dst = <<>> /\ object \in FreshObjects

StreamIdle == dst = <<>> /\ object = Signature(NewSignature)

(* A caller starts with no bytes. *)
NewStream == dst' = <<>> /\ UNCHANGED object

NewObject == object' \in FreshObjects /\ UNCHANGED dst

(* The public key of a private key, unless EC_POINT_mul fails. *)
DerivePubKey ==
    /\ object.kind = "priv"
    /\ object' \in {PubKey(PubKeyOfPrivKey(object.value)), PubKey(Infinity)}
    /\ UNCHANGED dst

Write(offset, converted) ==
    /\ offset + SerializedSize(object) <= MaxStream
    /\ dst' = Serialize(object, dst, offset, converted)
    /\ UNCHANGED object

Read(offset, copied) ==
    /\ object' = Deserialize(object, dst, offset, copied).object
    /\ UNCHANGED dst

(* Serializable::SetNumber; the exception leaves the stream as it is.       *)
WriteNumber(offset, value, len) ==
    /\ offset + len <= MaxStream
    /\ dst' = SetNumber(dst, offset, value, len).stream
    /\ UNCHANGED object

StreamNext ==
    \/ NewStream
    \/ NewObject
    \/ DerivePubKey
    \/ \E offset \in Offsets :
         \/ \E converted \in BOOLEAN : Write(offset, converted)
         \/ \E copied \in 0..Copies(object) : Read(offset, copied)
         \/ \E len \in 0..MaxLen : \E value \in 0..(Power(Byte, len) - 1) : WriteNumber(offset, value, len)

StreamSpec == StreamInit /\ [][StreamNext]_streamVars

-----------------------------------------------------------------------------
(* Properties. *)

(* What a write of size bytes at an offset may make of a stream: only those *)
(* bytes change, and what had to be added before them is zero.              *)
OnlyWindow(before, after, offset, size) ==
    /\ Len(after) = Max({Len(before), offset + size})
    /\ \A i \in 1..Len(after) : i \notin (offset + 1)..(offset + size) =>
         after[i] = IF i <= Len(before) THEN before[i] ELSE 0

(* Infinity is written as zeros, which need not be read as a point.         *)
Unreadable(o) == o = PubKey(Infinity) /\ ~ZeroIsPoint

(* Every fresh object of the same kind becomes o by a read at an offset.    *)
FoundAt(o, stream, offset) ==
    \A fresh \in FreshObjects : fresh.kind = o.kind =>
        Deserialize(fresh, stream, offset, Copies(o)) =
            IF Unreadable(o) THEN [code |-> -1, object |-> fresh] ELSE [code |-> 0, object |-> o]

(* Whatever the stream held before, wherever the write goes: a new object   *)
(* reads, with success, what was written, only infinity may be refused; and *)
(* nothing but the bytes of the reported size is touched.  A public key     *)
(* that OpenSSL cannot convert leaves no trace, though its size is reported *)
(* all the same.                                                            *)
WritesLand ==
    [][\A offset \in Offsets, converted \in BOOLEAN : Write(offset, converted) =>
         IF object.kind = "pub" /\ ~converted THEN dst' = dst
         ELSE /\ OnlyWindow(dst, dst', offset, SerializedSize(object))
              /\ FoundAt(object, dst', offset)]_streamVars

(* The one way to have half a signature: the stream's challenge was copied, *)
(* its response was not.                                                    *)
Torn(o, stream, offset, copied, after) ==
    /\ o.kind = "sig" /\ copied = 1
    /\ LET whole == Deserialize(o, stream, offset, 2)
       IN  whole.code = 0 /\ after = Signature([r |-> whole.object.value.r, s |-> o.value.s])

(* A key is read as a whole or not at all, whatever the stream lacks and    *)
(* wherever OpenSSL fails: an error code comes with an unchanged object.    *)
(* So is a signature, except that a failing copy of the response leaves it  *)
(* torn.                                                                    *)
ReadsWhole ==
    \A offset \in Offsets, copied \in 0..Copies(object) :
        LET d == Deserialize(object, dst, offset, copied) IN
        d.code # 0 => d.object = object \/ Torn(object, dst, offset, copied, d.object)

(* No two encodings of one key: what could be read is written back as the   *)
(* very bytes it was read from.                                             *)
OneEncoding ==
    \A offset \in Offsets, copied \in 0..Copies(object) :
        LET d == Deserialize(object, dst, offset, copied) IN
        d.code = 0 => Serialize(d.object, dst, offset, TRUE) = dst

(* PubKey is used as a key of sorted tables: its order is total and agrees  *)
(* with equality, which is that of points.                                  *)
KeysOrdered ==
    object.kind = "pub" => \A R \in Points :
        LET P == object.value
        IN  /\ PubKeyEqual(P, R) <=> P = R
            /\ Cardinality({b \in {1, 2, 3} :
                   \/ b = 1 /\ PubKeyLess(P, R)
                   \/ b = 2 /\ PubKeyEqual(P, R)
                   \/ b = 3 /\ PubKeyGreater(P, R)}) = 1

(* Within a stream, or at its end, a plain number is read back from where   *)
(* it was written, and nothing else changes.                                *)
NumbersReadBack ==
    \A offset \in 0..Len(dst), len \in 1..MaxLen :
        \A value \in 0..(Power(Byte, len) - 1) :
            LET w == SetNumber(dst, offset, value, len)
            IN  /\ w.exn = "none"
                /\ GetNumber(w.stream, offset, len) = value
                /\ OnlyWindow(dst, w.stream, offset, len)

(* Serializable.h:57, of SetNumber: "placing a number into the destination  *)
(* byte stream at the specified offset. Destination is resized if           *)
(* necessary."                                                              *)
NumbersAlwaysPlaced ==
    \A offset \in Offsets, len \in 1..MaxLen :
        \A value \in 0..(Power(Byte, len) - 1) : SetNumber(dst, offset, value, len).exn = "none"

(* Hexadecimal strings in either case, fixed arrays, integers and keys made *)
(* of the same bytes agree, and a string that is cut off or has other       *)
(* characters fails.                                                        *)
ConversionsAgree ==
    /\ HexStrToUint8Vec(HexOf(dst)) = [ok |-> TRUE, out |-> dst]
    /\ \A n \in Offsets : Len(HexStrToStdArray(HexOf(dst), n).out) = n
    /\ ~HexStrToUint8Vec(Append(HexOf(dst), 0)).ok
    /\ ~HexStrToUint8Vec(<<NonHex, 0>> \o HexOf(dst)).ok
    /\ \A offset \in 0..Len(dst) : \A len \in 1..(Len(dst) - offset) :
         LET v == GetNumber(dst, offset, len)
         IN  /\ IntegerToBytes(v, len) = Slice(dst, offset, len)
             /\ \A str \in {IntegerToHexString(v, len), Uint8VecToHexStr(dst, offset, len)} :
                  HexStrToUint8Vec(str) = [ok |-> TRUE, out |-> Slice(dst, offset, len)]
    /\ Len(dst) >= 2 => CharArrTo16Bits(dst) = GetNumber(dst, Len(dst) - 2, 2)
    /\ Len(dst) >= 4 =>
         LET n == Pack(GetNumber(dst, 0, 2), GetNumber(dst, 2, 2))
         IN  n = GetNumber(dst, 0, 4) /\ UnpackA(n) * Power(Byte, 2) + UnpackB(n) = n
    /\ \A copied \in {0, 1} :
         /\ Len(dst) = ScalarSize => GetPrivKeyFromString(HexOf(dst), copied) = PrivKeyOf(dst, 0, copied)
         /\ Len(dst) = PubKeySize => GetPubKeyFromString(HexOf(dst), copied) = PubKeyOf(dst, 0, copied)
=============================================================================
