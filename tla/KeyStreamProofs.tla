-------------------------- MODULE KeyStreamProofs ---------------------------
(***************************************************************************)
(* A stream of bytes within its bound and a well-formed object are all     *)
(* that the properties of KeyStream need: whatever was written and read    *)
(* before, at whatever offsets, the lemmas of BytesProofs about one write  *)
(* or one read apply.                                                      *)
(***************************************************************************)
EXTENDS KeyStream, BytesProofs

-----------------------------------------------------------------------------
(* The invariant. *)

ObjectOK(o) ==
    \/ \E d \in Scalars : o = PrivKey(d)
    \/ \E P \in Points : o = PubKey(P)
    \/ \E sig \in Signatures : o = Signature(sig)

StreamOK(stream) == stream \in Seq(AllBytes) /\ Len(stream) <= MaxStream

StreamInv == StreamOK(dst) /\ ObjectOK(object)

(* The lengths that occur stay far below the range of an unsigned int.      *)
LEMMA OffsetsFit ==
    ASSUME NEW offset \in Offsets
    PROVE  /\ offset \in Nat /\ MaxStream \in Nat /\ MaxLen \in Nat /\ MaxStream < UintModulus
           /\ offset + ScalarSize < UintModulus /\ offset + PubKeySize < UintModulus
           /\ offset + SignatureSize < UintModulus
           /\ \A len \in 0..MaxLen : offset + len < UintModulus
           /\ ScalarSize \in Nat /\ PubKeySize \in Nat /\ SignatureSize \in Nat
  <1>1. /\ MaxStream \in Nat /\ MaxLen \in Nat /\ MaxStream + MaxLen < UintModulus
        /\ MaxStream + PubKeySize < UintModulus /\ MaxStream + SignatureSize < UintModulus
        /\ UintModulus \in Nat
    BY StreamAssumption, BytesAssumption
  <1>2. ScalarSize \in Nat /\ PubKeySize \in Nat /\ SignatureSize = 2 * ScalarSize
    BY ScalarFacts, PointFacts DEF SignatureSize
  <1>3. offset \in Nat /\ offset <= MaxStream
    BY <1>1 DEF Offsets
  <1> QED
    BY <1>1, <1>2, <1>3

-----------------------------------------------------------------------------
(* One write and one read. *)

(* What a write makes of a stream: nothing, if the point was not converted; *)
(* otherwise new objects find there what was written, and the rest is left. *)
Landed(o, stream, offset, converted) ==
    LET after == Serialize(o, stream, offset, converted)
    IN  /\ SerializedSize(o) \in Nat
        /\ IF o.kind = "pub" /\ ~converted THEN after = stream
           ELSE Window(stream, after, offset, SerializedSize(o)) /\ FoundAt(o, after, offset)

LEMMA ObjectLands ==
    ASSUME NEW stream \in Seq(AllBytes), NEW offset \in Offsets, NEW o, ObjectOK(o),
           NEW converted \in BOOLEAN
    PROVE  Landed(o, stream, offset, converted)
  <1>1. /\ offset \in Nat /\ offset + ScalarSize < UintModulus /\ offset + PubKeySize < UintModulus
        /\ offset + SignatureSize < UintModulus
        /\ ScalarSize \in Nat /\ PubKeySize \in Nat /\ SignatureSize \in Nat
    BY OffsetsFit
  <1>2. ASSUME NEW d \in Scalars, o = PrivKey(d)
        PROVE  Landed(o, stream, offset, converted)
    <2> DEFINE after == PrivKeySerialize(stream, offset, d)
    <2>1. o.kind = "priv" /\ o.value = d
      BY <1>2 DEF PrivKey
    <2>2. Serialize(o, stream, offset, converted) = after /\ SerializedSize(o) = ScalarSize
      BY <2>1 DEF Serialize, SerializedSize
    <2>3. /\ Window(stream, after, offset, ScalarSize)
          /\ \A e : PrivKeyDeserialize(e, after, offset, 1) = [code |-> 0, key |-> d]
      BY <1>1, ScalarLands
    <2> HIDE DEF after
    <2>4. ASSUME NEW fresh \in FreshObjects, fresh.kind = o.kind
          PROVE  Deserialize(fresh, after, offset, 1) = [code |-> 0, object |-> o]
      <3>1. fresh.kind = "priv"
        BY <2>1, <2>4
      <3>2. PrivKeyDeserialize(fresh.value, after, offset, 1) = [code |-> 0, key |-> d]
        BY <2>3
      <3> QED
        BY <1>2, <3>1, <3>2 DEF Deserialize
    <2>5. Copies(o) = 1 /\ ~Unreadable(o)
      BY <1>2, <2>1 DEF Copies, Unreadable, PubKey, PrivKey
    <2>6. FoundAt(o, after, offset)
      BY <2>4, <2>5 DEF FoundAt
    <2> QED
      BY <1>1, <2>1, <2>2, <2>3, <2>6 DEF Landed
  <1>3. ASSUME NEW P \in Points, o = PubKey(P)
        PROVE  Landed(o, stream, offset, converted)
    <2>1. o.kind = "pub" /\ o.value = P
      BY <1>3 DEF PubKey
    <2>2. /\ Serialize(o, stream, offset, converted) = PubKeySerialize(stream, offset, P, converted)
          /\ SerializedSize(o) = PubKeySize
      BY <2>1 DEF Serialize, SerializedSize
    <2>3. CASE ~converted
      <3>1. PubKeySerialize(stream, offset, P, converted) = stream
        BY <2>3 DEF PubKeySerialize, PointSetNumber
      <3> QED
        BY <1>1, <2>1, <2>2, <2>3, <3>1 DEF Landed
    <2>4. CASE converted
      <3> DEFINE after == PubKeySerialize(stream, offset, P, TRUE)
      <3>1. Serialize(o, stream, offset, converted) = after
        <4>1. converted = TRUE
          BY <2>4
        <4> QED
          BY <2>2, <4>1
      <3>2. /\ Window(stream, after, offset, PubKeySize)
            /\ \A Q : PubKeyDeserialize(Q, after, offset, 1)
                       = IF P \in Keys \/ ZeroIsPoint THEN [code |-> 0, key |-> P]
                         ELSE [code |-> -1, key |-> Q]
        BY <1>1, PointLands
      <3> HIDE DEF after
      <3>3. Unreadable(o) <=> ~(P \in Keys \/ ZeroIsPoint)
        <4>1. o = PubKey(Infinity) <=> P = Infinity
          BY <1>3, <2>1 DEF PubKey
        <4>2. P = Infinity <=> P \notin Keys
          BY PointFacts
        <4> QED
          BY <4>1, <4>2 DEF Unreadable
      <3>4. ASSUME NEW fresh \in FreshObjects, fresh.kind = o.kind
            PROVE  Deserialize(fresh, after, offset, 1)
                   = IF Unreadable(o) THEN [code |-> -1, object |-> fresh] ELSE [code |-> 0, object |-> o]
        <4>1. fresh = PubKey(fresh.value) /\ fresh.kind = "pub"
          BY <2>1, <3>4 DEF FreshObjects, PrivKey, PubKey, Signature
        <4> DEFINE found == PubKeyDeserialize(fresh.value, after, offset, 1)
        <4>2. Deserialize(fresh, after, offset, 1) = [code |-> found.code, object |-> PubKey(found.key)]
          BY <4>1 DEF Deserialize
        <4>3. found = IF Unreadable(o) THEN [code |-> -1, key |-> fresh.value] ELSE [code |-> 0, key |-> P]
          BY <3>2, <3>3
        <4> HIDE DEF found
        <4>4. CASE Unreadable(o)
          BY <4>1, <4>2, <4>3, <4>4
        <4>5. CASE ~Unreadable(o)
          BY <1>3, <4>2, <4>3, <4>5
        <4> QED
          BY <4>4, <4>5
      <3>5. Copies(o) = 1
        BY <2>1 DEF Copies
      <3>6. FoundAt(o, after, offset)
        BY <3>4, <3>5 DEF FoundAt
      <3> QED
        BY <1>1, <2>2, <2>4, <3>1, <3>2, <3>6 DEF Landed
    <2> QED
      BY <2>3, <2>4
  <1>4. ASSUME NEW sig \in Signatures, o = Signature(sig)
        PROVE  Landed(o, stream, offset, converted)
    <2> DEFINE after == SignatureSerialize(stream, offset, sig)
    <2>1. o.kind = "sig" /\ o.value = sig
      BY <1>4 DEF Signature
    <2>2. Serialize(o, stream, offset, converted) = after /\ SerializedSize(o) = SignatureSize
      BY <2>1 DEF Serialize, SerializedSize
    <2>3. /\ Window(stream, after, offset, SignatureSize)
          /\ \A e : SignatureDeserialize(e, after, offset, 2) = [code |-> 0, sig |-> sig]
      BY <1>1, SignatureLands
    <2> HIDE DEF after
    <2>4. ASSUME NEW fresh \in FreshObjects, fresh.kind = o.kind
          PROVE  Deserialize(fresh, after, offset, 2) = [code |-> 0, object |-> o]
      <3>1. fresh.kind = "sig"
        BY <2>1, <2>4
      <3>2. SignatureDeserialize(fresh.value, after, offset, 2) = [code |-> 0, sig |-> sig]
        BY <2>3
      <3> QED
        BY <1>4, <3>1, <3>2 DEF Deserialize
    <2>5. Copies(o) = 2 /\ ~Unreadable(o)
      BY <1>4, <2>1 DEF Copies, Unreadable, PubKey, Signature
    <2>6. FoundAt(o, after, offset)
      BY <2>4, <2>5 DEF FoundAt
    <2> QED
      BY <1>1, <2>1, <2>2, <2>3, <2>6 DEF Landed
  <1> QED
    BY <1>2, <1>3, <1>4 DEF ObjectOK

(* A read takes over an object whole, or nothing, or tears a signature; and *)
(* what it took over is what the stream holds.                              *)
ReadOut(o, stream, offset, copied) ==
    LET read == Deserialize(o, stream, offset, copied)
    IN  /\ ObjectOK(read.object)
        /\ read.code # 0 => read.object = o \/ Torn(o, stream, offset, copied, read.object)
        /\ read.code = 0 => Serialize(read.object, stream, offset, TRUE) = stream

LEMMA ReadOutIs ==
    ASSUME NEW o, NEW stream, NEW offset, NEW copied, NEW code, NEW after,
           Deserialize(o, stream, offset, copied) = [code |-> code, object |-> after],
           ObjectOK(after),
           code # 0 => after = o \/ Torn(o, stream, offset, copied, after),
           code = 0 => Serialize(after, stream, offset, TRUE) = stream
    PROVE  ReadOut(o, stream, offset, copied)
  <1> DEFINE read == Deserialize(o, stream, offset, copied)
  <1>1. read.code = code /\ read.object = after
    OBVIOUS
  <1>2. ReadOut(o, stream, offset, copied) <=>
          /\ ObjectOK(read.object)
          /\ read.code # 0 => read.object = o \/ Torn(o, stream, offset, copied, read.object)
          /\ read.code = 0 => Serialize(read.object, stream, offset, TRUE) = stream
    BY DEF ReadOut
  <1> HIDE DEF read
  <1> QED
    BY <1>1, <1>2

LEMMA ObjectReads ==
    ASSUME NEW stream \in Seq(AllBytes), NEW offset \in Offsets, NEW o, ObjectOK(o),
           NEW copied \in Nat
    PROVE  ReadOut(o, stream, offset, copied)
  <1>1. /\ offset \in Nat /\ offset + ScalarSize < UintModulus /\ offset + PubKeySize < UintModulus
        /\ offset + SignatureSize < UintModulus
    BY OffsetsFit
  <1>2. ASSUME NEW d \in Scalars, o = PrivKey(d)
        PROVE  ReadOut(o, stream, offset, copied)
    <2> DEFINE found == PrivKeyDeserialize(d, stream, offset, copied)
    <2>1. o.kind = "priv" /\ o.value = d
      BY <1>2 DEF PrivKey
    <2>2. Deserialize(o, stream, offset, copied) = [code |-> found.code, object |-> PrivKey(found.key)]
      BY <2>1 DEF Deserialize
    <2>3. /\ found.code # 0 => found.key = d
          /\ found.code = 0 => found.key \in Scalars /\ PrivKeySerialize(stream, offset, found.key) = stream
      BY <1>1, ScalarReads
    <2> HIDE DEF found
    <2>4. found.code = 0 => Serialize(PrivKey(found.key), stream, offset, TRUE) = stream
      BY <2>3 DEF Serialize, PrivKey
    <2>5. ObjectOK(PrivKey(found.key))
      BY <2>3 DEF ObjectOK
    <2>6. found.code # 0 => PrivKey(found.key) = o
      BY <1>2, <2>3
    <2> QED
      BY <2>2, <2>4, <2>5, <2>6, ReadOutIs
  <1>3. ASSUME NEW P \in Points, o = PubKey(P)
        PROVE  ReadOut(o, stream, offset, copied)
    <2> DEFINE found == PubKeyDeserialize(P, stream, offset, copied)
    <2>1. o.kind = "pub" /\ o.value = P
      BY <1>3 DEF PubKey
    <2>2. Deserialize(o, stream, offset, copied) = [code |-> found.code, object |-> PubKey(found.key)]
      <3>1. o.kind = "pub" /\ o.kind # "priv"
        BY <2>1
      <3> HIDE DEF found
      <3>2. Deserialize(o, stream, offset, copied)
            = LET d == PubKeyDeserialize(o.value, stream, offset, copied)
              IN  [code |-> d.code, object |-> PubKey(d.key)]
        BY <3>1 DEF Deserialize
      <3> QED
        BY <2>1, <3>2 DEF found
    <2>3. /\ found.code # 0 => found.key = P
          /\ found.code = 0 => found.key \in Points /\ PubKeySerialize(stream, offset, found.key, TRUE) = stream
      <3>1. PointRead(stream, offset, P, copied)
        BY <1>1, PointReads
      <3> QED
        BY <3>1 DEF PointRead
    <2> HIDE DEF found
    <2>4. found.code = 0 => Serialize(PubKey(found.key), stream, offset, TRUE) = stream
      BY <2>3 DEF Serialize, PubKey
    <2>5. ObjectOK(PubKey(found.key))
      BY <2>3 DEF ObjectOK
    <2>6. found.code # 0 => PubKey(found.key) = o
      BY <1>3, <2>3
    <2> QED
      BY <2>2, <2>4, <2>5, <2>6, ReadOutIs
  <1>4. ASSUME NEW sig \in Signatures, o = Signature(sig)
        PROVE  ReadOut(o, stream, offset, copied)
    <2> DEFINE found == SignatureDeserialize(sig, stream, offset, copied)
               whole == SignatureDeserialize(sig, stream, offset, 2)
    <2>1. o.kind = "sig" /\ o.value = sig
      BY <1>4 DEF Signature
    <2>2. /\ Deserialize(o, stream, offset, copied) = [code |-> found.code, object |-> Signature(found.sig)]
          /\ Deserialize(o, stream, offset, 2) = [code |-> whole.code, object |-> Signature(whole.sig)]
      BY <2>1 DEF Deserialize
    <2>3. /\ found.code # 0 => \/ found.sig = sig
                               \/ /\ copied = 1 /\ whole.code = 0
                                  /\ found.sig = [r |-> whole.sig.r, s |-> sig.s]
          /\ found.code = 0 => found.sig \in Signatures /\ SignatureSerialize(stream, offset, found.sig) = stream
          /\ found.sig \in Signatures
      BY <1>1, SignatureReads
    <2> HIDE DEF found, whole
    <2>4. found.code = 0 => Serialize(Signature(found.sig), stream, offset, TRUE) = stream
      BY <2>3 DEF Serialize, Signature
    <2>5. ASSUME copied = 1, whole.code = 0, found.sig = [r |-> whole.sig.r, s |-> sig.s]
          PROVE  Torn(o, stream, offset, copied, Signature(found.sig))
      <3>1. Signature(whole.sig).value = whole.sig
        BY DEF Signature
      <3> QED
        BY <2>1, <2>2, <2>5, <3>1 DEF Torn
    <2>6. ObjectOK(Signature(found.sig))
      BY <2>3 DEF ObjectOK
    <2>7. found.code # 0 => Signature(found.sig) = o \/ Torn(o, stream, offset, copied, Signature(found.sig))
      BY <1>4, <2>3, <2>5
    <2> QED
      BY <2>2, <2>4, <2>6, <2>7, ReadOutIs
  <1> QED
    BY <1>2, <1>3, <1>4 DEF ObjectOK

(* A number that is written leaves a stream of bytes, no longer than needed. *)
LEMMA NumberKeeps ==
    ASSUME NEW stream, StreamOK(stream), NEW offset \in Offsets, NEW len \in 0..MaxLen,
           NEW value \in 0..(Power(Byte, len) - 1), offset + len <= MaxStream
    PROVE  StreamOK(SetNumber(stream, offset, value, len).stream)
  <1> DEFINE set == SetNumber(stream, offset, value, len)
             bs == BigEndian(value, len)
  <1>1. /\ offset \in Nat /\ MaxStream \in Nat /\ MaxLen \in Nat /\ MaxStream < UintModulus
        /\ offset + len < UintModulus
    BY OffsetsFit
  <1>2. /\ stream \in Seq(AllBytes) /\ Len(stream) \in Nat /\ Len(stream) <= MaxStream
        /\ len \in Nat /\ Len(stream) < UintModulus
    BY <1>1, BytesAssumption DEF StreamOK
  <1>3. /\ offset <= Len(stream) => Written(stream, set.stream, offset, bs)
        /\ offset > Len(stream) => set.stream = stream
    BY <1>1, <1>2, NumberSets
  <1>4. Len(bs) = len
    <2>1. value \in Nat
      <3>1. Power(Byte, len) \in Nat
        BY <1>2, BytePower
      <3> QED
        BY <3>1
    <2> QED
      BY <1>2, <2>1, BigEndianType
  <1> HIDE DEF set, bs
  <1>5. offset <= Len(stream) \/ offset > Len(stream)
    BY <1>1, <1>2
  <1>6. CASE offset <= Len(stream)
    <2>1. set.stream \in Seq(AllBytes)
          /\ Len(set.stream) = IF Len(stream) >= offset + len THEN Len(stream) ELSE offset + len
      BY <1>3, <1>4, <1>6 DEF Written
    <2> QED
      BY <1>2, <2>1 DEF StreamOK, set
  <1>7. CASE offset > Len(stream)
    BY <1>3, <1>7 DEF set
  <1> QED
    BY <1>5, <1>6, <1>7

(* The two ways of saying that a write keeps to its bytes.                  *)
LEMMA WindowIsOnly ==
    ASSUME NEW before \in Seq(AllBytes), NEW after, NEW offset \in Nat, NEW size \in Nat,
           Window(before, after, offset, size)
    PROVE  OnlyWindow(before, after, offset, size)
  <1> DEFINE m == IF Len(before) >= offset + size THEN Len(before) ELSE offset + size
             T == {Len(before), offset + size}
  <1>1. m \in T /\ \A k \in T : m >= k /\ k \in Int
    OBVIOUS
  <1>2. Len(after) = m
    BY DEF Window
  <1> HIDE DEF m, T
  <1>3. Max(T) = m
    BY <1>1, MaxIs
  <1>4. Len(after) = Max({Len(before), offset + size})
    BY <1>2, <1>3 DEF T
  <1> QED
    BY <1>4 DEF Window, OnlyWindow

-----------------------------------------------------------------------------
(* The invariant is inductive. *)

LEMMA FreshAreObjects ==
    /\ \A o \in FreshObjects : ObjectOK(o)
    /\ ObjectOK(PubKey(Infinity))
    /\ \A d \in Scalars : ObjectOK(PubKey(PubKeyOfPrivKey(d)))
  <1>1. \A d \in NewPrivKeys : ObjectOK(PrivKey(d))
    BY ScalarFacts DEF ObjectOK
  <1>2. ObjectOK(PubKey(Infinity))
    BY PointFacts DEF ObjectOK, Infinity
  <1>3. ObjectOK(Signature(NewSignature))
    <2>1. NewSignature \in Signatures
      BY ScalarFacts DEF NewSignature, Signatures
    <2> QED
      BY <2>1 DEF ObjectOK
  <1>4. ASSUME NEW d \in Scalars
        PROVE  ObjectOK(PubKey(PubKeyOfPrivKey(d)))
    <2>1. PubKeyOfPrivKey(d) \in Points
      <3>1. CASE d = 0 \/ d >= Order
        BY <3>1, PointFacts DEF PubKeyOfPrivKey, Infinity
      <3>2. CASE ~(d = 0 \/ d >= Order)
        <4>1. d \in Nat /\ Order \in Nat \ {0}
          BY ScalarFacts, OrderAssumption
        <4>2. d % Order \in 0..(Order - 1)
          BY <4>1, Euclid
        <4>3. d + 0 * Infinity = d
          BY <4>1 DEF Infinity
        <4> QED
          BY <3>2, <4>2, <4>3 DEF PubKeyOfPrivKey, PointMul, Points
      <3> QED
        BY <3>1, <3>2
    <2> QED
      BY <2>1 DEF ObjectOK
  <1> QED
    BY <1>1, <1>2, <1>3, <1>4 DEF FreshObjects

LEMMA StreamInvInit == StreamInit => StreamInv
  <1> SUFFICES ASSUME StreamInit
               PROVE  StreamInv
    OBVIOUS
  <1>1. dst \in Seq(AllBytes) /\ Len(dst) = 0 /\ MaxStream \in Nat
    BY StreamAssumption DEF StreamInit
  <1>2. ObjectOK(object)
    BY FreshAreObjects DEF StreamInit
  <1> QED
    BY <1>1, <1>2 DEF StreamInv, StreamOK

LEMMA StreamInvStep == StreamInv /\ [StreamNext]_streamVars => StreamInv'
  <1> SUFFICES ASSUME StreamInv, [StreamNext]_streamVars
               PROVE  StreamInv'
    OBVIOUS
  <1>1. StreamOK(dst) /\ ObjectOK(object) /\ dst \in Seq(AllBytes) /\ Len(dst) <= MaxStream
    BY DEF StreamInv, StreamOK
  <1>2. CASE NewStream
    <2>1. StreamOK(dst') /\ object' = object
      BY <1>2, StreamAssumption DEF NewStream, StreamOK
    <2> QED
      BY <1>1, <2>1 DEF StreamInv
  <1>3. CASE NewObject
    <2>1. ObjectOK(object') /\ dst' = dst
      BY <1>3, FreshAreObjects DEF NewObject
    <2> QED
      BY <1>1, <2>1 DEF StreamInv
  <1>4. CASE DerivePubKey
    <2>1. PICK d \in Scalars : object = PrivKey(d)
      BY <1>1, <1>4 DEF ObjectOK, DerivePubKey, PubKey, Signature
    <2>2. object' \in {PubKey(PubKeyOfPrivKey(d)), PubKey(Infinity)} /\ dst' = dst
      BY <1>4, <2>1 DEF DerivePubKey, PrivKey
    <2>3. ObjectOK(object')
      BY <2>2, FreshAreObjects
    <2> QED
      BY <1>1, <2>2, <2>3 DEF StreamInv
  <1>5. ASSUME NEW offset \in Offsets, NEW converted \in BOOLEAN, Write(offset, converted)
        PROVE  StreamInv'
    <2> DEFINE size == SerializedSize(object)
               after == Serialize(object, dst, offset, converted)
    <2>1. Landed(object, dst, offset, converted)
      BY <1>1, ObjectLands
    <2>2. offset + size <= MaxStream /\ dst' = after /\ object' = object
      BY <1>5 DEF Write
    <2>3. size \in Nat /\ (after = dst \/ Window(dst, after, offset, size))
      BY <2>1 DEF Landed
    <2> HIDE DEF size, after
    <2>4. CASE after = dst
      BY <1>1, <2>2, <2>4 DEF StreamInv
    <2>5. CASE Window(dst, after, offset, size)
      <3>1. /\ dst' \in Seq(AllBytes)
            /\ Len(dst') = IF Len(dst) >= offset + size THEN Len(dst) ELSE offset + size
        BY <2>2, <2>5 DEF Window
      <3>2. StreamOK(dst')
        BY <1>1, <2>2, <3>1 DEF StreamOK
      <3> QED
        BY <1>1, <2>2, <3>2 DEF StreamInv
    <2> QED
      BY <2>3, <2>4, <2>5
  <1>6. ASSUME NEW offset \in Offsets, NEW copied \in 0..Copies(object), Read(offset, copied)
        PROVE  StreamInv'
    <2>1. copied \in Nat
      BY DEF Copies
    <2>2. ReadOut(object, dst, offset, copied)
      BY <1>1, <2>1, ObjectReads
    <2>3. ObjectOK(object') /\ dst' = dst
      BY <1>6, <2>2 DEF Read, ReadOut
    <2> QED
      BY <1>1, <2>3 DEF StreamInv
  <1>7. ASSUME NEW offset \in Offsets, NEW len \in 0..MaxLen, NEW value \in 0..(Power(Byte, len) - 1),
               WriteNumber(offset, value, len)
        PROVE  StreamInv'
    <2>1. StreamOK(dst') /\ object' = object
      BY <1>1, <1>7, NumberKeeps DEF WriteNumber
    <2> QED
      BY <1>1, <2>1 DEF StreamInv
  <1>8. CASE UNCHANGED streamVars
    BY <1>8 DEF streamVars, StreamInv
  <1> QED
    BY <1>2, <1>3, <1>4, <1>5, <1>6, <1>7, <1>8 DEF StreamNext

LEMMA StreamInvariance == StreamSpec => []StreamInv
  BY StreamInvInit, StreamInvStep, PTL DEF StreamSpec

-----------------------------------------------------------------------------
(* The properties. *)

(* An error code comes with an unchanged key or signature, whatever the     *)
(* stream and the offset and wherever OpenSSL fails, with one exception:    *)
(* if copying the response of a signature fails (Signature.cpp:105), the    *)
(* challenge of the stream stays with the old response.                     *)
THEOREM ReadsAreWhole == StreamSpec => []ReadsWhole
  <1>1. StreamInv => ReadsWhole
    <2> SUFFICES ASSUME StreamInv, NEW offset \in Offsets, NEW copied \in 0..Copies(object)
                 PROVE  LET d == Deserialize(object, dst, offset, copied) IN
                           d.code # 0 => d.object = object \/ Torn(object, dst, offset, copied, d.object)
      BY DEF ReadsWhole
    <2>1. dst \in Seq(AllBytes) /\ ObjectOK(object) /\ copied \in Nat
      BY DEF StreamInv, StreamOK, Copies
    <2>2. ReadOut(object, dst, offset, copied)
      BY <2>1, ObjectReads
    <2> QED
      BY <2>2 DEF ReadOut
  <1> QED
    BY <1>1, StreamInvariance, PTL

(* A key or a signature has one encoding: what could be read at an offset   *)
(* is written back there as the bytes it was read from.                     *)
THEOREM EncodingsAreUnique == StreamSpec => []OneEncoding
  <1>1. StreamInv => OneEncoding
    <2> SUFFICES ASSUME StreamInv, NEW offset \in Offsets, NEW copied \in 0..Copies(object)
                 PROVE  LET d == Deserialize(object, dst, offset, copied) IN
                           d.code = 0 => Serialize(d.object, dst, offset, TRUE) = dst
      BY DEF OneEncoding
    <2>1. dst \in Seq(AllBytes) /\ ObjectOK(object) /\ copied \in Nat
      BY DEF StreamInv, StreamOK, Copies
    <2>2. ReadOut(object, dst, offset, copied)
      BY <2>1, ObjectReads
    <2> QED
      BY <2>2 DEF ReadOut
  <1> QED
    BY <1>1, StreamInvariance, PTL

(* A write changes the bytes of its window and no others, and every new     *)
(* object of its kind reads there, with success, what was written; only     *)
(* infinity may be refused.  A point that OpenSSL does not convert is not   *)
(* written at all (ECPOINTSerialize.cpp:77-80).                             *)
THEOREM WritesAlwaysLand == StreamSpec => WritesLand
  <1>1. StreamInv /\ [StreamNext]_streamVars =>
          [\A offset \in Offsets, converted \in BOOLEAN : Write(offset, converted) =>
             IF object.kind = "pub" /\ ~converted THEN dst' = dst
             ELSE /\ OnlyWindow(dst, dst', offset, SerializedSize(object))
                  /\ FoundAt(object, dst', offset)]_streamVars
    <2> SUFFICES ASSUME StreamInv, NEW offset \in Offsets, NEW converted \in BOOLEAN,
                        Write(offset, converted)
                 PROVE  IF object.kind = "pub" /\ ~converted THEN dst' = dst
                        ELSE /\ OnlyWindow(dst, dst', offset, SerializedSize(object))
                             /\ FoundAt(object, dst', offset)
      OBVIOUS
    <2>1. dst \in Seq(AllBytes) /\ ObjectOK(object) /\ dst' = Serialize(object, dst, offset, converted)
      BY DEF StreamInv, StreamOK, Write
    <2>2. Landed(object, dst, offset, converted)
      BY <2>1, ObjectLands
    <2>3. CASE object.kind = "pub" /\ ~converted
      BY <2>1, <2>2, <2>3 DEF Landed
    <2>4. CASE ~(object.kind = "pub" /\ ~converted)
      <3>1. /\ Window(dst, dst', offset, SerializedSize(object)) /\ SerializedSize(object) \in Nat
            /\ FoundAt(object, dst', offset)
        BY <2>1, <2>2, <2>4 DEF Landed
      <3>2. offset \in Nat
        BY OffsetsFit
      <3>3. OnlyWindow(dst, dst', offset, SerializedSize(object))
        BY <2>1, <3>1, <3>2, WindowIsOnly
      <3> QED
        BY <2>4, <3>1, <3>3
    <2> QED
      BY <2>3, <2>4
  <1> QED
    BY <1>1, StreamInvariance, PTL DEF StreamSpec, WritesLand

(* The order of PubKey, in which its tables are sorted, is total and agrees *)
(* with the equality of points.                                             *)
THEOREM KeysAreOrdered == StreamSpec => []KeysOrdered
  <1>1. StreamInv => KeysOrdered
    <2> SUFFICES ASSUME StreamInv, object.kind = "pub", NEW R \in Points
                 PROVE  LET P == object.value
                        IN  /\ PubKeyEqual(P, R) <=> P = R
                            /\ Cardinality({b \in {1, 2, 3} :
                                   \/ b = 1 /\ PubKeyLess(P, R)
                                   \/ b = 2 /\ PubKeyEqual(P, R)
                                   \/ b = 3 /\ PubKeyGreater(P, R)}) = 1
      BY DEF KeysOrdered
    <2>1. ObjectOK(object)
      BY DEF StreamInv
    <2>2. PICK P \in Points : object = PubKey(P)
      BY <2>1 DEF ObjectOK, PrivKey, Signature
    <2>3. object.value = P
      BY <2>2 DEF PubKey
    <2> DEFINE m == Point2bn(P)
               n == Point2bn(R)
               T == {b \in {1, 2, 3} : \/ b = 1 /\ PubKeyLess(P, R)
                                       \/ b = 2 /\ PubKeyEqual(P, R)
                                       \/ b = 3 /\ PubKeyGreater(P, R)}
    <2>4. m \in Nat /\ n \in Nat
      <3>1. /\ m \in 0..(Power(Byte, PubKeySize) - 1) /\ n \in 0..(Power(Byte, PubKeySize) - 1)
            /\ PubKeySize \in Nat
        BY PointNumber, PointFacts
      <3>2. Power(Byte, PubKeySize) \in Nat
        BY <3>1, BytePower
      <3> HIDE DEF m, n
      <3> QED
        BY <3>1, <3>2
    <2>5. m = n <=> P = R
      BY PointsDiffer
    <2> DEFINE rank == IF m < n THEN 1 ELSE IF m = n THEN 2 ELSE 3
    <2>6. /\ PubKeyLess(P, R) <=> m < n
          /\ PubKeyEqual(P, R) <=> m = n
          /\ PubKeyGreater(P, R) <=> n < m
      BY DEF PubKeyLess, PubKeyEqual, PubKeyGreater
    <2> HIDE DEF m, n
    <2>7. T = {rank}
      BY <2>4, <2>6
    <2>8. Cardinality(T) = 1
      <3> HIDE DEF T, rank
      <3> QED
        BY <2>7, FS_Singleton
    <2> QED
      BY <2>3, <2>5, <2>6, <2>8
  <1> QED
    BY <1>1, StreamInvariance, PTL

(* A number written within the stream, or at its end, is placed, read back  *)
(* from there, and changes no other byte.                                   *)
THEOREM NumbersAreReadBack == StreamSpec => []NumbersReadBack
  <1>1. StreamInv => NumbersReadBack
    <2> SUFFICES ASSUME StreamInv, NEW offset \in 0..Len(dst), NEW len \in 1..MaxLen,
                        NEW value \in 0..(Power(Byte, len) - 1)
                 PROVE  LET w == SetNumber(dst, offset, value, len)
                        IN  /\ w.exn = "none"
                            /\ GetNumber(w.stream, offset, len) = value
                            /\ OnlyWindow(dst, w.stream, offset, len)
      BY DEF NumbersReadBack
    <2> DEFINE w == SetNumber(dst, offset, value, len)
               bs == BigEndian(value, len)
    <2>1. /\ dst \in Seq(AllBytes) /\ Len(dst) \in Nat /\ Len(dst) <= MaxStream
      BY DEF StreamInv, StreamOK
    <2>2. /\ offset \in Nat /\ MaxStream \in Nat /\ MaxLen \in Nat /\ MaxStream < UintModulus
          /\ \A n \in 0..MaxLen : offset + n < UintModulus
      <3>1. MaxStream \in Nat
        BY StreamAssumption
      <3>2. offset \in Offsets
        BY <2>1, <3>1 DEF Offsets
      <3> QED
        BY <3>2, OffsetsFit
    <2>3. /\ len \in Nat /\ len > 0 /\ offset + len < UintModulus /\ Len(dst) < UintModulus
          /\ offset <= Len(dst)
      BY <2>1, <2>2, BytesAssumption
    <2>4. w.exn = "none" /\ Written(dst, w.stream, offset, bs)
      BY <2>1, <2>2, <2>3, NumberSets
    <2> HIDE DEF w
    <2>5. GetNumber(w.stream, offset, len) = value /\ Len(bs) = len
      <3> DEFINE after == w.stream
      <3>1. Written(dst, after, offset, bs) /\ after \in Seq(AllBytes)
        BY <2>4 DEF Written
      <3>2. Len(bs) = len
        <4>1. value \in Nat
          <5>1. Power(Byte, len) \in Nat
            BY <2>3, BytePower
          <5> QED
            BY <5>1
        <4> QED
          BY <2>3, <4>1, BigEndianType
      <3>3. Len(after) = IF Len(dst) >= offset + len THEN Len(dst) ELSE offset + len
        BY <3>1, <3>2 DEF Written
      <3>4. offset + len <= Len(after) /\ Len(after) \in Nat
        BY <2>1, <2>2, <2>3, <3>3
      <3>5. BnGetNumber(after, offset, len) = value
        <4> HIDE DEF after
        <4> QED
          BY <2>1, <2>2, <2>3, <3>1, ReadsWritten
      <3> HIDE DEF after
      <3>6. Unsigned(offset + len) = offset + len
        BY <2>2, <2>3, UnsignedSmall
      <3>7. ~(Unsigned(offset + len) > Len(after))
        BY <2>2, <2>3, <3>4, <3>6
      <3>8. BnGetNumber(after, offset, len) = Bin2bn(Slice(after, offset, len))
        BY <3>7 DEF BnGetNumber
      <3>9. GetNumber(after, offset, len) = Bin2bn(Slice(after, offset, len))
        BY <2>2, <2>3, <3>1, <3>4, NumberReads
      <3> QED
        BY <3>2, <3>5, <3>8, <3>9 DEF after
    <2>6. OnlyWindow(dst, w.stream, offset, len)
      <3> DEFINE after == w.stream
      <3>1. Window(dst, after, offset, Len(bs))
        BY <2>1, <2>2, <2>4, WindowOfWritten
      <3> HIDE DEF after
      <3>2. OnlyWindow(dst, after, offset, len)
        BY <2>1, <2>2, <2>3, <2>5, <3>1, WindowIsOnly
      <3> QED
        BY <3>2 DEF after
    <2> QED
      BY <2>4, <2>5, <2>6 DEF w
  <1> QED
    BY <1>1, StreamInvariance, PTL

(* DataConversion, for whatever the stream holds: hexadecimal strings, which *)
(* are upper case of bytes and lower case of integers, are decoded to the    *)
(* same bytes; fixed arrays, integers and keys made of them agree; strings   *)
(* that are cut off or hold other characters fail.                           *)
THEOREM ConversionsAlwaysAgree == StreamSpec => []ConversionsAgree
  <1>1. StreamInv => ConversionsAgree
    <2> SUFFICES ASSUME StreamInv
                 PROVE  ConversionsAgree
      OBVIOUS
    <2>1. /\ dst \in Seq(AllBytes) /\ Len(dst) \in Nat /\ Len(dst) <= MaxStream
      BY DEF StreamInv, StreamOK
    <2>2. Len(dst) < UintModulus /\ UintModulus \in Nat /\ MaxStream \in Nat
      <3>1. MaxStream \in Nat /\ MaxLen \in Nat /\ MaxStream + MaxLen < UintModulus
        BY StreamAssumption
      <3> QED
        BY <2>1, <3>1, BytesAssumption
    <2>3. /\ HexStrToUint8Vec(HexOf(dst)) = [ok |-> TRUE, out |-> dst]
          /\ ~HexStrToUint8Vec(Append(HexOf(dst), 0)).ok
          /\ ~HexStrToUint8Vec(<<NonHex, 0>> \o HexOf(dst)).ok
          /\ Len(HexOf(dst)) = 2 * Len(dst)
      BY <2>1, HexBack, HexDigits
    <2>4. ASSUME NEW n \in Offsets
          PROVE  Len(HexStrToStdArray(HexOf(dst), n).out) = n
      <3>1. HexStrToStdArray(HexOf(dst), n) = [ok |-> TRUE, out |-> Resize(dst, n)]
        BY <2>3 DEF HexStrToStdArray
      <3>2. n \in Nat
        BY OffsetsFit
      <3> QED
        BY <2>1, <3>1, <3>2, ResizeLength
    <2>5. ASSUME NEW offset \in 0..Len(dst), NEW len \in 1..(Len(dst) - offset)
          PROVE  LET v == GetNumber(dst, offset, len)
                 IN  /\ IntegerToBytes(v, len) = Slice(dst, offset, len)
                     /\ \A str \in {IntegerToHexString(v, len), Uint8VecToHexStr(dst, offset, len)} :
                          HexStrToUint8Vec(str) = [ok |-> TRUE, out |-> Slice(dst, offset, len)]
      <3> DEFINE v == GetNumber(dst, offset, len)
                 s == Slice(dst, offset, len)
      <3>1. /\ offset \in Nat /\ len \in Nat \ {0} /\ offset + len <= Len(dst)
            /\ offset + len < UintModulus
        BY <2>1, <2>2
      <3>2. v = Bin2bn(s) /\ s \in [1..len -> AllBytes]
        BY <2>1, <3>1, NumberReads, SliceIs
      <3> HIDE DEF v, s
      <3>3. v \in 0..(Power(Byte, len) - 1) /\ BigEndian(v, len) = s
        BY <3>1, <3>2, BytesBack
      <3>4. IntegerToHexString(v, len) = LowerCase(HexOf(s))
        BY <3>1, <3>3, HexIsNumber
      <3>5. s \in Seq(AllBytes)
        BY <3>1, <3>2
      <3>6. /\ HexStrToUint8Vec(IntegerToHexString(v, len)) = [ok |-> TRUE, out |-> s]
            /\ HexStrToUint8Vec(HexOf(s)) = [ok |-> TRUE, out |-> s]
        BY <3>4, <3>5, HexBack, LowerHexBack
      <3> QED
        BY <3>3, <3>6 DEF v, s, IntegerToBytes, Uint8VecToHexStr
    <2>6. ASSUME Len(dst) >= 2
          PROVE  CharArrTo16Bits(dst) = GetNumber(dst, Len(dst) - 2, 2)
      <3> DEFINE offset == Len(dst) - 2
      <3>1. /\ offset \in Nat /\ offset + 2 <= Len(dst) /\ offset + 2 < UintModulus
            /\ offset + 1 = Len(dst) - 1 /\ offset + 2 = Len(dst)
        BY <2>1, <2>2, <2>6
      <3> HIDE DEF offset
      <3>2. GetNumber(dst, offset, 2) = dst[offset + 1] * Byte + dst[offset + 2]
        BY <2>1, <3>1, TwoBytes
      <3>3. CharArrTo16Bits(dst) = dst[Len(dst) - 1] * Byte + dst[Len(dst)]
        BY <2>1, <2>6 DEF CharArrTo16Bits
      <3> QED
        BY <3>1, <3>2, <3>3 DEF offset
    <2>7. ASSUME Len(dst) >= 4
          PROVE  LET n == Pack(GetNumber(dst, 0, 2), GetNumber(dst, 2, 2))
                 IN  n = GetNumber(dst, 0, 4) /\ UnpackA(n) * Power(Byte, 2) + UnpackB(n) = n
      <3> DEFINE n == Pack(GetNumber(dst, 0, 2), GetNumber(dst, 2, 2))
      <3>1. 4 <= Len(dst) /\ 4 < UintModulus
        BY <2>1, <2>2, <2>7
      <3> HIDE DEF n
      <3>2. n = GetNumber(dst, 0, 4) /\ UnpackA(n) * Power(Byte, 2) + UnpackB(n) = n
        BY <2>1, <3>1, Packed DEF n
      <3> QED
        BY <3>2 DEF n
    <2>8. \A copied \in {0, 1} :
            Len(dst) = ScalarSize => GetPrivKeyFromString(HexOf(dst), copied) = PrivKeyOf(dst, 0, copied)
      BY <2>3 DEF GetPrivKeyFromString
    <2>9. \A copied \in {0, 1} :
            Len(dst) = PubKeySize => GetPubKeyFromString(HexOf(dst), copied) = PubKeyOf(dst, 0, copied)
      BY <2>3 DEF GetPubKeyFromString
    <2> QED
      BY <2>3, <2>4, <2>5, <2>6, <2>7, <2>8, <2>9 DEF ConversionsAgree
  <1> QED
    BY <1>1, StreamInvariance, PTL
=============================================================================
