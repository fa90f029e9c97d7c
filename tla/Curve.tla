------------------------------- MODULE Curve --------------------------------
(***************************************************************************)
(* The curve of Schnorr.h: a cyclic group.  A point is its multiple of the *)
(* base point G, 0 being the point at infinity.                            *)
(***************************************************************************)
EXTENDS Integers

CONSTANT Order               \* order of the group

ASSUME OrderAssumption == Order \in Nat /\ Order > 2

Points == 0..(Order - 1)
Infinity == 0
Keys == 1..(Order - 1)

(* EC_POINT_mul: n * G + m * P. *)
PointMul(n, m, P) == (n + m * P) % Order

(* PubKey from a private key; one out of range leaves the fresh point.      *)
PubKeyOfPrivKey(d) == IF d = 0 \/ d >= Order THEN Infinity ELSE PointMul(d, 0, Infinity)

(* A Signature with fresh numbers. *)
NewSignature == [r |-> 0, s |-> 0]
=============================================================================
