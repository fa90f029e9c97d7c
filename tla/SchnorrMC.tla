----------------------------- MODULE SchnorrMC ------------------------------
EXTENDS Schnorr

Slice(bytes, offset, size) == [bytes |-> bytes, offset |-> offset, size |-> size]

(* The empty message, one text alone and inside another message, a slice   *)
(* that is too long, and an empty slice.                                   *)
SomeSlices ==
    {Whole(<<>>), Whole(<<7>>), Slice(<<7, 7>>, 1, 1), Slice(<<7, 7>>, 1, 2), Slice(<<7, 7>>, 0, 0)}

SomeSignatures == {[r |-> 0, s |-> 3], [r |-> 3, s |-> 0], [r |-> 1, s |-> 5], [r |-> 1, s |-> 1]}
=============================================================================
