-------------------------- MODULE SchnorrLibraryMC --------------------------
(* The byte streams of the C++ library and the builtins that stand on them  *)
(* for TLC, one at a time: the builtins wait until the stream is empty.     *)
EXTENDS SchnorrLib, KeyStream

CONSTANT Halves      \* bound on the challenges and responses that are held

SomeMessages == {Whole(<<>>), Whole(<<1>>)}

(* A private key out of range, and the point of 1. *)
SomeStrings == {<<3, 3>>, <<2, 0, 1>>}

(* The two halves of a signature are written and read one after the other,  *)
(* each as a number of its own: a few values of each stand for all.         *)
FewSignatures ==
    object.kind = "sig" => object.value.r \in Halves /\ object.value.s \in Halves

MCInit == StreamInit /\ LibInit

MCNext ==
    \/ LibInit /\ StreamNext /\ UNCHANGED allVars
    \/ StreamIdle /\ LibNext /\ UNCHANGED streamVars

MCSpec == MCInit /\ [][MCNext]_<<streamVars, allVars>>
=============================================================================
