------------------------------ MODULE DsaNonce ------------------------------
(***************************************************************************)
(* generate_dsa_nonce.c: the random bytes of a nonce, made of as many      *)
(* SHA-512 digests as it takes.  A byte is named by what it comes from:    *)
(* the counter that was hashed with the key, the message and new random    *)
(* bytes, and its place in that digest.                                    *)
(***************************************************************************)
EXTENDS Integers, Sequences

CONSTANTS
    MaxKBytes,       \* bound on the bytes of a nonce before it is reduced
    DigestLength     \* SHA512_DIGEST_LENGTH

ASSUME NonceAssumption == MaxKBytes \in Nat \ {0} /\ DigestLength \in Nat \ {0}

VARIABLES
    stage,           \* "chunks", "reduced", "failed", or "none": nothing asked for
    numKBytes,       \* bytes of the range and 8 more
    done,            \* how many of them have been made
    kBytes           \* they themselves; malloc initialises nothing

nonceVars == <<stage, numKBytes, done, kBytes>>

Uninitialised == [counter |-> -1, place |-> 0]

(* A private key that does not fit the local buffer ends it at once, as     *)
(* does a failing malloc.                                                   *)
NonceInit ==
    /\ stage \in {"chunks", "failed"}
    /\ numKBytes \in 1..MaxKBytes
    /\ done = 0
    /\ kBytes = [i \in 1..numKBytes |-> Uninitialised]

NonceIdle == stage = "none" /\ numKBytes = 0 /\ done = 0 /\ kBytes = <<>>

Smaller(m, n) == IF m < n THEN m ELSE n

(* memcpy of the first todo bytes of a digest behind what is there. *)
Copied(counter, todo) ==
    [i \in 1..numKBytes |->
        IF i \in (done + 1)..(done + todo) THEN [counter |-> counter, place |-> i - done] ELSE kBytes[i]]

(* Mutant: the counter is not hashed. *)
NonceChunkSame ==
    LET todo == Smaller(numKBytes - done, DigestLength) IN
    /\ stage = "chunks" /\ done < numKBytes
    /\ kBytes' = Copied(0, todo)
    /\ done' = done + todo
    /\ UNCHANGED <<stage, numKBytes>>

NonceChunk ==
    LET todo == Smaller(numKBytes - done, DigestLength) IN
    /\ stage = "chunks" /\ done < numKBytes
    /\ kBytes' = Copied(done, todo)
    /\ done' = done + todo
    /\ UNCHANGED <<stage, numKBytes>>

(* RAND_bytes fails. *)
RandFails ==
    /\ stage = "chunks" /\ done < numKBytes
    /\ stage' = "failed"
    /\ UNCHANGED <<numKBytes, done, kBytes>>

(* BN_bin2bn and BN_mod, which may fail. *)
NonceReduce ==
    /\ stage = "chunks" /\ done >= numKBytes
    /\ stage' \in {"reduced", "failed"}
    /\ UNCHANGED <<numKBytes, done, kBytes>>

NonceNext == NonceChunk \/ RandFails \/ NonceReduce

NonceSpec == NonceInit /\ [][NonceNext]_nonceVars

-----------------------------------------------------------------------------
(* A nonce is made of bytes that were all written, no two of them the same  *)
(* byte of the same digest, however many digests it takes.                  *)
NonceBytesIndependent ==
    stage = "reduced" =>
        /\ \A i \in 1..numKBytes : kBytes[i] # Uninitialised
        /\ \A i, j \in 1..numKBytes : i # j => kBytes[i] # kBytes[j]
=============================================================================
