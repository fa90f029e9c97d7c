------------------------------ MODULE Schnorr -------------------------------
(***************************************************************************)
(* Schnorr.cpp: Sign and Verify of the EC-Schnorr signature of             *)
(* BSI TR-03111, one call at a time (m_mutexSchnorr), with a step for each *)
(* point where OpenSSL may fail.                                           *)
(*                                                                         *)
(* SHA-256 is external: `oracle' records what it has returned so far, and  *)
(* gives a new input any digest.  A hash context holds what was hashed.    *)
(* `signed' is a history: what Sign has signed with matching keys.         *)
(***************************************************************************)
EXTENDS Curve, Sequences, FiniteSets

CONSTANTS
    Slices,          \* a caller's messages: bytes with an offset and a size
    PrivKeys,        \* private keys a caller may have, in range or not
    PubKeys,         \* public keys a caller may have
    Forged,          \* signatures a caller may have that Sign did not make
    Digests,         \* what SHA-256 may return
    MaxHashes,       \* bound on the inputs that are hashed
    MaxSigned        \* bound on the signatures made

ASSUME SchnorrAssumption ==
    /\ \A m \in Slices : m.bytes \in Seq(Nat) /\ m.offset \in Nat /\ m.size \in Nat
    /\ PrivKeys \subseteq Nat /\ PubKeys \subseteq Points /\ Digests \subseteq Nat
    /\ Forged \subseteq [r : Nat, s : Nat]
    /\ MaxHashes \in Nat /\ MaxSigned \in Nat

VARIABLES
    oracle,          \* SHA-256 so far
    pc,              \* what is computed next
    call,            \* the arguments
    k,               \* the nonce of Sign
    sha2,            \* the hash context
    result,          \* the Signature that Sign fills in
    answer,          \* what the call returned
    failed,          \* whether an OpenSSL function failed in it
    signed

vars == <<oracle, pc, call, k, sha2, result, answer, failed, signed>>

SignSteps == {"nonce", "commit", "hash", "reduce", "multiply", "subtract"}
VerifySteps == {"regenerate", "rehash"}

Whole(bytes) == [bytes |-> bytes, offset |-> 0, size |-> Len(bytes)]
Text(m) == SubSeq(m.bytes, m.offset + 1, m.offset + m.size)

NoCall == [op |-> "none", message |-> Whole(<<>>),
           d |-> 0, P |-> Infinity, sig |-> NewSignature]

Signing == pc \in SignSteps

(* The initial checks of both functions. *)
Refused(m) == m.bytes = <<>> \/ Len(m.bytes) < m.offset + m.size

(* SHA2::Finalize: the digest of what was hashed.                           *)
Finalize(input, digest) ==
    \/ input \in DOMAIN oracle /\ digest = oracle[input] /\ UNCHANGED oracle
    \/ /\ input \notin DOMAIN oracle
       /\ Cardinality(DOMAIN oracle) < MaxHashes
       /\ digest \in Digests
       /\ oracle' = [i \in DOMAIN oracle \cup {input} |->
                        IF i = input THEN digest ELSE oracle[i]]

-----------------------------------------------------------------------------
Init ==
    /\ oracle = [i \in {} |-> 0]
    /\ pc = "idle" /\ call = NoCall
    /\ k = 0 /\ sha2 = <<>>
    /\ result = NewSignature
    /\ answer = FALSE /\ failed = FALSE
    /\ signed = {}

(* The call returns, and its local objects are gone. *)
Answer(b) == pc' = "answered" /\ answer' = b /\ k' = 0 /\ sha2' = <<>>
Continue(step) == pc' = step /\ UNCHANGED answer

Enter(c, first) ==
    /\ pc = "idle"
    /\ call' = c
    /\ IF Refused(c.message) THEN Answer(FALSE)
       ELSE Continue(first) /\ UNCHANGED <<k, sha2>>
    /\ UNCHANGED <<oracle, result, failed, signed>>

StartSign(m, d, P) ==
    /\ Cardinality(signed) < MaxSigned
    /\ Enter([NoCall EXCEPT !.op = "sign", !.message = m, !.d = d, !.P = P], "nonce")

StartVerify(m, sig, P) ==
    Enter([NoCall EXCEPT !.op = "verify", !.message = m, !.P = P, !.sig = sig], "regenerate")

(* Bound: with no hash left to make, only nonces whose hash is known.       *)
Drawable(n) ==
    n = 0 \/ Cardinality(DOMAIN oracle) < MaxHashes \/ <<n, call.P, Text(call.message)>> \in DOMAIN oracle

(* BN_generate_dsa_nonce: below the order, and again if it is zero.         *)
DrawNonce(n) ==
    /\ pc = "nonce"
    /\ Drawable(n)
    /\ k' = n
    /\ pc' = IF n = 0 THEN "nonce" ELSE "commit"
    /\ UNCHANGED <<oracle, call, sha2, result, answer, failed, signed>>

(* The octets of Q = kG and of the public key are hashed; those of infinity *)
(* are too short.                                                           *)
Commit ==
    /\ pc = "commit"
    /\ LET Q == PointMul(k, 0, Infinity) IN
         IF call.P = Infinity
         THEN Answer(FALSE)
         ELSE sha2' = sha2 \o <<Q, call.P>> /\ Continue("hash") /\ UNCHANGED k
    /\ UNCHANGED <<oracle, call, result, failed, signed>>

(* The challenge is the digest. *)
Hash ==
    /\ pc = "hash"
    /\ sha2' = Append(sha2, Text(call.message))
    /\ \E digest \in Digests :
         /\ Finalize(sha2', digest)
         /\ result' = [result EXCEPT !.r = digest]
    /\ pc' = "reduce"
    /\ UNCHANGED <<call, k, answer, failed, signed>>

Reduce ==
    /\ pc = "reduce"
    /\ result' = [result EXCEPT !.r = @ % Order]
    /\ pc' = "multiply"
    /\ UNCHANGED <<oracle, call, k, sha2, answer, failed, signed>>

Multiply ==
    /\ pc = "multiply"
    /\ result' = [result EXCEPT !.s = (result.r * call.d) % Order]
    /\ pc' = "subtract"
    /\ UNCHANGED <<oracle, call, k, sha2, answer, failed, signed>>

(* The private key belongs to the public key. *)
Matching(c) == c.P # Infinity /\ c.P = c.d % Order

(* s = k - r * kpriv.  A signature is handed out, or `step' is next with    *)
(* `context' for a hash context.                                            *)
Respond(again, step, context) ==
    /\ pc = "subtract"
    /\ result' = [result EXCEPT !.s = (k - @) % Order]
    /\ IF again THEN Continue(step) /\ sha2' = context /\ UNCHANGED <<k, signed>>
       ELSE /\ Answer(TRUE)
            /\ signed' = IF Matching(call)
                         THEN signed \cup {[P |-> call.P, text |-> Text(call.message), sig |-> result']}
                         ELSE signed
    /\ UNCHANGED <<oracle, call, failed>>

(* Useless numbers: everything is done again, a new nonce included.         *)
Useless == result.r = 0 \/ (k - result.s) % Order = 0

(* Mutants: the hash context is not reset; a zero response is handed out;   *)
(* the nonce is kept.                                                       *)
SubtractNoReset == Respond(Useless, "nonce", sha2)
SubtractZero == Respond(result.r = 0, "nonce", <<>>)
SubtractSameNonce == Respond(Useless, "commit", <<>>)

Subtract == Respond(Useless, "nonce", <<>>)

-----------------------------------------------------------------------------
InRange(n) == n # 0 /\ n < Order

(* Range checks, Q = sG + rP, and the octets of both points.                *)
Regenerate ==
    /\ pc = "regenerate"
    /\ LET Q == PointMul(call.sig.s, call.sig.r, call.P) IN
         IF InRange(call.sig.r) /\ InRange(call.sig.s) /\ Q # Infinity /\ call.P # Infinity
         THEN sha2' = <<Q, call.P>> /\ Continue("rehash") /\ UNCHANGED k
         ELSE Answer(FALSE)
    /\ UNCHANGED <<oracle, call, result, failed, signed>>

Rehash ==
    /\ pc = "rehash"
    /\ \E digest \in Digests :
         /\ Finalize(Append(sha2, Text(call.message)), digest)
         /\ Answer(digest % Order = call.sig.r)
    /\ UNCHANGED <<call, result, failed, signed>>

-----------------------------------------------------------------------------
(* Any OpenSSL function may fail, and the call returns false with `result'  *)
(* as it is.                                                                *)
OpenSSLFails ==
    /\ pc \in SignSteps \cup VerifySteps
    /\ failed' = TRUE
    /\ Answer(FALSE)
    /\ UNCHANGED <<oracle, call, result, signed>>

(* Mutant: one Signature serves all calls. *)
LeaveKeepsResult ==
    /\ pc = "answered"
    /\ pc' = "idle" /\ call' = NoCall
    /\ answer' = FALSE /\ failed' = FALSE
    /\ UNCHANGED <<oracle, k, sha2, result, signed>>

(* The caller goes on, and has a new Signature for the next call.           *)
Leave ==
    /\ pc = "answered"
    /\ pc' = "idle" /\ call' = NoCall
    /\ result' = NewSignature /\ answer' = FALSE /\ failed' = FALSE
    /\ UNCHANGED <<oracle, k, sha2, signed>>

Call ==
    \E m \in Slices, P \in PubKeys :
      \/ \E d \in PrivKeys : StartSign(m, d, P)
      \/ \E sig \in Forged \cup {done.sig : done \in signed} : StartVerify(m, sig, P)

SignStep == (\E n \in Points : DrawNonce(n)) \/ Commit \/ Hash \/ Reduce \/ Multiply \/ Subtract
VerifyStep == Regenerate \/ Rehash

Next == Call \/ SignStep \/ VerifyStep \/ OpenSSLFails \/ Leave

Spec == Init /\ [][Next]_vars

(* A call goes on until it returns, and the random generator gives every    *)
(* nonce again and again.                                                   *)
FairSpec ==
    /\ Spec
    /\ WF_vars(SignStep) /\ WF_vars(VerifyStep)
    /\ \A n \in Points : SF_vars(DrawNonce(n))

-----------------------------------------------------------------------------
(* Properties. *)

(* The arguments of a call, its local objects, and the history of Sign.     *)
SchnorrTypeOK ==
    /\ pc \in {"idle", "answered"} \cup SignSteps \cup VerifySteps
    /\ call.op \in {"none", "sign", "verify"}
    /\ call.message \in Slices \cup {Whole(<<>>)}
    /\ call.d \in Nat /\ call.P \in Points
    /\ call.sig \in [r : Nat, s : Nat]
    /\ k \in Points /\ result \in [r : Nat, s : Nat]
    /\ answer \in BOOLEAN /\ failed \in BOOLEAN
    /\ \A h \in DOMAIN oracle : oracle[h] \in Digests
    /\ \A done \in signed : done.sig \in [r : Keys, s : Keys] /\ done.P \in Keys

(* What Sign signed, Verify accepts: under the same key, for the same bytes *)
(* (wherever they lie in the caller's message), and however many attempts   *)
(* Sign needed.                                                             *)
SignedVerifies ==
    /\ pc = "answered" /\ call.op = "verify" /\ ~failed /\ ~Refused(call.message)
    /\ [P |-> call.P, text |-> Text(call.message), sig |-> call.sig] \in signed
    => answer

(* A nonce with which the call at hand can be completed is known. *)
GoodNonceKnown ==
    \E n \in Keys :
        /\ <<n, call.P, Text(call.message)>> \in DOMAIN oracle
        /\ LET r == oracle[<<n, call.P, Text(call.message)>>] % Order
           IN  r # 0 /\ (n - r * call.d) % Order # 0

(* Sign does not go round its loops for ever unless the hash function makes *)
(* every nonce useless.                                                     *)
SigningEnds == Signing /\ GoodNonceKnown ~> ~Signing
=============================================================================
