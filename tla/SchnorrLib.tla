----------------------------- MODULE SchnorrLib -----------------------------
(***************************************************************************)
(* c_schnorr.cpp, schnorr.ml and the builtins ec_gen_key_pair,             *)
(* schnorr_sign and schnorr_verify: Sign and Verify as a contract has      *)
(* them, on strings of bytes.                                              *)
(***************************************************************************)
EXTENDS Schnorr, SchnorrKeys

CONSTANTS
    Drawn,           \* what the random generator gives for private keys
    ByStrs,          \* further strings of bytes a contract may have
    MaxPairs,        \* bound on the key pairs returned
    MaxIssued        \* bound on the signatures returned

ASSUME LibAssumption ==
    /\ Drawn \subseteq NewPrivKeys
    /\ \A s \in ByStrs : s \in Seq(AllBytes)
    /\ \A m \in Slices : m = Whole(m.bytes)       \* strings are passed whole
    /\ Digests \subseteq Scalars                   \* SHA-256 gives 32 bytes
    /\ PubKeySize < UintModulus /\ SignatureSize < UintModulus
    /\ MaxPairs \in Nat /\ MaxIssued \in Nat

VARIABLES
    pairs,           \* the key pairs ec_gen_key_pair has returned
    request,         \* the arguments of the builtin that runs
    issued,          \* what schnorr_sign was asked for and has returned
    aborted,         \* what ended the process: "assertion", "err_abort", or "no"
    unconverted      \* history: whether a generated key could not be converted

libVars == <<pairs, request, issued, aborted, unconverted>>
allVars == <<vars, libVars>>

(* `whole': keys and signature were built from all their bytes. *)
NoRequest == [pub |-> <<>>, message |-> <<>>, signature |-> <<>>, whole |-> FALSE]

LibInit ==
    /\ Init
    /\ pairs = {} /\ request = NoRequest /\ issued = {}
    /\ aborted = "no" /\ unconverted = FALSE

(* genKeyPair_Z asserts that the keys have the sizes that were reported,    *)
(* and those are what schnorr.ml allocates.                                 *)
Pass(priv, pub) ==
    IF Len(priv) = ScalarSize /\ Len(pub) = PubKeySize
    THEN pairs' = pairs \cup {[priv |-> priv, pub |-> pub]} /\ UNCHANGED aborted
    ELSE aborted' = "assertion" /\ UNCHANGED pairs

(* A key that could not be computed or copied is handed on as a new one:    *)
(* zero and infinity.  A point that could not be converted is not there.    *)
GenKeyPair(d, P, converted) ==
    /\ pc = "idle" /\ aborted = "no"
    /\ Cardinality(pairs) < MaxPairs
    /\ Pass(PrivKeySerialize(<<>>, 0, d), PubKeySerialize(<<>>, 0, P, converted))
    /\ unconverted' = ~converted
    /\ UNCHANGED <<vars, request, issued>>

(* Bound: strings come from the library, or are among ByStrs. *)
PrivStrs == ByStrs \cup {p.priv : p \in pairs}
PubStrs == ByStrs \cup {p.pub : p \in pairs}
SignatureStrs == ByStrs \cup {i.signature : i \in issued}

(* Strings of another width are refused before the library is called.  An   *)
(* object that could not be filled goes into the call as it is.             *)
SignZ(priv, pub, message, privCopied, pubCopied) ==
    /\ aborted = "no"
    /\ Cardinality(issued) < MaxIssued
    /\ Len(priv) = ScalarSize /\ Len(pub) = PubKeySize
    /\ StartSign(Whole(message), PrivKeyOf(priv, 0, privCopied), PubKeyOf(pub, 0, pubCopied))
    /\ request' = [NoRequest EXCEPT !.pub = pub, !.message = message,
                                    !.whole = privCopied = 1 /\ pubCopied = 1]
    /\ UNCHANGED <<pairs, issued, aborted, unconverted>>

VerifyZ(pub, message, signature, pubCopied, sigCopied) ==
    /\ aborted = "no"
    /\ Len(pub) = PubKeySize /\ Len(signature) = SignatureSize
    /\ StartVerify(Whole(message), SignatureOf(signature, 0, sigCopied), PubKeyOf(pub, 0, pubCopied))
    /\ request' = [pub |-> pub, message |-> message, signature |-> signature,
                   whole |-> pubCopied = 1 /\ sigCopied = 2]
    /\ UNCHANGED <<pairs, issued, aborted, unconverted>>

Step == (SignStep \/ VerifyStep \/ OpenSSLFails) /\ UNCHANGED libVars

(* sign_Z does not look at what Sign returned: the Signature is serialised  *)
(* as Sign left it.                                                         *)
ReturnSignature ==
    /\ call.op = "sign"
    /\ Leave
    /\ LET S == SignatureSerialize(<<>>, 0, result) IN
         IF Len(S) = SignatureSize
         THEN /\ issued' = issued \cup
                     {[pub |-> request.pub, message |-> request.message, signature |-> S,
                       matching |-> Matching(call),
                       outcome |-> IF failed THEN "failed" ELSE IF answer THEN "signed" ELSE "refused"]}
              /\ UNCHANGED aborted
         ELSE aborted' = "err_abort" /\ UNCHANGED issued
    /\ request' = NoRequest
    /\ UNCHANGED <<pairs, unconverted>>

ReturnVerdict ==
    /\ call.op = "verify"
    /\ Leave
    /\ request' = NoRequest
    /\ UNCHANGED <<pairs, issued, aborted, unconverted>>

LibNext ==
    \/ \E drawn \in Drawn : \E d \in {drawn, 0}, P \in {PubKeyOfPrivKey(drawn), Infinity}, converted \in BOOLEAN :
         GenKeyPair(d, P, converted)
    \/ \E m \in {slice.bytes : slice \in Slices}, pub \in PubStrs, pubCopied \in 0..1 :
         \/ \E priv \in PrivStrs, privCopied \in 0..1 : SignZ(priv, pub, m, privCopied, pubCopied)
         \/ \E signature \in SignatureStrs, sigCopied \in 0..2 :
              VerifyZ(pub, m, signature, pubCopied, sigCopied)
    \/ Step
    \/ ReturnSignature
    \/ ReturnVerdict

LibSpec == LibInit /\ [][LibNext]_allVars

-----------------------------------------------------------------------------
(* Properties. *)

(* Whatever is generated, signed or failed at: the memory that schnorr.ml   *)
(* allocates has the size of the result, and err_abort is never reached.    *)
(* The assertion of genKeyPair_Z fails when OpenSSL could not convert the   *)
(* public key, and only then: no pair is returned without its public key.   *)
AbortsOnlyUnconverted == aborted = IF unconverted THEN "assertion" ELSE "no"

(* A signature that was made with a matching pair of keys is accepted by a  *)
(* later call, keys and signature having gone through strings, unless       *)
(* OpenSSL fails.                                                           *)
IssuedVerifies ==
    pc = "answered" /\ call.op = "verify" /\ ~failed /\ request.whole =>
        \A i \in issued :
            /\ i.matching /\ i.outcome = "signed"
            /\ [pub |-> i.pub, message |-> i.message, signature |-> i.signature]
               = [pub |-> request.pub, message |-> request.message, signature |-> request.signature]
            => answer

(* sign_Z also returns 64 bytes when Sign refused, and schnorr_sign cannot  *)
(* tell: those bytes are accepted for no message and under no key, whatever *)
(* was signed before.                                                       *)
RefusedNeverVerifies ==
    pc = "answered" /\ call.op = "verify" /\ answer =>
        \A i \in issued : i.outcome = "refused" => i.signature # request.signature
=============================================================================
