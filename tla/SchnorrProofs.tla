--------------------------- MODULE SchnorrProofs ----------------------------
(***************************************************************************)
(* Sign and Verify fit each other, for every group, every hash function    *)
(* and every message: SignedVerifies is an invariant of Schnorr.           *)
(***************************************************************************)
EXTENDS SchnorrLib, BytesProofs

-----------------------------------------------------------------------------
(* Integers modulo the order. *)

LEMMA EuclidOfOrder ==
    ASSUME NEW n \in Int
    PROVE  /\ n \div Order \in Int
           /\ n % Order \in Points
           /\ n = Order * (n \div Order) + (n % Order)
  BY OrderAssumption DEF Points

(* A number below the order is found again behind any multiple of it.       *)
LEMMA ModUnique ==
    ASSUME NEW a \in Points, NEW m \in Int
    PROVE  (a + Order * m) % Order = a
<1> DEFINE n == a + Order * m
<1>1. n \in Int
  BY OrderAssumption DEF Points
<1>2. PICK q \in Int, b \in Points : n = Order * q + b /\ b = n % Order
  BY <1>1, EuclidOfOrder
<1>3. a - b = Order * (q - m)
  <2>1. a \in Int /\ b \in Int /\ Order \in Int
    BY OrderAssumption DEF Points
  <2>2. a + Order * m = Order * q + b
    BY <1>2
  <2> HIDE DEF n
  <2> QED BY <2>1, <2>2
<1>4. -Order < a - b /\ a - b < Order
  BY OrderAssumption DEF Points
<1>5. q - m = 0
  <2> DEFINE e == q - m
  <2>1. e \in Int /\ -Order < Order * e /\ Order * e < Order
    BY <1>3, <1>4
  <2>2. CASE e >= 1
    <3>1. Order * e >= Order
      BY <2>1, <2>2, OrderAssumption
    <3> QED BY <3>1, <2>1, OrderAssumption
  <2>3. CASE e <= -1
    <3>1. Order * e <= -Order
      BY <2>1, <2>3, OrderAssumption
    <3> QED BY <3>1, <2>1, OrderAssumption
  <2>4. CASE e = 0
    BY <2>4
  <2>5. e >= 1 \/ e <= -1 \/ e = 0
    BY <1>2
  <2> QED BY <2>2, <2>3, <2>4, <2>5
<1>6. a = b
  BY <1>3, <1>5, OrderAssumption DEF Points
<1> QED BY <1>2, <1>6

LEMMA ModSmall ==
    ASSUME NEW a \in Points
    PROVE  a % Order = a
  BY OrderAssumption DEF Points

(* The commitment that Verify regenerates is the one that Sign hashed.      *)
LEMMA Recommit ==
    ASSUME NEW n \in Points, NEW r \in Nat, NEW d \in Nat
    PROVE  PointMul((n - ((r * d) % Order)) % Order, r, d % Order) = n
<1> DEFINE t == (r * d) % Order
           s == (n - t) % Order
           P == d % Order
<1>1. r * d \in Int
  OBVIOUS
<1>2. PICK q1 \in Int : r * d = Order * q1 + t /\ t \in Points
  BY <1>1, EuclidOfOrder
<1>3. n - t \in Int
  BY <1>2 DEF Points
<1>4. PICK q2 \in Int : n - t = Order * q2 + s /\ s \in Points
  BY <1>3, EuclidOfOrder
<1>5. PICK q3 \in Int : d = Order * q3 + P /\ P \in Points
  BY EuclidOfOrder
<1> HIDE DEF t, s, P
<1>6. r * d = r * (Order * q3) + r * P
  BY <1>5, OrderAssumption DEF Points
<1>7. s + r * P = n + Order * (q1 - q2 - r * q3)
  <2>1. s = n - t - Order * q2
    BY <1>2, <1>4, OrderAssumption DEF Points
  <2>2. r * P = Order * q1 + t - r * (Order * q3)
    BY <1>2, <1>5, <1>6, OrderAssumption DEF Points
  <2>3. r * (Order * q3) = Order * (r * q3)
    BY OrderAssumption
  <2>4. r * P \in Int /\ r * q3 \in Int
    BY <1>5 DEF Points
  <2>5. Order * (q1 - q2 - r * q3) = Order * q1 - Order * q2 - Order * (r * q3)
    BY <2>4, OrderAssumption
  <2> QED BY <2>1, <2>2, <2>3, <2>4, <2>5, <1>2, <1>4, OrderAssumption DEF Points
<1>8. q1 - q2 - r * q3 \in Int
  BY <1>5
<1>9. (s + r * P) % Order = n
  BY <1>7, <1>8, ModUnique
<1> QED BY <1>9 DEF PointMul, t, s, P

-----------------------------------------------------------------------------
(* The inductive invariant. *)

(* The digest of a commitment, a public key and a text is known, and        *)
(* stands for the challenge r.                                              *)
Challenge(Q, P, text, r) ==
    /\ <<Q, P, text>> \in DOMAIN oracle
    /\ oracle[<<Q, P, text>>] % Order = r

(* What SignedVerifies needs to know of an earlier signature: the challenge *)
(* is that of the commitment which Verify will regenerate.                  *)
SignedInv ==
    \A done \in signed :
        LET Q == PointMul(done.sig.s, done.sig.r, done.P)
        IN  Q # Infinity /\ Challenge(Q, done.P, done.text, done.sig.r)

(* How far Sign has come in this attempt.                                   *)
AttemptInv ==
    /\ Signing => call.op = "sign"
    /\ pc \in {"idle", "answered", "nonce"} => sha2 = <<>>
    /\ pc = "commit" => sha2 = <<>> /\ k # 0
    /\ pc \in {"hash", "reduce", "multiply", "subtract"} => k # 0 /\ call.P # Infinity
    /\ pc = "hash" => sha2 = <<k, call.P>>
    /\ pc = "reduce" =>
         /\ <<k, call.P, Text(call.message)>> \in DOMAIN oracle
         /\ oracle[<<k, call.P, Text(call.message)>>] = result.r
    /\ pc \in {"multiply", "subtract"} => Challenge(k, call.P, Text(call.message), result.r)
    /\ pc = "subtract" => result.s = (result.r * call.d) % Order

(* How far Verify has come.                                                 *)
VerifyInv ==
    /\ pc \in VerifySteps => call.op = "verify"
    /\ pc = "rehash" => sha2 = <<PointMul(call.sig.s, call.sig.r, call.P), call.P>>

IInv == SchnorrTypeOK /\ SignedInv /\ AttemptInv /\ VerifyInv /\ SignedVerifies

LEMMA InitEstablishes == Init => IInv
<1> SUFFICES ASSUME Init PROVE IInv
  OBVIOUS
<1>1. SchnorrTypeOK
  <2>1. 0 \in Points
    BY OrderAssumption DEF Points
  <2>2. NewSignature \in [r : Nat, s : Nat]
    BY DEF NewSignature
  <2>3. DOMAIN oracle = {}
    BY DEF Init
  <2> QED BY <2>1, <2>2, <2>3 DEF Init, SchnorrTypeOK, NoCall, Infinity
<1>2. SignedInv /\ AttemptInv /\ VerifyInv /\ SignedVerifies
  BY DEF Init, SignedInv, AttemptInv, VerifyInv, SignedVerifies, Signing, SignSteps, VerifySteps
<1> QED BY <1>1, <1>2 DEF IInv

(* Update appends to what a hash context holds. *)
LEMMA AppendToTwo ==
    ASSUME NEW a, NEW b, NEW c
    PROVE  Append(<<a, b>>, c) = <<a, b, c>>
<1> DEFINE S == {a, b, c}
<1>1. <<a, b>> \in Seq(S) /\ Len(<<a, b>>) = 2
  OBVIOUS
<1>2. Append(<<a, b>>, c) \in Seq(S) /\ Len(Append(<<a, b>>, c)) = 3
  BY <1>1
<1>3. \A i \in 1..3 : Append(<<a, b>>, c)[i] = <<a, b, c>>[i]
  BY <1>1
<1>4. <<a, b, c>> \in Seq(S) /\ Len(<<a, b, c>>) = 3
  OBVIOUS
<1> HIDE DEF S
<1> QED BY <1>2, <1>3, <1>4, SeqEqual

(* The hash function keeps its answers.                                     *)
LEMMA FinalizeFacts ==
    ASSUME NEW input, NEW digest \in Digests, Finalize(input, digest), SchnorrTypeOK
    PROVE  /\ \A h \in DOMAIN oracle : h \in DOMAIN oracle' /\ oracle'[h] = oracle[h]
           /\ input \in DOMAIN oracle' /\ oracle'[input] = digest
           /\ \A h \in DOMAIN oracle' : oracle'[h] \in Digests
  BY DEF Finalize, SchnorrTypeOK

(* Signatures made before stay good while the hash function learns.         *)
LEMMA SignedInvKept ==
    ASSUME SignedInv, signed' = signed,
           \A h \in DOMAIN oracle : h \in DOMAIN oracle' /\ oracle'[h] = oracle[h]
    PROVE  SignedInv'
  BY DEF SignedInv, Challenge

(* What a call starts with. *)
LEMMA EnterKeeps ==
    ASSUME IInv, NEW c, NEW first, Enter(c, first),
           \/ c.op = "sign" /\ first = "nonce"
           \/ c.op = "verify" /\ first = "regenerate",
           c.message \in Slices, c.d \in Nat, c.P \in Points, c.sig \in [r : Nat, s : Nat],
           sha2 = <<>>
    PROVE  IInv'
<1> USE DEF Enter, Answer, Continue
<1>1. SchnorrTypeOK'
  <2>0. 0 \in Points
    BY OrderAssumption DEF Points
  <2>1. pc' \in {"answered", "nonce", "regenerate"} /\ k' \in Points
    BY <2>0 DEF IInv, SchnorrTypeOK
  <2>3. answer \in BOOLEAN
    BY DEF IInv, SchnorrTypeOK
  <2>4. answer' = FALSE \/ answer' = answer
    OBVIOUS
  <2>5. answer' \in BOOLEAN
    BY <2>3, <2>4
  <2>2. call' = c /\ UNCHANGED <<oracle, result, failed, signed>>
    OBVIOUS
  <2> QED BY <2>1, <2>2, <2>5 DEF IInv, SchnorrTypeOK, SignSteps, VerifySteps
<1>2. SignedInv'
  BY SignedInvKept DEF IInv
<1>3. AttemptInv' /\ VerifyInv'
  BY DEF AttemptInv, VerifyInv, Signing, SignSteps, VerifySteps
<1>4. SignedVerifies'
  BY DEF SignedVerifies
<1> QED BY <1>1, <1>2, <1>3, <1>4 DEF IInv

LEMMA CallKeeps ==
    ASSUME IInv, Call
    PROVE  IInv'
<1>1. PICK m \in Slices, P \in PubKeys :
         \/ \E d \in PrivKeys : StartSign(m, d, P)
         \/ \E sig \in Forged \cup {done.sig : done \in signed} : StartVerify(m, sig, P)
  BY DEF Call
<1>2. sha2 = <<>>
  BY <1>1 DEF IInv, AttemptInv, StartSign, StartVerify, Enter
<1>3. P \in Points /\ 0 \in Points /\ NewSignature \in [r : Nat, s : Nat]
  BY SchnorrAssumption, OrderAssumption DEF Points, NewSignature
<1>4. CASE \E d \in PrivKeys : StartSign(m, d, P)
  <2>1. PICK d \in PrivKeys : StartSign(m, d, P)
    BY <1>4
  <2> DEFINE c == [NoCall EXCEPT !.op = "sign", !.message = m, !.d = d, !.P = P]
  <2>2. Enter(c, "nonce")
    BY <2>1 DEF StartSign
  <2>3. c.op = "sign" /\ c.message = m /\ c.d = d /\ c.P = P /\ c.sig = NewSignature
    BY DEF NoCall
  <2>4. d \in Nat
    BY SchnorrAssumption
  <2> HIDE DEF c
  <2> QED BY <1>2, <1>3, <2>2, <2>3, <2>4, EnterKeeps
<1>5. CASE \E sig \in Forged \cup {done.sig : done \in signed} : StartVerify(m, sig, P)
  <2>1. PICK sig \in Forged \cup {done.sig : done \in signed} : StartVerify(m, sig, P)
    BY <1>5
  <2> DEFINE c == [NoCall EXCEPT !.op = "verify", !.message = m, !.P = P, !.sig = sig]
  <2>2. Enter(c, "regenerate")
    BY <2>1 DEF StartVerify
  <2>3. c.op = "verify" /\ c.message = m /\ c.d = 0 /\ c.P = P /\ c.sig = sig
    BY DEF NoCall
  <2>4. [r : Keys, s : Keys] \subseteq [r : Nat, s : Nat]
    BY OrderAssumption DEF Keys
  <2>5. sig \in [r : Nat, s : Nat]
    BY <2>4, SchnorrAssumption DEF IInv, SchnorrTypeOK
  <2> HIDE DEF c
  <2> QED BY <1>2, <1>3, <2>2, <2>3, <2>5, EnterKeeps
<1> QED BY <1>1, <1>4, <1>5

(* A call that goes on with nothing new signed keeps what is said of Verify *)
(* and of earlier signatures.                                               *)
LEMMA SigningKeeps ==
    ASSUME IInv, Signing, SchnorrTypeOK', AttemptInv',
           call' = call, signed' = signed,
           pc' \in SignSteps \cup {"answered"},
           \A h \in DOMAIN oracle : h \in DOMAIN oracle' /\ oracle'[h] = oracle[h]
    PROVE  IInv'
<1>1. SignedInv'
  BY SignedInvKept DEF IInv
<1>2. call.op = "sign"
  BY DEF IInv, AttemptInv
<1>3. VerifyInv' /\ SignedVerifies'
  BY <1>2 DEF VerifyInv, SignedVerifies, SignSteps, VerifySteps
<1> QED BY <1>1, <1>3 DEF IInv

LEMMA DrawNonceKeeps ==
    ASSUME IInv, NEW n \in Points, DrawNonce(n)
    PROVE  IInv'
<1>1. SchnorrTypeOK'
  BY DEF IInv, SchnorrTypeOK, DrawNonce, SignSteps
<1>2. AttemptInv'
  BY DEF IInv, AttemptInv, DrawNonce, Signing, SignSteps
<1> QED BY <1>1, <1>2, SigningKeeps DEF DrawNonce, Signing, SignSteps

LEMMA CommitKeeps ==
    ASSUME IInv, Commit
    PROVE  IInv'
<1>1. k \in Points /\ 0 \in Points /\ sha2 = <<>> /\ k # 0
  BY OrderAssumption DEF IInv, SchnorrTypeOK, AttemptInv, Commit, Points
<1>2. PointMul(k, 0, Infinity) = k
  BY <1>1, OrderAssumption DEF PointMul, Infinity, Points
<1>3. <<>> \o <<k, call.P>> = <<k, call.P>>
  OBVIOUS
<1>4. CASE call.P = Infinity
  <2>1. Answer(FALSE) /\ UNCHANGED <<oracle, call, result, failed, signed>>
    BY <1>4 DEF Commit
  <2>2. SchnorrTypeOK'
    BY <1>1, <2>1 DEF IInv, SchnorrTypeOK, Answer
  <2>3. AttemptInv'
    BY <2>1 DEF IInv, AttemptInv, Answer, Signing, SignSteps
  <2> QED BY <2>1, <2>2, <2>3, SigningKeeps DEF Commit, Answer, Signing, SignSteps
<1>5. CASE call.P # Infinity
  <2>1. /\ sha2' = <<k, call.P>> /\ pc' = "hash"
        /\ UNCHANGED <<oracle, call, k, result, answer, failed, signed>>
    BY <1>1, <1>2, <1>3, <1>5 DEF Commit, Continue
  <2>2. SchnorrTypeOK'
    BY <1>1, <2>1 DEF IInv, SchnorrTypeOK, SignSteps
  <2>3. AttemptInv'
    BY <1>1, <1>5, <2>1 DEF IInv, AttemptInv, Commit, Signing, SignSteps
  <2> QED BY <2>1, <2>2, <2>3, SigningKeeps DEF Commit, Signing, SignSteps
<1> QED BY <1>4, <1>5

LEMMA HashKeeps ==
    ASSUME IInv, Hash
    PROVE  IInv'
<1>1. PICK digest \in Digests :
         Finalize(sha2', digest) /\ result' = [result EXCEPT !.r = digest]
  BY DEF Hash
<1>2. /\ \A h \in DOMAIN oracle : h \in DOMAIN oracle' /\ oracle'[h] = oracle[h]
      /\ sha2' \in DOMAIN oracle' /\ oracle'[sha2'] = digest
      /\ \A h \in DOMAIN oracle' : oracle'[h] \in Digests
  BY <1>1, FinalizeFacts DEF IInv
<1>3. sha2' = <<k, call.P, Text(call.message)>>
  <2>1. sha2 = <<k, call.P>> /\ sha2' = Append(sha2, Text(call.message))
    BY DEF IInv, AttemptInv, Hash
  <2> QED BY <2>1, AppendToTwo
<1>4. digest \in Nat /\ result' \in [r : Nat, s : Nat] /\ result'.r = digest
  BY <1>1, SchnorrAssumption DEF IInv, SchnorrTypeOK
<1>5. pc' = "reduce" /\ UNCHANGED <<call, k, answer, failed, signed>>
  BY DEF Hash
<1>6. SchnorrTypeOK'
  BY <1>2, <1>4, <1>5 DEF IInv, SchnorrTypeOK, SignSteps
<1>7. AttemptInv'
  BY <1>2, <1>3, <1>4, <1>5 DEF IInv, AttemptInv, Hash, Signing, SignSteps
<1> QED BY <1>2, <1>5, <1>6, <1>7, SigningKeeps DEF Hash, Signing, SignSteps

LEMMA ReduceKeeps ==
    ASSUME IInv, Reduce
    PROVE  IInv'
<1>1. result' \in [r : Nat, s : Nat] /\ result'.r = result.r % Order
  <2>1. result.r % Order \in Nat
    BY EuclidOfOrder DEF IInv, SchnorrTypeOK, Points
  <2> QED BY <2>1 DEF IInv, SchnorrTypeOK, Reduce
<1>2. pc' = "multiply" /\ UNCHANGED <<oracle, call, k, sha2, answer, failed, signed>>
  BY DEF Reduce
<1>3. SchnorrTypeOK'
  BY <1>1, <1>2 DEF IInv, SchnorrTypeOK, SignSteps
<1>4. AttemptInv'
  BY <1>1, <1>2 DEF IInv, AttemptInv, Challenge, Reduce, Signing, SignSteps
<1> QED BY <1>2, <1>3, <1>4, SigningKeeps DEF Reduce, Signing, SignSteps

LEMMA MultiplyKeeps ==
    ASSUME IInv, Multiply
    PROVE  IInv'
<1>1. /\ result' \in [r : Nat, s : Nat] /\ result'.r = result.r
      /\ result'.s = (result.r * call.d) % Order
  <2>1. result.r * call.d \in Int
    BY DEF IInv, SchnorrTypeOK
  <2>2. (result.r * call.d) % Order \in Nat
    BY <2>1, EuclidOfOrder DEF Points
  <2> QED BY <2>2 DEF IInv, SchnorrTypeOK, Multiply
<1>2. pc' = "subtract" /\ UNCHANGED <<oracle, call, k, sha2, answer, failed, signed>>
  BY DEF Multiply
<1>3. SchnorrTypeOK'
  BY <1>1, <1>2 DEF IInv, SchnorrTypeOK, SignSteps
<1>4. AttemptInv'
  BY <1>1, <1>2 DEF IInv, AttemptInv, Challenge, Multiply, Signing, SignSteps
<1> QED BY <1>2, <1>3, <1>4, SigningKeeps DEF Multiply, Signing, SignSteps

(* What Subtract hands out is what Verify will look for. *)
LEMMA SubtractKeeps ==
    ASSUME IInv, Subtract
    PROVE  IInv'
<1> DEFINE s == (k - result.s) % Order
           text == Text(call.message)
<1>1. /\ k \in Points /\ k # 0 /\ call.P \in Points /\ call.P # Infinity /\ call.d \in Nat
      /\ result \in [r : Nat, s : Nat] /\ result.s = (result.r * call.d) % Order
      /\ Challenge(k, call.P, text, result.r)
  BY DEF IInv, SchnorrTypeOK, AttemptInv, Subtract, Respond
<1>2. result.r \in Points
  <2>1. oracle[<<k, call.P, text>>] \in Nat
    BY <1>1, SchnorrAssumption DEF Challenge, IInv, SchnorrTypeOK
  <2> QED BY <1>1, <2>1, EuclidOfOrder DEF Challenge
<1>3. s \in Points
  <2>1. k - result.s \in Int
    BY <1>1 DEF Points
  <2> QED BY <2>1, EuclidOfOrder
<1>4. /\ result' \in [r : Nat, s : Nat] /\ result'.r = result.r /\ result'.s = s
      /\ UNCHANGED <<oracle, call, failed>>
  BY <1>1, <1>3 DEF Subtract, Respond, Points
<1>5. CASE Useless
  <2>1. pc' = "nonce" /\ sha2' = <<>> /\ UNCHANGED <<k, answer, signed>>
    BY <1>5 DEF Subtract, Respond, Continue
  <2>2. SchnorrTypeOK'
    BY <1>4, <2>1 DEF IInv, SchnorrTypeOK, SignSteps
  <2>3. AttemptInv'
    BY <1>4, <2>1 DEF IInv, AttemptInv, Subtract, Respond, Signing, SignSteps
  <2> QED BY <1>4, <2>1, <2>2, <2>3, SigningKeeps DEF Subtract, Respond, Signing, SignSteps
<1>6. CASE ~Useless
  <2> DEFINE made == [P |-> call.P, text |-> text, sig |-> result']
  <2>1. /\ pc' = "answered" /\ answer' = TRUE /\ k' = 0 /\ sha2' = <<>>
        /\ signed' = IF Matching(call) THEN signed \cup {made} ELSE signed
    BY <1>6 DEF Subtract, Respond, Answer
  <2>2. made.sig \in [r : Keys, s : Keys] /\ made.P \in Keys
    <3>1. result.r # 0 /\ s # 0
      BY <1>6 DEF Useless
    <3>2. result.r \in Keys /\ s \in Keys /\ call.P \in Keys
      BY <3>1, <1>1, <1>2, <1>3, OrderAssumption DEF Keys, Points, Infinity
    <3>3. result' = [r |-> result'.r, s |-> result'.s]
      BY <1>4
    <3> QED BY <3>2, <3>3, <1>4
  <2>3. Matching(call) =>
          /\ PointMul(made.sig.s, made.sig.r, made.P) = k
          /\ k # Infinity
    <3>1. SUFFICES ASSUME Matching(call) PROVE PointMul(s, result.r, call.P) = k
      BY <1>1, <1>4 DEF Infinity
    <3>2. call.P = call.d % Order
      BY <3>1 DEF Matching
    <3>3. PointMul((k - ((result.r * call.d) % Order)) % Order, result.r, call.d % Order) = k
      BY <1>1, Recommit
    <3>4. s = (k - ((result.r * call.d) % Order)) % Order
      BY <1>1
    <3> HIDE DEF s
    <3> QED BY <3>2, <3>3, <3>4
  <2>4. SchnorrTypeOK'
    <3>1. \A done \in signed' : done.sig \in [r : Keys, s : Keys] /\ done.P \in Keys
      <4> HIDE DEF made
      <4> QED BY <2>1, <2>2 DEF IInv, SchnorrTypeOK
    <3>2. k' \in Points
      BY <2>1, OrderAssumption DEF Points
    <3> QED BY <1>4, <2>1, <3>1, <3>2 DEF IInv, SchnorrTypeOK
  <2>5. SignedInv'
    <3>1. SignedInv
      BY DEF IInv
    <3>2. Matching(call) =>
            LET Q == PointMul(made.sig.s, made.sig.r, made.P)
            IN  Q # Infinity /\ Challenge(Q, made.P, made.text, made.sig.r)
      BY <1>1, <1>4, <2>3
    <3>3. oracle' = oracle
      BY <1>4
    <3> HIDE DEF made
    <3> QED BY <2>1, <3>1, <3>2, <3>3 DEF SignedInv, Challenge
  <2>6. call.op = "sign"
    BY DEF IInv, AttemptInv, Subtract, Respond, Signing, SignSteps
  <2>7. AttemptInv' /\ VerifyInv' /\ SignedVerifies'
    BY <1>4, <2>1, <2>6 DEF AttemptInv, VerifyInv, SignedVerifies, Signing, SignSteps, VerifySteps
  <2> QED BY <2>4, <2>5, <2>7 DEF IInv
<1> QED BY <1>5, <1>6

-----------------------------------------------------------------------------
(* Verify *)

(* A call that ends or goes on without touching what Sign needs.            *)
LEMMA VerifyingKeeps ==
    ASSUME IInv, pc \in VerifySteps, SchnorrTypeOK', VerifyInv', SignedVerifies',
           UNCHANGED <<call, signed>>,
           pc' \in {"answered", "rehash"}, pc' = "answered" => sha2' = <<>>,
           \A h \in DOMAIN oracle : h \in DOMAIN oracle' /\ oracle'[h] = oracle[h]
    PROVE  IInv'
<1>1. SignedInv'
  BY SignedInvKept DEF IInv
<1>2. AttemptInv'
  BY DEF AttemptInv, Signing, SignSteps
<1> QED BY <1>1, <1>2 DEF IInv

(* A signature of Sign passes the range checks. *)
LEMMA RegenerateKeeps ==
    ASSUME IInv, Regenerate
    PROVE  IInv'
<1> DEFINE Q == PointMul(call.sig.s, call.sig.r, call.P)
           ok == InRange(call.sig.r) /\ InRange(call.sig.s) /\ Q # Infinity /\ call.P # Infinity
<1>1. UNCHANGED <<oracle, call, result, failed, signed>> /\ pc \in VerifySteps
  BY DEF Regenerate, VerifySteps
<1>2. 0 \in Points
  BY OrderAssumption DEF Points
<1>3. CASE ok
  <2>1. sha2' = <<Q, call.P>> /\ pc' = "rehash" /\ UNCHANGED <<answer, k>>
    BY <1>3 DEF Regenerate, Continue
  <2>2. SchnorrTypeOK'
    BY <1>1, <2>1 DEF IInv, SchnorrTypeOK, VerifySteps
  <2>3. VerifyInv'
    BY <1>1, <2>1 DEF IInv, VerifyInv
  <2>4. SignedVerifies'
    BY <2>1 DEF SignedVerifies
  <2> QED BY <1>1, <2>1, <2>2, <2>3, <2>4, VerifyingKeeps
<1>4. CASE ~ok
  <2>1. pc' = "answered" /\ answer' = FALSE /\ k' = 0 /\ sha2' = <<>>
    BY <1>4 DEF Regenerate, Answer
  <2>2. SchnorrTypeOK'
    BY <1>1, <1>2, <2>1 DEF IInv, SchnorrTypeOK
  <2>3. VerifyInv'
    BY <2>1 DEF VerifyInv, VerifySteps
  <2>4. [P |-> call.P, text |-> Text(call.message), sig |-> call.sig] \notin signed
    <3>1. SUFFICES ASSUME [P |-> call.P, text |-> Text(call.message), sig |-> call.sig] \in signed
                   PROVE  ok
      BY <1>4
    <3>2. call.sig \in [r : Keys, s : Keys] /\ call.P \in Keys
      BY <3>1 DEF IInv, SchnorrTypeOK
    <3>3. Q # Infinity
      BY <3>1 DEF IInv, SignedInv
    <3> QED BY <3>2, <3>3, OrderAssumption DEF InRange, Keys, Infinity
  <2>5. SignedVerifies'
    BY <1>1, <2>4 DEF SignedVerifies
  <2> QED BY <1>1, <2>1, <2>2, <2>3, <2>5, VerifyingKeeps
<1> QED BY <1>3, <1>4

(* The digest of a signature of Sign is known, and is its challenge.        *)
LEMMA RehashKeeps ==
    ASSUME IInv, Rehash
    PROVE  IInv'
<1> DEFINE input == <<PointMul(call.sig.s, call.sig.r, call.P), call.P, Text(call.message)>>
<1>1. PICK digest \in Digests :
         Finalize(Append(sha2, Text(call.message)), digest) /\ Answer(digest % Order = call.sig.r)
  BY DEF Rehash
<1>2. Append(sha2, Text(call.message)) = input
  BY AppendToTwo DEF IInv, VerifyInv, Rehash
<1>3. /\ \A h \in DOMAIN oracle : h \in DOMAIN oracle' /\ oracle'[h] = oracle[h]
      /\ input \in DOMAIN oracle' /\ oracle'[input] = digest
      /\ \A h \in DOMAIN oracle' : oracle'[h] \in Digests
  <2> HIDE DEF input
  <2> QED BY <1>1, <1>2, FinalizeFacts DEF IInv
<1>4. /\ UNCHANGED <<call, result, failed, signed>> /\ pc \in VerifySteps
      /\ pc' = "answered" /\ k' = 0 /\ sha2' = <<>>
  BY <1>1 DEF Rehash, Answer, VerifySteps
<1>5. answer' = (digest % Order = call.sig.r)
  BY <1>1 DEF Answer
<1>6. SchnorrTypeOK'
  <2>1. 0 \in Points
    BY OrderAssumption DEF Points
  <2>2. answer' \in BOOLEAN
    BY <1>5
  <2> QED BY <1>3, <1>4, <2>1, <2>2 DEF IInv, SchnorrTypeOK
<1>7. VerifyInv'
  BY <1>4 DEF VerifyInv, VerifySteps
<1>8. SignedVerifies'
  <2>1. SUFFICES ASSUME [P |-> call.P, text |-> Text(call.message), sig |-> call.sig] \in signed
                 PROVE  digest % Order = call.sig.r
    BY <1>4, <1>5 DEF SignedVerifies
  <2>2. input \in DOMAIN oracle /\ oracle[input] % Order = call.sig.r
    BY <2>1 DEF IInv, SignedInv, Challenge
  <2> HIDE DEF input
  <2> QED BY <2>2, <1>3
<1> QED BY <1>3, <1>4, <1>6, <1>7, <1>8, VerifyingKeeps

LEMMA OpenSSLFailsKeeps ==
    ASSUME IInv, OpenSSLFails
    PROVE  IInv'
<1>1. /\ pc' = "answered" /\ answer' = FALSE /\ k' = 0 /\ sha2' = <<>> /\ failed' = TRUE
      /\ UNCHANGED <<oracle, call, result, signed>>
  BY DEF OpenSSLFails, Answer
<1>2. 0 \in Points
  BY OrderAssumption DEF Points
<1>3. SchnorrTypeOK'
  BY <1>1, <1>2 DEF IInv, SchnorrTypeOK
<1>4. SignedInv'
  BY <1>1, SignedInvKept DEF IInv
<1>5. AttemptInv' /\ VerifyInv' /\ SignedVerifies'
  BY <1>1 DEF AttemptInv, VerifyInv, SignedVerifies, Signing, SignSteps, VerifySteps
<1> QED BY <1>3, <1>4, <1>5 DEF IInv

LEMMA LeaveKeeps ==
    ASSUME IInv, Leave
    PROVE  IInv'
<1>1. /\ pc' = "idle" /\ call' = NoCall /\ result' = NewSignature
      /\ answer' = FALSE /\ failed' = FALSE /\ sha2' = <<>>
      /\ UNCHANGED <<oracle, k, signed>>
  BY DEF Leave, IInv, AttemptInv
<1>2. SchnorrTypeOK'
  <2>1. 0 \in Points
    BY OrderAssumption DEF Points
  <2>2. NewSignature \in [r : Nat, s : Nat]
    BY DEF NewSignature
  <2> QED BY <1>1, <2>1, <2>2 DEF IInv, SchnorrTypeOK, NoCall, Infinity
<1>3. SignedInv'
  BY <1>1, SignedInvKept DEF IInv
<1>4. AttemptInv' /\ VerifyInv' /\ SignedVerifies'
  BY <1>1 DEF AttemptInv, VerifyInv, SignedVerifies, Signing, SignSteps, VerifySteps
<1> QED BY <1>2, <1>3, <1>4 DEF IInv

LEMMA StutteringKeeps ==
    ASSUME IInv, UNCHANGED vars
    PROVE  IInv'
<1>1. SchnorrTypeOK' /\ SignedInv' /\ AttemptInv' /\ VerifyInv' /\ SignedVerifies'
  BY DEF vars, IInv, SchnorrTypeOK, SignedInv, Challenge, AttemptInv, VerifyInv, SignedVerifies,
         Signing
<1> QED BY <1>1 DEF IInv

LEMMA StepKeeps ==
    ASSUME IInv, [Next]_vars
    PROVE  IInv'
<1>1. CASE Call
  BY <1>1, CallKeeps
<1>2. CASE SignStep
  <2>1. CASE \E n \in Points : DrawNonce(n)
    BY <2>1, DrawNonceKeeps
  <2>2. CASE Commit
    BY <2>2, CommitKeeps
  <2>3. CASE Hash
    BY <2>3, HashKeeps
  <2>4. CASE Reduce
    BY <2>4, ReduceKeeps
  <2>5. CASE Multiply
    BY <2>5, MultiplyKeeps
  <2>6. CASE Subtract
    BY <2>6, SubtractKeeps
  <2> QED BY <1>2, <2>1, <2>2, <2>3, <2>4, <2>5, <2>6 DEF SignStep
<1>3. CASE VerifyStep
  BY <1>3, RegenerateKeeps, RehashKeeps DEF VerifyStep
<1>4. CASE OpenSSLFails
  BY <1>4, OpenSSLFailsKeeps
<1>5. CASE Leave
  BY <1>5, LeaveKeeps
<1>6. CASE UNCHANGED vars
  BY <1>6, StutteringKeeps
<1> QED BY <1>1, <1>2, <1>3, <1>4, <1>5, <1>6 DEF Next

-----------------------------------------------------------------------------
(* Arguments, local objects and the history of Sign keep their types, and   *)
(* what Sign signed has its numbers in range.                               *)
THEOREM SchnorrTypeCorrect == Spec => []SchnorrTypeOK
<1>1. IInv => SchnorrTypeOK
  BY DEF IInv
<1> QED BY <1>1, InitEstablishes, StepKeeps, PTL DEF Spec

(* What Sign signed with matching keys, Verify accepts: in every group of   *)
(* more than two points, whatever SHA-256 returns, for every slice of every *)
(* message, and however many attempts Sign made.                            *)
THEOREM SignedSignaturesVerify == Spec => []SignedVerifies
<1>1. IInv => SignedVerifies
  BY DEF IInv
<1> QED BY <1>1, InitEstablishes, StepKeeps, PTL DEF Spec

-----------------------------------------------------------------------------
(***************************************************************************)
(* The builtins: what Sign leaves in a Signature when a call returns is    *)
(* what the bytes of an issued signature hold, whatever became of the call.*)
(***************************************************************************)

(* A Signature is fresh until Sign fills it in, its numbers have 32 bytes   *)
(* at any time, and a call that refuses leaves it fresh or with a verdict   *)
(* that does not depend on it.                                              *)
OutcomeInv ==
    /\ result \in Signatures
    /\ pc = "idle" => result = NewSignature
    /\ pc \in {"idle"} \cup SignSteps \cup VerifySteps => answer = FALSE /\ failed = FALSE
    /\ pc \in SignSteps \cup VerifySteps => ~Refused(call.message)
    /\ pc \in {"nonce", "commit"} /\ call.P = Infinity => result = NewSignature
    /\ pc = "answered" /\ call.op = "sign" /\ answer = TRUE =>
         /\ ~Refused(call.message)
         /\ Matching(call) => [P |-> call.P, text |-> Text(call.message), sig |-> result] \in signed
    /\ pc = "answered" /\ call.op = "sign" /\ answer = FALSE /\ failed = FALSE => result = NewSignature
    /\ pc = "rehash" => call.sig.r # 0
    /\ pc = "answered" /\ call.op = "verify" /\ answer = TRUE => call.sig.r # 0

StringsInv == \A p \in pairs : p.priv \in Seq(AllBytes) /\ p.pub \in Seq(AllBytes)

(* What an issued signature is worth when its bytes are read again.         *)
IssueOK(i) ==
    /\ i.signature \in Seq(AllBytes)
    /\ i.matching /\ i.outcome = "signed" =>
         /\ ~Refused(Whole(i.message)) /\ i.message \in Seq(Nat)
         /\ [P |-> PubKeyOf(i.pub, 0, 1), text |-> i.message, sig |-> SignatureOf(i.signature, 0, 2)] \in signed
    /\ i.outcome = "refused" => SignatureOf(i.signature, 0, 2).r = 0

IssuedInv == \A i \in issued : IssueOK(i)

(* A running call has the arguments of the builtin, read from its strings,  *)
(* or what a fresh key or signature has in their place.                     *)
RequestInv ==
    pc # "idle" =>
        /\ call.op \in {"sign", "verify"}
        /\ request.message \in Seq(Nat) /\ call.message = Whole(request.message)
        /\ call.P \in {PubKeyOf(request.pub, 0, 1), Infinity}
        /\ request.whole => call.P = PubKeyOf(request.pub, 0, 1)
        /\ call.op = "verify" =>
             /\ call.sig.r \in {SignatureOf(request.signature, 0, 2).r, 0}
             /\ request.whole => call.sig = SignatureOf(request.signature, 0, 2)

LibInv ==
    /\ IInv /\ OutcomeInv /\ StringsInv /\ IssuedInv /\ RequestInv
    /\ AbortsOnlyUnconverted /\ unconverted \in BOOLEAN

(* The numbers of a Signature fit their fields.                             *)
LEMMA NumbersFit ==
    /\ Points \subseteq Scalars /\ Digests \subseteq Scalars /\ Scalars \subseteq Nat
    /\ NewSignature \in Signatures /\ NewSignature.r = 0
    /\ Signatures \subseteq [r : Nat, s : Nat]
    /\ \A n \in Nat : n % Order \in Scalars
<1>1. Order \in Nat /\ Order > 2 /\ Order <= Power(Byte, ScalarSize) /\ Power(Byte, ScalarSize) \in Nat
  BY OrderAssumption, KeysAssumption, ScalarFacts
<1>2. Points \subseteq Scalars
  BY <1>1 DEF Points, Scalars
<1>3. Digests \subseteq Scalars /\ Scalars \subseteq Nat /\ 0 \in Scalars
  BY LibAssumption, ScalarFacts
<1>4. NewSignature \in Signatures /\ NewSignature.r = 0
  BY <1>3 DEF NewSignature, Signatures
<1>5. Signatures \subseteq [r : Nat, s : Nat]
  BY <1>3 DEF Signatures
<1>6. \A n \in Nat : n % Order \in Points
  BY EuclidOfOrder
<1> QED BY <1>2, <1>3, <1>4, <1>5, <1>6

LEMMA EnterOutcome ==
    ASSUME IInv, OutcomeInv, NEW c, NEW first, Enter(c, first),
           \/ c.op = "sign" /\ first = "nonce"
           \/ c.op = "verify" /\ first = "regenerate"
    PROVE  OutcomeInv'
<1>1. /\ pc = "idle" /\ call' = c /\ UNCHANGED <<oracle, result, failed, signed>>
      /\ result = NewSignature /\ answer = FALSE /\ failed = FALSE
  BY DEF Enter, OutcomeInv
<1>2. result \in Signatures
  BY DEF OutcomeInv
<1>3. CASE Refused(c.message)
  <2>1. pc' = "answered" /\ answer' = FALSE
    BY <1>3 DEF Enter, Answer
  <2> QED BY <1>1, <1>2, <2>1 DEF OutcomeInv, SignSteps, VerifySteps
<1>4. CASE ~Refused(c.message)
  <2>1. pc' = first /\ answer' = FALSE
    BY <1>1, <1>4 DEF Enter, Continue
  <2> QED BY <1>1, <1>2, <1>4, <2>1 DEF OutcomeInv, Refused, SignSteps, VerifySteps
<1> QED BY <1>3, <1>4

LEMMA DrawNonceOutcome ==
    ASSUME IInv, OutcomeInv, NEW n \in Points, DrawNonce(n)
    PROVE  OutcomeInv'
<1>1. pc' \in {"nonce", "commit"} /\ pc = "nonce" /\ UNCHANGED <<call, result, answer, failed, signed>>
  BY DEF DrawNonce
<1> QED BY <1>1 DEF OutcomeInv, Refused, SignSteps, VerifySteps

LEMMA CommitOutcome ==
    ASSUME IInv, OutcomeInv, Commit
    PROVE  OutcomeInv'
<1>1. pc = "commit" /\ UNCHANGED <<oracle, call, result, failed, signed>>
  BY DEF Commit
<1>2. CASE call.P = Infinity
  <2>1. pc' = "answered" /\ answer' = FALSE
    BY <1>2 DEF Commit, Answer
  <2>2. call.op = "sign"
    BY <1>1 DEF IInv, AttemptInv, Signing, SignSteps
  <2> QED BY <1>1, <1>2, <2>1, <2>2 DEF OutcomeInv, SignSteps, VerifySteps
<1>3. CASE call.P # Infinity
  <2>1. pc' = "hash" /\ answer' = answer
    BY <1>3 DEF Commit, Continue
  <2> QED BY <1>1, <2>1 DEF OutcomeInv, Refused, SignSteps, VerifySteps
<1> QED BY <1>2, <1>3

(* A step in the middle of an attempt only fills in the numbers.            *)
LEMMA AttemptOutcome ==
    ASSUME OutcomeInv, pc \in {"hash", "reduce", "multiply"},
           pc' \in {"reduce", "multiply", "subtract"}, result' \in Signatures,
           UNCHANGED <<call, answer, failed, signed>>
    PROVE  OutcomeInv'
BY DEF OutcomeInv, Refused, SignSteps, VerifySteps

LEMMA HashOutcome ==
    ASSUME IInv, OutcomeInv, Hash
    PROVE  OutcomeInv'
<1>1. PICK digest \in Digests : result' = [result EXCEPT !.r = digest]
  BY DEF Hash
<1>2. result \in Signatures
  BY DEF OutcomeInv
<1>3. result' \in Signatures
  BY <1>1, <1>2, NumbersFit DEF Signatures
<1> QED BY <1>3, AttemptOutcome DEF Hash

LEMMA ReduceOutcome ==
    ASSUME IInv, OutcomeInv, Reduce
    PROVE  OutcomeInv'
<1>1. result \in Signatures /\ result.r \in Nat
  BY NumbersFit DEF OutcomeInv, Signatures
<1>2. result' = [result EXCEPT !.r = result.r % Order] /\ result.r % Order \in Scalars
  BY <1>1, NumbersFit DEF Reduce
<1>3. result' \in Signatures
  BY <1>1, <1>2 DEF Signatures
<1> QED BY <1>3, AttemptOutcome DEF Reduce

LEMMA MultiplyOutcome ==
    ASSUME IInv, OutcomeInv, Multiply
    PROVE  OutcomeInv'
<1>1. result \in Signatures /\ result.r \in Nat /\ call.d \in Nat
  BY NumbersFit DEF OutcomeInv, Signatures, IInv, SchnorrTypeOK
<1>2. result.r * call.d \in Nat
  BY <1>1
<1>3. (result.r * call.d) % Order \in Scalars
  BY <1>2, NumbersFit
<1>4. result' = [result EXCEPT !.s = (result.r * call.d) % Order]
  BY DEF Multiply
<1>5. result' \in Signatures
  BY <1>1, <1>3, <1>4 DEF Signatures
<1> QED BY <1>5, AttemptOutcome DEF Multiply

LEMMA SubtractOutcome ==
    ASSUME IInv, OutcomeInv, Subtract
    PROVE  OutcomeInv'
<1> DEFINE s == (k - result.s) % Order
<1>1. /\ result \in Signatures /\ result.s \in Nat /\ k \in Points /\ pc = "subtract"
      /\ call.P # Infinity /\ answer = FALSE /\ failed = FALSE /\ ~Refused(call.message)
  BY NumbersFit DEF OutcomeInv, Signatures, IInv, SchnorrTypeOK, AttemptInv, Subtract, Respond,
                    SignSteps, VerifySteps
<1>2. s \in Scalars
  <2>1. k - result.s \in Int
    BY <1>1 DEF Points
  <2>2. s \in Points
    BY <2>1, EuclidOfOrder
  <2> QED BY <2>2, NumbersFit
<1>3. result' = [result EXCEPT !.s = s] /\ UNCHANGED <<oracle, call, failed>>
  BY DEF Subtract, Respond
<1> HIDE DEF s
<1>4. result' \in Signatures
  BY <1>1, <1>2, <1>3 DEF Signatures
<1>5. CASE Useless
  <2>1. pc' = "nonce" /\ UNCHANGED <<answer, signed>>
    BY <1>5 DEF Subtract, Respond, Continue
  <2> QED BY <1>1, <1>3, <1>4, <2>1 DEF OutcomeInv, Refused, SignSteps, VerifySteps
<1>6. CASE ~Useless
  <2> DEFINE made == [P |-> call.P, text |-> Text(call.message), sig |-> result']
  <2>1. /\ pc' = "answered" /\ answer' = TRUE
        /\ signed' = IF Matching(call) THEN signed \cup {made} ELSE signed
    BY <1>6 DEF Subtract, Respond, Answer
  <2>2. call.op = "sign"
    BY <1>1 DEF IInv, AttemptInv, Signing, SignSteps
  <2>3. Matching(call) => made \in signed'
    <3> HIDE DEF made
    <3> QED BY <2>1
  <2>4. /\ ~Refused(call'.message)
        /\ Matching(call') => [P |-> call'.P, text |-> Text(call'.message), sig |-> result'] \in signed'
    BY <1>1, <1>3, <2>3
  <2> HIDE DEF made
  <2> QED BY <1>3, <1>4, <2>1, <2>2, <2>4 DEF OutcomeInv, SignSteps, VerifySteps
<1> QED BY <1>5, <1>6

LEMMA RegenerateOutcome ==
    ASSUME IInv, OutcomeInv, Regenerate
    PROVE  OutcomeInv'
<1> DEFINE Q == PointMul(call.sig.s, call.sig.r, call.P)
           ok == InRange(call.sig.r) /\ InRange(call.sig.s) /\ Q # Infinity /\ call.P # Infinity
<1>1. pc = "regenerate" /\ UNCHANGED <<oracle, call, result, failed, signed>>
  BY DEF Regenerate
<1>2. call.op = "verify"
  BY <1>1 DEF IInv, VerifyInv, VerifySteps
<1>3. CASE ok
  <2>1. pc' = "rehash" /\ answer' = answer
    BY <1>3 DEF Regenerate, Continue
  <2>2. call.sig.r # 0
    BY <1>3 DEF InRange
  <2> QED BY <1>1, <2>1, <2>2 DEF OutcomeInv, Refused, SignSteps, VerifySteps
<1>4. CASE ~ok
  <2>1. pc' = "answered" /\ answer' = FALSE
    BY <1>4 DEF Regenerate, Answer
  <2> QED BY <1>1, <1>2, <2>1 DEF OutcomeInv, SignSteps, VerifySteps
<1> QED BY <1>3, <1>4

LEMMA RehashOutcome ==
    ASSUME IInv, OutcomeInv, Rehash
    PROVE  OutcomeInv'
<1>1. pc = "rehash" /\ pc' = "answered" /\ UNCHANGED <<call, result, failed, signed>>
  BY DEF Rehash, Answer
<1>2. call.op = "verify" /\ call.sig.r # 0 /\ result \in Signatures
  BY <1>1 DEF IInv, VerifyInv, VerifySteps, OutcomeInv
<1> QED BY <1>1, <1>2 DEF OutcomeInv, SignSteps, VerifySteps

LEMMA FailsOutcome ==
    ASSUME IInv, OutcomeInv, OpenSSLFails
    PROVE  OutcomeInv'
<1>1. /\ pc' = "answered" /\ answer' = FALSE /\ failed' = TRUE
      /\ UNCHANGED <<call, result, signed>>
  BY DEF OpenSSLFails, Answer
<1> QED BY <1>1 DEF OutcomeInv, SignSteps, VerifySteps

LEMMA LeaveOutcome ==
    ASSUME IInv, OutcomeInv, Leave
    PROVE  OutcomeInv'
<1>1. pc' = "idle" /\ result' = NewSignature /\ answer' = FALSE /\ failed' = FALSE
  BY DEF Leave
<1> QED BY <1>1, NumbersFit DEF OutcomeInv, SignSteps, VerifySteps

LEMMA StutteringOutcome ==
    ASSUME OutcomeInv, UNCHANGED vars
    PROVE  OutcomeInv'
BY DEF OutcomeInv, vars, Refused, Matching

(* What Sign has signed, it has signed.                                     *)
LEMMA HistoryGrows ==
    ASSUME SignStep \/ VerifyStep \/ OpenSSLFails \/ Leave
    PROVE  signed \subseteq signed'
<1>1. CASE Subtract
  BY <1>1 DEF Subtract, Respond
<1>2. CASE SignStep /\ ~Subtract
  BY <1>2 DEF SignStep, DrawNonce, Commit, Hash, Reduce, Multiply
<1>3. CASE VerifyStep
  BY <1>3 DEF VerifyStep, Regenerate, Rehash
<1>4. CASE OpenSSLFails \/ Leave
  BY <1>4 DEF OpenSSLFails, Leave
<1> QED BY <1>1, <1>2, <1>3, <1>4

-----------------------------------------------------------------------------
(* Strings. *)

(* Bytes read from a string make a key or a signature of the right type,    *)
(* readable or not; one that could not be copied is as new, and a signature *)
(* has its own challenge or none.                                           *)
LEMMA StringsRead ==
    ASSUME NEW str \in Seq(AllBytes), NEW copied \in Nat
    PROVE  /\ PrivKeyOf(str, 0, copied) \in Nat
           /\ PubKeyOf(str, 0, copied) \in Points
           /\ copied < 1 => PubKeyOf(str, 0, copied) = Infinity
           /\ SignatureOf(str, 0, copied) \in Signatures
           /\ SignatureOf(str, 0, copied).r \in {SignatureOf(str, 0, 2).r, 0}
<1>1. /\ 0 \in Nat /\ 0 + ScalarSize < UintModulus /\ 0 + PubKeySize < UintModulus
      /\ 0 + SignatureSize < UintModulus
  BY LibAssumption, ScalarFacts, PointFacts, BytesAssumption DEF SignatureSize
<1>2. PrivKeyOf(str, 0, copied) \in Nat
  <2> DEFINE read == PrivKeyDeserialize(0, str, 0, copied)
  <2>1. read.code # 0 => read.key = 0
    BY <1>1, ScalarReads
  <2>2. read.code = 0 => read.key \in Scalars
    BY <1>1, ScalarReads
  <2> HIDE DEF read
  <2>3. read.key \in Nat
    BY <2>1, <2>2, NumbersFit
  <2> QED BY <2>3 DEF PrivKeyOf, read
<1>3. PubKeyOf(str, 0, copied) \in Points /\ (copied < 1 => PubKeyOf(str, 0, copied) = Infinity)
  <2> DEFINE read == PubKeyDeserialize(Infinity, str, 0, copied)
  <2>1. PointRead(str, 0, Infinity, copied)
    BY <1>1, PointReads
  <2>2. /\ read.code # 0 => read.key = Infinity
        /\ read.code = 0 => read.key \in Points
    BY <2>1 DEF PointRead
  <2>3. copied < 1 => read.code = -1
    BY DEF PubKeyDeserialize
  <2> HIDE DEF read
  <2>4. read.key \in Points /\ (copied < 1 => read.key = Infinity)
    BY <2>1, <2>2, <2>3, PointFacts DEF Infinity
  <2> QED BY <2>4 DEF PubKeyOf, read
<1>4. /\ SignatureOf(str, 0, copied) \in Signatures
      /\ SignatureOf(str, 0, copied).r \in {SignatureOf(str, 0, 2).r, 0}
  <2> DEFINE read == SignatureDeserialize(NewSignature, str, 0, copied)
             whole == SignatureDeserialize(NewSignature, str, 0, 2)
  <2>1. NewSignature \in Signatures /\ NewSignature.r = 0
    BY NumbersFit
  <2>2. /\ read.code # 0 => \/ read.sig = NewSignature
                            \/ read.sig = [r |-> whole.sig.r, s |-> NewSignature.s]
        /\ read.sig \in Signatures /\ (read.code = 0 => read = whole)
    BY <1>1, <2>1, SignatureReads
  <2> HIDE DEF read, whole
  <2>3. read.sig.r \in {whole.sig.r, 0}
    BY <2>1, <2>2
  <2> QED BY <2>2, <2>3 DEF SignatureOf, read, whole
<1> QED BY <1>2, <1>3, <1>4

(* The strings that the library returns have the widths of the builtins, but *)
(* for a point that was not converted.                                      *)
LEMMA StringsFit ==
    /\ \A d \in Scalars : /\ PrivKeySerialize(<<>>, 0, d) \in Seq(AllBytes)
                          /\ Len(PrivKeySerialize(<<>>, 0, d)) = ScalarSize
    /\ \A P \in Points : /\ PubKeySerialize(<<>>, 0, P, TRUE) \in Seq(AllBytes)
                         /\ Len(PubKeySerialize(<<>>, 0, P, TRUE)) = PubKeySize
    /\ \A sig \in Signatures : /\ SignatureSerialize(<<>>, 0, sig) \in Seq(AllBytes)
                               /\ Len(SignatureSerialize(<<>>, 0, sig)) = SignatureSize
                               /\ SignatureOf(SignatureSerialize(<<>>, 0, sig), 0, 2) = sig
<1>1. /\ 0 \in Nat /\ 0 + ScalarSize < UintModulus /\ 0 + PubKeySize < UintModulus
      /\ 0 + SignatureSize < UintModulus
      /\ ScalarSize \in Nat \ {0} /\ PubKeySize \in Nat \ {0} /\ SignatureSize \in Nat \ {0}
      /\ <<>> \in Seq(AllBytes) /\ Len(<<>>) = 0
  BY LibAssumption, ScalarFacts, PointFacts, BytesAssumption DEF SignatureSize
<1>2. ASSUME NEW after, NEW size \in Nat \ {0}, Window(<<>>, after, 0, size)
      PROVE  after \in Seq(AllBytes) /\ Len(after) = size
  <2>1. /\ after \in Seq(AllBytes)
        /\ Len(after) = IF Len(<<>>) >= 0 + size THEN Len(<<>>) ELSE 0 + size
    BY <1>2 DEF Window
  <2> QED BY <1>1, <2>1
<1>3. ASSUME NEW d \in Scalars
      PROVE  /\ PrivKeySerialize(<<>>, 0, d) \in Seq(AllBytes)
             /\ Len(PrivKeySerialize(<<>>, 0, d)) = ScalarSize
  <2>1. Window(<<>>, PrivKeySerialize(<<>>, 0, d), 0, ScalarSize)
    BY <1>1, ScalarLands
  <2> QED BY <1>1, <1>2, <2>1
<1>4. ASSUME NEW P \in Points
      PROVE  /\ PubKeySerialize(<<>>, 0, P, TRUE) \in Seq(AllBytes)
             /\ Len(PubKeySerialize(<<>>, 0, P, TRUE)) = PubKeySize
  <2>1. Window(<<>>, PubKeySerialize(<<>>, 0, P, TRUE), 0, PubKeySize)
    BY <1>1, PointLands
  <2> QED BY <1>1, <1>2, <2>1
<1>5. ASSUME NEW sig \in Signatures
      PROVE  /\ SignatureSerialize(<<>>, 0, sig) \in Seq(AllBytes)
             /\ Len(SignatureSerialize(<<>>, 0, sig)) = SignatureSize
             /\ SignatureOf(SignatureSerialize(<<>>, 0, sig), 0, 2) = sig
  <2>1. Window(<<>>, SignatureSerialize(<<>>, 0, sig), 0, SignatureSize)
    BY <1>1, SignatureLands
  <2>2. SignatureDeserialize(NewSignature, SignatureSerialize(<<>>, 0, sig), 0, 2)
        = [code |-> 0, sig |-> sig]
    <3>1. \A e : SignatureDeserialize(e, SignatureSerialize(<<>>, 0, sig), 0, 2)
                = [code |-> 0, sig |-> sig]
      BY <1>1, SignatureLands, Zenon
    <3> QED BY <3>1, Zenon
  <2> QED BY <1>1, <1>2, <2>1, <2>2 DEF SignatureOf
<1> QED BY <1>3, <1>4, <1>5

(* A string that is passed whole is signed whole.                           *)
LEMMA TextOfWhole ==
    ASSUME NEW m \in Seq(Nat)
    PROVE  Text(Whole(m)) = m
<1> DEFINE s == SubSeq(m, 1, Len(m))
<1>1. 1 \in 1..(Len(m) + 1) /\ Len(m) \in (1 - 1)..Len(m) /\ Len(m) \in Nat
  OBVIOUS
<1>2. s \in Seq(Nat) /\ Len(s) = Len(m) - 1 + 1 /\ \A i \in 1..(Len(m) - 1 + 1) : s[i] = m[1 + i - 1]
  BY <1>1, SubSeqProperties
<1>3. Text(Whole(m)) = SubSeq(m, 0 + 1, 0 + Len(m))
  BY DEF Text, Whole
<1>4. 0 + 1 = 1 /\ 0 + Len(m) = Len(m)
  BY <1>1
<1>5. Text(Whole(m)) = s
  BY <1>3, <1>4
<1> HIDE DEF s
<1>6. Len(s) = Len(m) /\ \A i \in 1..Len(m) : s[i] = m[i]
  BY <1>1, <1>2
<1>7. s = m
  BY <1>2, <1>6, SeqEqual
<1> QED BY <1>5, <1>7

LEMMA MessagesWhole ==
    ASSUME NEW m \in {slice.bytes : slice \in Slices}
    PROVE  m \in Seq(Nat) /\ Whole(m) \in Slices
BY LibAssumption, SchnorrAssumption

-----------------------------------------------------------------------------
(* The builtins, step by step. *)

LEMMA LibInitEstablishes == LibInit => LibInv
<1> SUFFICES ASSUME LibInit PROVE LibInv
  OBVIOUS
<1>1. IInv
  BY InitEstablishes DEF LibInit
<1>2. OutcomeInv
  BY NumbersFit DEF LibInit, Init, OutcomeInv, SignSteps, VerifySteps
<1>3. /\ StringsInv /\ IssuedInv /\ RequestInv
      /\ AbortsOnlyUnconverted /\ unconverted \in BOOLEAN
  BY DEF LibInit, Init, StringsInv, IssuedInv, RequestInv, AbortsOnlyUnconverted
<1> QED BY <1>1, <1>2, <1>3 DEF LibInv

(* Issued signatures stay what they are while the history grows.            *)
LEMMA IssueKept ==
    ASSUME NEW i, IssueOK(i), signed \subseteq signed'
    PROVE  IssueOK(i)'
BY Zenon DEF IssueOK, Refused

LEMMA IssuedKept ==
    ASSUME IssuedInv, issued' = issued, signed \subseteq signed'
    PROVE  IssuedInv'
BY IssueKept DEF IssuedInv

(* The public key of a private key is a point.                              *)
LEMMA DerivedPoint ==
    ASSUME NEW d \in Scalars
    PROVE  PubKeyOfPrivKey(d) \in Points
<1>1. CASE d = 0 \/ d >= Order
  BY <1>1, PointFacts DEF PubKeyOfPrivKey, Infinity
<1>2. CASE ~(d = 0 \/ d >= Order)
  <2>1. d + 0 * Infinity \in Int
    BY NumbersFit DEF Infinity
  <2>2. PointMul(d, 0, Infinity) \in Points
    BY <2>1, EuclidOfOrder DEF PointMul
  <2> QED BY <1>2, <2>2 DEF PubKeyOfPrivKey
<1> QED BY <1>1, <1>2

(* A pair is handed on, or the assertion fails for want of the public key.  *)
LEMMA GenKeyPairKeepsLib ==
    ASSUME LibInv, NEW drawn \in Drawn, NEW d \in {drawn, 0},
           NEW P \in {PubKeyOfPrivKey(drawn), Infinity}, NEW converted \in BOOLEAN,
           GenKeyPair(d, P, converted)
    PROVE  LibInv'
<1> DEFINE priv == PrivKeySerialize(<<>>, 0, d)
           pub == PubKeySerialize(<<>>, 0, P, converted)
<1>1. UNCHANGED vars /\ UNCHANGED <<request, issued>> /\ unconverted' = ~converted /\ aborted = "no"
  BY DEF GenKeyPair
<1>2. IInv' /\ OutcomeInv'
  BY <1>1, StutteringKeeps, StutteringOutcome DEF LibInv
<1>3. d \in Scalars /\ P \in Points
  <2>1. drawn \in Scalars /\ 0 \in Scalars
    BY LibAssumption, ScalarFacts
  <2>2. PubKeyOfPrivKey(drawn) \in Points /\ Infinity \in Points
    BY <2>1, DerivedPoint, PointFacts DEF Infinity
  <2> QED BY <2>1, <2>2
<1>4. priv \in Seq(AllBytes) /\ Len(priv) = ScalarSize
  BY <1>3, StringsFit
<1>5. IF converted THEN pub \in Seq(AllBytes) /\ Len(pub) = PubKeySize ELSE Len(pub) # PubKeySize
  <2>1. CASE converted
    <3>1. converted = TRUE
      BY <2>1
    <3>2. pub = PubKeySerialize(<<>>, 0, P, TRUE)
      BY <3>1
    <3> HIDE DEF pub
    <3> QED BY <1>3, <2>1, <3>2, StringsFit
  <2>2. CASE ~converted
    <3>1. pub = <<>>
      BY <2>2 DEF PubKeySerialize, PointSetNumber
    <3>2. PubKeySize \in Nat \ {0} /\ Len(<<>>) = 0
      BY PointFacts
    <3> HIDE DEF pub
    <3> QED BY <2>2, <3>1, <3>2
  <2> QED BY <2>1, <2>2
<1>6. Pass(priv, pub)
  BY DEF GenKeyPair
<1> HIDE DEF priv, pub
<1>7. IF converted THEN pairs' = pairs \cup {[priv |-> priv, pub |-> pub]} /\ aborted' = "no"
      ELSE pairs' = pairs /\ aborted' = "assertion"
  BY <1>1, <1>4, <1>5, <1>6 DEF Pass
<1>8. StringsInv'
  BY <1>4, <1>5, <1>7 DEF StringsInv, LibInv
<1>9. IssuedInv'
  <2>1. signed' = signed
    BY <1>1 DEF vars
  <2> QED BY <1>1, <2>1, IssuedKept DEF LibInv
<1>10. RequestInv'
  BY <1>1 DEF LibInv, RequestInv, vars
<1>11. AbortsOnlyUnconverted' /\ unconverted' \in BOOLEAN
  BY <1>1, <1>7 DEF AbortsOnlyUnconverted
<1> QED BY <1>2, <1>8, <1>9, <1>10, <1>11 DEF LibInv

(* The strings that a contract may have are strings of bytes.               *)
LEMMA StringsAreBytes ==
    ASSUME LibInv
    PROVE  /\ \A str \in PrivStrs \cup PubStrs \cup SignatureStrs : str \in Seq(AllBytes)
<1>1. \A str \in ByStrs : str \in Seq(AllBytes)
  BY LibAssumption
<1>2. \A p \in pairs : p.priv \in Seq(AllBytes) /\ p.pub \in Seq(AllBytes)
  BY DEF LibInv, StringsInv
<1>3. \A i \in issued : i.signature \in Seq(AllBytes)
  BY DEF LibInv, IssuedInv, IssueOK
<1> QED BY <1>1, <1>2, <1>3 DEF PrivStrs, PubStrs, SignatureStrs

LEMMA SignKeepsLib ==
    ASSUME LibInv, NEW m \in {slice.bytes : slice \in Slices}, NEW pub \in PubStrs,
           NEW priv \in PrivStrs,
           NEW privCopied \in 0..1, NEW pubCopied \in 0..1,
           SignZ(priv, pub, m, privCopied, pubCopied)
    PROVE  LibInv'
<1> DEFINE d == PrivKeyOf(priv, 0, privCopied)
           P == PubKeyOf(pub, 0, pubCopied)
           c == [NoCall EXCEPT !.op = "sign", !.message = Whole(m), !.d = d, !.P = P]
<1>1. d \in Nat /\ P \in Points /\ P \in {PubKeyOf(pub, 0, 1), Infinity}
  <2>1. /\ pub \in Seq(AllBytes) /\ priv \in Seq(AllBytes)
        /\ privCopied \in Nat /\ pubCopied \in Nat /\ (pubCopied = 1 \/ pubCopied < 1)
    BY StringsAreBytes
  <2> QED BY <2>1, StringsRead
<1>2. m \in Seq(Nat) /\ Whole(m) \in Slices
  BY MessagesWhole
<1>3. Enter(c, "nonce") /\ UNCHANGED <<pairs, issued, aborted, unconverted>>
  BY DEF SignZ, StartSign
<1>4. /\ request'.pub = pub /\ request'.message = m
      /\ request'.whole = (privCopied = 1 /\ pubCopied = 1)
  BY DEF SignZ, NoRequest
<1>13. request'.whole => P = PubKeyOf(pub, 0, 1)
  BY <1>4
<1> HIDE DEF d, P
<1>5. c.op = "sign" /\ c.message = Whole(m) /\ c.d = d /\ c.P = P /\ c.sig = NewSignature
  BY DEF NoCall
<1> HIDE DEF c
<1>6. NewSignature \in [r : Nat, s : Nat]
  BY NumbersFit
<1>7. sha2 = <<>>
  BY <1>3 DEF LibInv, IInv, AttemptInv, Enter
<1>8. IInv'
  BY <1>1, <1>2, <1>3, <1>5, <1>6, <1>7, EnterKeeps DEF LibInv
<1>9. OutcomeInv'
  BY <1>3, <1>5, EnterOutcome DEF LibInv
<1>10. StringsInv' /\ AbortsOnlyUnconverted' /\ unconverted' \in BOOLEAN
  BY <1>3 DEF LibInv, StringsInv, AbortsOnlyUnconverted
<1>11. IssuedInv'
  <2>1. signed' = signed
    BY <1>3 DEF Enter
  <2> QED BY <1>3, <2>1, IssuedKept DEF LibInv
<1>12. RequestInv'
  <2>1. call' = c
    BY <1>3 DEF Enter
  <2> QED BY <1>1, <1>2, <1>4, <1>5, <1>13, <2>1 DEF RequestInv
<1> QED BY <1>8, <1>9, <1>10, <1>11, <1>12 DEF LibInv

LEMMA VerifyKeepsLib ==
    ASSUME LibInv, NEW m \in {slice.bytes : slice \in Slices}, NEW pub \in PubStrs,
           NEW signature \in SignatureStrs,
           NEW pubCopied \in 0..1, NEW sigCopied \in 0..2,
           VerifyZ(pub, m, signature, pubCopied, sigCopied)
    PROVE  LibInv'
<1> DEFINE sig == SignatureOf(signature, 0, sigCopied)
           P == PubKeyOf(pub, 0, pubCopied)
           c == [NoCall EXCEPT !.op = "verify", !.message = Whole(m), !.P = P, !.sig = sig]
<1>1. /\ sig \in [r : Nat, s : Nat] /\ sig.r \in {SignatureOf(signature, 0, 2).r, 0}
      /\ P \in Points /\ P \in {PubKeyOf(pub, 0, 1), Infinity}
  <2>1. /\ pub \in Seq(AllBytes) /\ signature \in Seq(AllBytes)
        /\ sigCopied \in Nat /\ pubCopied \in Nat /\ (pubCopied = 1 \/ pubCopied < 1)
    BY StringsAreBytes
  <2>2. P \in Points /\ P \in {PubKeyOf(pub, 0, 1), Infinity}
    BY <2>1, StringsRead
  <2>3. sig \in Signatures /\ sig.r \in {SignatureOf(signature, 0, 2).r, 0}
    BY <2>1, StringsRead
  <2> QED BY <2>2, <2>3, NumbersFit
<1>2. m \in Seq(Nat) /\ Whole(m) \in Slices
  BY MessagesWhole
<1>3. Enter(c, "regenerate") /\ UNCHANGED <<pairs, issued, aborted, unconverted>>
  BY DEF VerifyZ, StartVerify
<1>4. /\ request'.pub = pub /\ request'.message = m /\ request'.signature = signature
      /\ request'.whole = (pubCopied = 1 /\ sigCopied = 2)
  BY DEF VerifyZ
<1>6. request'.whole => P = PubKeyOf(pub, 0, 1) /\ sig = SignatureOf(signature, 0, 2)
  BY <1>4
<1> HIDE DEF sig, P
<1>5. c.op = "verify" /\ c.message = Whole(m) /\ c.d = 0 /\ c.P = P /\ c.sig = sig
  BY DEF NoCall
<1> HIDE DEF c
<1>7. sha2 = <<>>
  BY <1>3 DEF LibInv, IInv, AttemptInv, Enter
<1>8. IInv'
  BY <1>1, <1>2, <1>3, <1>5, <1>7, EnterKeeps DEF LibInv
<1>9. OutcomeInv'
  BY <1>3, <1>5, EnterOutcome DEF LibInv
<1>10. StringsInv' /\ AbortsOnlyUnconverted' /\ unconverted' \in BOOLEAN
  BY <1>3 DEF LibInv, StringsInv, AbortsOnlyUnconverted
<1>11. IssuedInv'
  <2>1. signed' = signed
    BY <1>3 DEF Enter
  <2> QED BY <1>3, <2>1, IssuedKept DEF LibInv
<1>12. RequestInv'
  <2>1. call' = c
    BY <1>3 DEF Enter
  <2> QED BY <1>1, <1>2, <1>4, <1>5, <1>6, <2>1 DEF RequestInv
<1> QED BY <1>8, <1>9, <1>10, <1>11, <1>12 DEF LibInv

LEMMA StepKeepsLib ==
    ASSUME LibInv, Step
    PROVE  LibInv'
<1>1. SignStep \/ VerifyStep \/ OpenSSLFails
  BY DEF Step
<1>2. UNCHANGED libVars
  BY DEF Step
<1>3. IInv'
  BY <1>1, StepKeeps DEF LibInv, Next
<1>4. OutcomeInv'
  <2>1. CASE SignStep
    BY <2>1, DrawNonceOutcome, CommitOutcome, HashOutcome, ReduceOutcome, MultiplyOutcome,
       SubtractOutcome DEF SignStep, LibInv
  <2>2. CASE VerifyStep
    BY <2>2, RegenerateOutcome, RehashOutcome DEF VerifyStep, LibInv
  <2>3. CASE OpenSSLFails
    BY <2>3, FailsOutcome DEF LibInv
  <2> QED BY <1>1, <2>1, <2>2, <2>3
<1>5. StringsInv' /\ AbortsOnlyUnconverted' /\ unconverted' \in BOOLEAN
  BY <1>2 DEF LibInv, StringsInv, libVars, AbortsOnlyUnconverted
<1>6. IssuedInv'
  <2>1. signed \subseteq signed'
    BY <1>1, HistoryGrows
  <2>2. issued' = issued
    BY <1>2 DEF libVars
  <2> QED BY <2>1, <2>2, IssuedKept DEF LibInv
<1>7. RequestInv'
  <2>1. call' = call /\ pc # "idle"
    <3>1. CASE SignStep
      BY <3>1 DEF SignStep, DrawNonce, Commit, Hash, Reduce, Multiply, Subtract, Respond
    <3>2. CASE VerifyStep
      BY <3>2 DEF VerifyStep, Regenerate, Rehash
    <3>3. CASE OpenSSLFails
      BY <3>3 DEF OpenSSLFails, SignSteps, VerifySteps
    <3> QED BY <1>1, <3>1, <3>2, <3>3
  <2>2. request' = request
    BY <1>2 DEF libVars
  <2> QED BY <2>1, <2>2 DEF LibInv, RequestInv
<1> QED BY <1>3, <1>4, <1>5, <1>6, <1>7 DEF LibInv

(* The signature that is returned holds what Sign left.                     *)
LEMMA ReturnKeepsLib ==
    ASSUME LibInv, ReturnSignature
    PROVE  LibInv'
<1> DEFINE S == SignatureSerialize(<<>>, 0, result)
           made == [pub |-> request.pub, message |-> request.message, signature |-> S,
                    matching |-> Matching(call),
                    outcome |-> IF failed THEN "failed" ELSE IF answer THEN "signed" ELSE "refused"]
<1>1. Leave /\ call.op = "sign" /\ pairs' = pairs /\ pc = "answered" /\ pc' = "idle"
      /\ signed' = signed
  BY DEF ReturnSignature, Leave
<1>2. IInv' /\ OutcomeInv'
  BY <1>1, LeaveKeeps, LeaveOutcome DEF LibInv
<1>3. /\ S \in Seq(AllBytes) /\ Len(S) = SignatureSize /\ SignatureOf(S, 0, 2) = result
  BY StringsFit DEF LibInv, OutcomeInv
<1>4. issued' = issued \cup {made} /\ aborted' = aborted /\ unconverted' = unconverted
  BY <1>3 DEF ReturnSignature
<1>5. /\ request.message \in Seq(Nat) /\ call.message = Whole(request.message)
      /\ call.P \in {PubKeyOf(request.pub, 0, 1), Infinity}
  BY <1>1 DEF LibInv, RequestInv
<1> HIDE DEF S
<1>6. PICK i : i = made
  OBVIOUS
<1>7. /\ i.pub = request.pub /\ i.message = request.message /\ i.signature = S
      /\ i.matching = Matching(call)
      /\ i.outcome = IF failed THEN "failed" ELSE IF answer THEN "signed" ELSE "refused"
  BY <1>6
<1> HIDE DEF made
<1>8. answer \in BOOLEAN /\ failed \in BOOLEAN
  BY DEF LibInv, IInv, SchnorrTypeOK
<1>9. i.matching /\ i.outcome = "signed" =>
        /\ ~Refused(Whole(i.message)) /\ i.message \in Seq(Nat)
        /\ [P |-> PubKeyOf(i.pub, 0, 1), text |-> i.message, sig |-> SignatureOf(i.signature, 0, 2)] \in signed
  <2> SUFFICES ASSUME i.matching, i.outcome = "signed"
               PROVE  /\ ~Refused(Whole(i.message)) /\ i.message \in Seq(Nat)
                      /\ [P |-> PubKeyOf(i.pub, 0, 1), text |-> i.message,
                          sig |-> SignatureOf(i.signature, 0, 2)] \in signed
    OBVIOUS
  <2>1. Matching(call)
    BY <1>7, Zenon
  <2>2. answer = TRUE
    BY <1>7, <1>8
  <2>3. /\ ~Refused(call.message)
        /\ [P |-> call.P, text |-> Text(call.message), sig |-> result] \in signed
    BY <1>1, <2>1, <2>2 DEF LibInv, OutcomeInv
  <2>4. Text(call.message) = request.message
    BY <1>5, TextOfWhole
  <2>5. call.P = PubKeyOf(request.pub, 0, 1)
    BY <1>5, <2>1 DEF Matching
  <2> QED BY <1>3, <1>5, <1>7, <2>3, <2>4, <2>5
<1>10. i.outcome = "refused" => SignatureOf(i.signature, 0, 2).r = 0
  <2> SUFFICES ASSUME i.outcome = "refused" PROVE SignatureOf(i.signature, 0, 2).r = 0
    OBVIOUS
  <2>1. answer = FALSE /\ failed = FALSE
    BY <1>7, <1>8
  <2>2. result = NewSignature
    BY <1>1, <2>1 DEF LibInv, OutcomeInv
  <2> QED BY <1>3, <1>7, <2>2, NumbersFit
<1>11. IssueOK(i)
  <2>1. i.signature \in Seq(AllBytes)
    BY <1>3, <1>7
  <2> QED BY <1>9, <1>10, <2>1, Zenon DEF IssueOK
<1>12. IssuedInv'
  <2> SUFFICES ASSUME NEW j \in issued' PROVE IssueOK(j)'
    BY DEF IssuedInv
  <2>1. IssueOK(j)
    BY <1>4, <1>11, <1>6 DEF LibInv, IssuedInv
  <2> QED BY <1>1, <2>1, IssueKept
<1>13. StringsInv' /\ RequestInv'
  BY <1>1 DEF LibInv, StringsInv, RequestInv
<1>14. AbortsOnlyUnconverted' /\ unconverted' \in BOOLEAN
  BY <1>4 DEF LibInv, AbortsOnlyUnconverted
<1> QED BY <1>2, <1>12, <1>13, <1>14 DEF LibInv

LEMMA VerdictKeepsLib ==
    ASSUME LibInv, ReturnVerdict
    PROVE  LibInv'
<1>1. Leave /\ UNCHANGED <<pairs, issued, aborted, unconverted>> /\ pc' = "idle" /\ signed' = signed
  BY DEF ReturnVerdict, Leave
<1>2. IInv' /\ OutcomeInv'
  BY <1>1, LeaveKeeps, LeaveOutcome DEF LibInv
<1>3. IssuedInv'
  BY <1>1, IssuedKept DEF LibInv
<1>4. StringsInv' /\ RequestInv' /\ AbortsOnlyUnconverted' /\ unconverted' \in BOOLEAN
  BY <1>1 DEF LibInv, StringsInv, RequestInv, AbortsOnlyUnconverted
<1> QED BY <1>2, <1>3, <1>4 DEF LibInv

LEMMA LibStutteringKeeps ==
    ASSUME LibInv, UNCHANGED allVars
    PROVE  LibInv'
<1>1. UNCHANGED vars /\ UNCHANGED libVars
  BY DEF allVars
<1>2. IInv' /\ OutcomeInv'
  BY <1>1, StutteringKeeps, StutteringOutcome DEF LibInv
<1>3. IssuedInv'
  BY <1>1, IssuedKept DEF LibInv, vars, libVars
<1>4. StringsInv' /\ RequestInv' /\ AbortsOnlyUnconverted' /\ unconverted' \in BOOLEAN
  BY <1>1 DEF LibInv, StringsInv, RequestInv, AbortsOnlyUnconverted, vars, libVars
<1> QED BY <1>2, <1>3, <1>4 DEF LibInv

LEMMA LibStepKeeps ==
    ASSUME LibInv, [LibNext]_allVars
    PROVE  LibInv'
<1>1. CASE LibNext
  BY <1>1, GenKeyPairKeepsLib, SignKeepsLib, VerifyKeepsLib, StepKeepsLib, ReturnKeepsLib,
     VerdictKeepsLib DEF LibNext
<1>2. CASE UNCHANGED allVars
  BY <1>2, LibStutteringKeeps
<1> QED BY <1>1, <1>2

LEMMA LibInvariance == LibSpec => []LibInv
BY LibInitEstablishes, LibStepKeeps, PTL DEF LibSpec

(* The assertion of genKeyPair_Z fails when OpenSSL could not convert the   *)
(* public key (ECPOINTSerialize.cpp:77-80), and nothing else ends the       *)
(* process: every other string that genKeyPair_Z and sign_Z produce fills   *)
(* the memory that schnorr.ml allocated for it, whatever happened in the    *)
(* call.                                                                    *)
THEOREM AbortsAreUnconverted == LibSpec => []AbortsOnlyUnconverted
<1>1. LibInv => AbortsOnlyUnconverted
  BY DEF LibInv
<1> QED BY <1>1, LibInvariance, PTL

(* What schnorr_sign returned for a matching pair of keys, schnorr_verify   *)
(* accepts, although keys and signature went through strings of bytes.      *)
THEOREM IssuedSignaturesVerify == LibSpec => []IssuedVerifies
<1>1. LibInv => IssuedVerifies
  <2> SUFFICES ASSUME LibInv, pc = "answered", call.op = "verify", ~failed,
                      request.whole, NEW i \in issued,
                      i.matching, i.outcome = "signed",
                      [pub |-> i.pub, message |-> i.message, signature |-> i.signature]
                      = [pub |-> request.pub, message |-> request.message, signature |-> request.signature]
               PROVE  answer
    BY Zenon DEF IssuedVerifies
  <2>1. IssueOK(i)
    BY DEF LibInv, IssuedInv
  <2>2. /\ ~Refused(Whole(i.message)) /\ i.message \in Seq(Nat)
        /\ [P |-> PubKeyOf(i.pub, 0, 1), text |-> i.message, sig |-> SignatureOf(i.signature, 0, 2)] \in signed
    BY <2>1, Zenon DEF IssueOK
  <2>3. request.pub = i.pub /\ request.message = i.message /\ request.signature = i.signature
    OBVIOUS
  <2>4. /\ call.message = Whole(i.message) /\ call.P = PubKeyOf(i.pub, 0, 1)
        /\ call.sig = SignatureOf(i.signature, 0, 2)
    BY <2>3 DEF LibInv, RequestInv
  <2>5. Text(call.message) = i.message
    BY <2>2, <2>4, TextOfWhole
  <2>6. ~Refused(call.message) /\ [P |-> call.P, text |-> Text(call.message), sig |-> call.sig] \in signed
    BY <2>2, <2>4, <2>5
  <2> QED BY <2>6, Zenon DEF LibInv, IInv, SignedVerifies
<1> QED BY <1>1, LibInvariance, PTL

(* The bytes that schnorr_sign returned when Sign refused are accepted by   *)
(* no call of schnorr_verify.                                               *)
THEOREM RefusedSignaturesFail == LibSpec => []RefusedNeverVerifies
<1>1. LibInv => RefusedNeverVerifies
  <2> SUFFICES ASSUME LibInv, pc = "answered", call.op = "verify", answer, NEW i \in issued,
                      i.outcome = "refused", i.signature = request.signature
               PROVE  FALSE
    BY Zenon DEF RefusedNeverVerifies
  <2>1. SignatureOf(i.signature, 0, 2).r = 0
    BY Zenon DEF LibInv, IssuedInv, IssueOK
  <2>2. call.sig.r \in {SignatureOf(request.signature, 0, 2).r, 0}
    BY DEF LibInv, RequestInv
  <2>3. answer = TRUE
    BY DEF LibInv, IInv, SchnorrTypeOK
  <2>4. call.sig.r # 0
    BY <2>3 DEF LibInv, OutcomeInv
  <2> QED BY <2>1, <2>2, <2>4
<1> QED BY <1>1, LibInvariance, PTL
=============================================================================
