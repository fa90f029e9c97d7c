---------------------------- MODULE BytesProofs -----------------------------
(***************************************************************************)
(* Numbers, points, keys and signatures as bytes of a stream.              *)
(*                                                                         *)
(* Bytes and numbers below a power of Byte are in bijection (NumberBack,   *)
(* BytesBack): Horner unfolds the fold of Bin2bn, and the upper part of a  *)
(* number is the number of its first bytes.  Hence a field that was        *)
(* written is read back, and one that was read is written as it was; the   *)
(* compressed form of a key has a first byte that is not zero, so that     *)
(* its number determines it (PointBack).  The last section is about        *)
(* DataConversion: the digits of a number are those of its bytes           *)
(* (HexOfNumber), and unhex undoes hex in either case (HexBack,            *)
(* LowerHexBack).                                                          *)
(***************************************************************************)
EXTENDS SchnorrKeys, SequenceTheorems, Lemmas

-----------------------------------------------------------------------------
(* Numbers and their bytes. *)

LEMMA ByteType == Byte \in Nat \ {0, 1} /\ Digit \in Nat \ {0, 1}
  BY BytesAssumption DEF Byte

(* Reading bytes from left to right.                                        *)
LEMMA Horner ==
    ASSUME NEW n \in Nat, NEW s \in [1..n -> AllBytes], NEW g \in [0..n -> Nat],
           g[0] = 0, \A k \in 1..n : g[k] = g[k - 1] * Byte + s[k]
    PROVE  Bin2bn(s) = g[n]
  <1> DEFINE Step == [b \in AllBytes |-> [z \in Nat |-> z * Byte + b]]
             iter == CHOOSE iter : iter = [S \in SUBSET (DOMAIN s) |->
                        IF S = {} THEN 0 ELSE iter[S \ {Max(S)}] * Byte + s[Max(S)]]
  <1>1. Bin2bn(s) = iter[DOMAIN s]
    BY DEF Bin2bn, FoldLeft, MapThenFoldSet
  <1>2. Step \in [AllBytes -> [Nat -> Nat]]
    <2>1. \A u \in Nat, v \in Nat : u * v \in Nat
      OBVIOUS
    <2>2. Byte \in Nat /\ AllBytes \subseteq Nat
      BY ByteType DEF AllBytes
    <2> HIDE DEF AllBytes
    <2>3. ASSUME NEW b \in AllBytes, NEW z \in Nat
          PROVE  z * Byte + b \in Nat
      <3>1. z * Byte \in Nat /\ b \in Nat
        BY <2>1, <2>2
      <3> QED
        BY <3>1
    <2> QED
      BY <2>3
  <1>3. \A b \in AllBytes, z \in Nat : Step[b][z] = z * Byte + b
    OBVIOUS
  <1> HIDE DEF Step, iter
  <1>4. PICK it : Iterates(it, Nat, Step, 0, n, s)
    <2>1. 0 \in Nat
      OBVIOUS
    <2> QED
      BY <1>2, <2>1, LeftFoldExists
  <1>5. \A S \in SUBSET (1..n) :
           it[S] = IF S = {} THEN 0 ELSE it[S \ {Max(S)}] * Byte + s[Max(S)]
    <2> SUFFICES ASSUME NEW S \in SUBSET (1..n), S # {}
                 PROVE  it[S] = it[S \ {Max(S)}] * Byte + s[Max(S)]
      BY <1>4 DEF Iterates
    <2>1. Max(S) \in S /\ S \ {Max(S)} \in SUBSET (1..n)
      BY MaxOfSubset
    <2>2. s[Max(S)] \in AllBytes /\ it[S \ {Max(S)}] \in Nat
      BY <1>4, <2>1 DEF Iterates
    <2>3. it[S] = Step[s[Max(S)]][it[S \ {Max(S)}]]
      BY <1>4 DEF Iterates
    <2> QED
      BY <1>3, <2>2, <2>3
  <1>6. it = [S \in SUBSET (DOMAIN s) |->
                 IF S = {} THEN 0 ELSE it[S \ {Max(S)}] * Byte + s[Max(S)]]
    BY <1>4, <1>5 DEF Iterates
  <1>7. iter = [S \in SUBSET (DOMAIN s) |->
                   IF S = {} THEN 0 ELSE iter[S \ {Max(S)}] * Byte + s[Max(S)]]
    BY <1>6 DEF iter
  <1>8. iter[{}] = 0
    BY <1>7
  <1>9. ASSUME NEW k \in 1..n, iter[1..(k - 1)] \in Nat
        PROVE  iter[1..k] = Step[s[k]][iter[1..(k - 1)]]
    <2>1. Max(1..k) = k /\ (1..k) \ {k} = 1..(k - 1) /\ 1..k # {}
      <3>1. k \in Nat \ {0}
        OBVIOUS
      <3> QED
        BY <3>1, MaxOfInterval
    <2>2. 1..k \in SUBSET (DOMAIN s)
      OBVIOUS
    <2>3. iter[1..k] = iter[(1..k) \ {Max(1..k)}] * Byte + s[Max(1..k)]
      BY <1>7, <2>1, <2>2
    <2>4. s[k] \in AllBytes
      OBVIOUS
    <2>5. iter[1..k] = iter[1..(k - 1)] * Byte + s[k]
      BY <2>1, <2>3
    <2>6. Step[s[k]][iter[1..(k - 1)]] = iter[1..(k - 1)] * Byte + s[k]
      BY <1>3, <1>9, <2>4
    <2> QED
      BY <2>5, <2>6
  <1>10. \A k \in 1..n : g[k] = Step[s[k]][g[k - 1]]
    <2> SUFFICES ASSUME NEW k \in 1..n
                 PROVE  g[k] = Step[s[k]][g[k - 1]]
      OBVIOUS
    <2>1. k - 1 \in 0..n /\ s[k] \in AllBytes
      OBVIOUS
    <2> QED
      BY <1>3, <2>1
  <1>11. Extends(iter, Nat, Step, 0, n, s) /\ Accumulates(g, Nat, Step, 0, n, s)
    BY <1>8, <1>9, <1>10 DEF Extends, Accumulates
  <1>12. iter[1..n] = g[n]
    <2>1. 0 \in Nat
      OBVIOUS
    <2> QED
      BY <1>11, <2>1, LeftFoldIntervals
  <1> QED
    BY <1>1, <1>12

LEMMA BytePower ==
    ASSUME NEW n \in Nat
    PROVE  /\ Power(Byte, n) \in Nat \ {0}
           /\ Power(Byte, 0) = 1 /\ Power(Byte, n + 1) = Byte * Power(Byte, n)
  BY ByteType, PowerPositive, PowerLaw

(* The first bytes of a number are the bytes of its upper part.             *)
LEMMA UpperPart ==
    ASSUME NEW v \in Nat, NEW n \in Nat, v < Power(Byte, n), NEW k \in 1..n
    PROVE  v \div Power(Byte, n - k)
           = (v \div Power(Byte, n - (k - 1))) * Byte + ((v \div Power(Byte, n - k)) % Byte)
  <1> DEFINE p == Power(Byte, n - k)
             u == v \div p
  <1>1. n - k \in Nat /\ (n - k) + 1 = n - (k - 1)
    OBVIOUS
  <1>2. p \in Nat \ {0} /\ Power(Byte, n - (k - 1)) = Byte * p /\ Byte \in Nat \ {0}
    <2>1. Power(Byte, (n - k) + 1) = Byte * p /\ p \in Nat \ {0}
      BY <1>1, BytePower
    <2> QED
      BY <1>1, <2>1, ByteType
  <1> HIDE DEF p
  <1>3. u \in Nat /\ u \div Byte = v \div (p * Byte)
    BY <1>2, DivTwice, Euclid
  <1>4. p * Byte = Byte * p
    BY <1>2
  <1>5. u = (u \div Byte) * Byte + (u % Byte)
    <2> HIDE DEF u
    <2> QED
      BY <1>2, <1>3, Euclid
  <1> QED
    BY <1>2, <1>3, <1>4, <1>5 DEF p

LEMMA BigEndianType ==
    ASSUME NEW v \in Nat, NEW n \in Nat
    PROVE  BigEndian(v, n) \in [1..n -> AllBytes] /\ Len(BigEndian(v, n)) = n
  <1>1. ASSUME NEW i \in 1..n
        PROVE  (v \div Power(Byte, n - i)) % Byte \in AllBytes
    <2>1. n - i \in Nat
      OBVIOUS
    <2>2. Power(Byte, n - i) \in Nat \ {0}
      BY <2>1, BytePower
    <2>3. v \div Power(Byte, n - i) \in Nat
      BY <2>2, Euclid
    <2> QED
      BY <2>3, ByteType, Euclid DEF AllBytes
  <1>2. BigEndian(v, n) \in [1..n -> AllBytes]
    BY <1>1 DEF BigEndian
  <1> QED
    BY <1>2

(* A number is read back from its bytes.                                    *)
LEMMA NumberBack ==
    ASSUME NEW n \in Nat, NEW v \in 0..(Power(Byte, n) - 1)
    PROVE  Bin2bn(BigEndian(v, n)) = v
  <1> DEFINE g == [k \in 0..n |-> v \div Power(Byte, n - k)]
             s == BigEndian(v, n)
  <1>1. Power(Byte, n) \in Nat \ {0} /\ v \in Nat /\ v < Power(Byte, n)
    <2>1. Power(Byte, n) \in Nat \ {0}
      BY BytePower
    <2> QED
      BY <2>1
  <1>2. s \in [1..n -> AllBytes]
    BY <1>1, BigEndianType
  <1>3. g \in [0..n -> Nat]
    <2> SUFFICES ASSUME NEW k \in 0..n
                 PROVE  v \div Power(Byte, n - k) \in Nat
      OBVIOUS
    <2>1. n - k \in Nat
      OBVIOUS
    <2>2. Power(Byte, n - k) \in Nat \ {0}
      BY <2>1, BytePower
    <2> QED
      BY <1>1, <2>2, Euclid
  <1>4. g[0] = 0
    <2>1. g[0] = v \div Power(Byte, n)
      OBVIOUS
    <2>2. v = 0 * Power(Byte, n) + v
      BY <1>1
    <2> QED
      BY <1>1, <2>1, <2>2, RemainderIs
  <1>5. ASSUME NEW k \in 1..n
        PROVE  g[k] = g[k - 1] * Byte + s[k]
    <2>1. g[k] = v \div Power(Byte, n - k) /\ g[k - 1] = v \div Power(Byte, n - (k - 1))
      OBVIOUS
    <2>2. s[k] = (v \div Power(Byte, n - k)) % Byte
      BY DEF BigEndian
    <2>3. v \div Power(Byte, n - k)
          = (v \div Power(Byte, n - (k - 1))) * Byte + ((v \div Power(Byte, n - k)) % Byte)
      BY <1>1, UpperPart
    <2> HIDE DEF g, s
    <2> QED
      BY <2>1, <2>2, <2>3
  <1>6. g[n] = v
    <2>1. g[n] = v \div Power(Byte, 0) /\ Power(Byte, 0) = 1
      BY BytePower
    <2> QED
      BY <1>1, <2>1
  <1> HIDE DEF g, s
  <1>7. Bin2bn(s) = g[n]
    BY <1>2, <1>3, <1>4, <1>5, Horner
  <1> QED
    BY <1>6, <1>7 DEF s

(* The numbers that are read on the way.                                    *)
Reads(g, s, n) ==
    /\ g \in [0..n -> Nat] /\ g[0] = 0
    /\ \A k \in 1..n : g[k] = g[k - 1] * Byte + s[k]

LEMMA ReadsExist ==
    ASSUME NEW n \in Nat, NEW s \in [1..n -> AllBytes]
    PROVE  \E g : Reads(g, s, n)
  <1> DEFINE S == {m \in Nat : m <= n => \E g : Reads(g, s, m)}
  <1>1. 0 \in S
    <2> DEFINE g == [k \in 0..0 |-> 0]
    <2>1. Reads(g, s, 0)
      BY DEF Reads
    <2> QED
      BY <2>1
  <1>2. ASSUME NEW m \in Nat, m \in S
        PROVE  m + 1 \in S
    <2> SUFFICES ASSUME m + 1 <= n
                 PROVE  \E g : Reads(g, s, m + 1)
      OBVIOUS
    <2>1. PICK old : Reads(old, s, m)
      BY <1>2
    <2> DEFINE g == [k \in 0..(m + 1) |-> IF k = m + 1 THEN old[m] * Byte + s[m + 1] ELSE old[k]]
    <2>2. s[m + 1] \in Nat /\ old[m] \in Nat /\ Byte \in Nat
      BY <2>1, ByteType DEF Reads, AllBytes
    <2>3. old[m] * Byte + s[m + 1] \in Nat
      <3> DEFINE a == old[m]
                 b == s[m + 1]
      <3> HIDE DEF a, b
      <3>1. a \in Nat /\ b \in Nat
        BY <2>2 DEF a, b
      <3>2. a * Byte + b \in Nat
        BY <2>2, <3>1
      <3> QED
        BY <3>2 DEF a, b
    <2>4. /\ \A k \in 0..m : g[k] = old[k] /\ old[k] \in Nat
          /\ g[m + 1] = old[m] * Byte + s[m + 1]
      BY <2>1 DEF Reads
    <2>5. \A k \in 0..(m + 1) : g[k] \in Nat
      <3> HIDE DEF g
      <3>1. \A k \in 0..(m + 1) : k \in 0..m \/ k = m + 1
        OBVIOUS
      <3> QED
        BY <2>3, <2>4, <3>1
    <2>8. g \in [0..(m + 1) -> Nat]
      BY <2>5
    <2> HIDE DEF g
    <2>6. ASSUME NEW k \in 1..(m + 1)
          PROVE  g[k] = g[k - 1] * Byte + s[k]
      <3>1. CASE k = m + 1
        <4>1. k - 1 = m /\ m \in 0..m
          BY <3>1
        <4> QED
          BY <2>4, <3>1, <4>1
      <3>2. CASE k # m + 1
        <4>1. k \in 1..m /\ k \in 0..m /\ k - 1 \in 0..m
          BY <3>2
        <4>2. old[k] = old[k - 1] * Byte + s[k]
          BY <2>1, <4>1 DEF Reads
        <4> QED
          BY <2>4, <4>1, <4>2
      <3> QED
        BY <3>1, <3>2
    <2>7. g[0] = 0
      <3>1. 0 \in 0..m
        OBVIOUS
      <3> QED
        BY <2>1, <2>4, <3>1 DEF Reads
    <2> QED
      BY <2>6, <2>7, <2>8 DEF Reads
  <1> HIDE DEF S
  <1>3. n \in S
    BY <1>1, <1>2, SetInduction
  <1> QED
    BY <1>3 DEF S

(* What is read is in the range of its bytes, and has exactly these bytes.  *)
LEMMA BytesBack ==
    ASSUME NEW n \in Nat, NEW s \in [1..n -> AllBytes]
    PROVE  Bin2bn(s) \in 0..(Power(Byte, n) - 1) /\ BigEndian(Bin2bn(s), n) = s
  <1>1. PICK g : Reads(g, s, n)
    BY ReadsExist
  <1>2. g \in [0..n -> Nat] /\ g[0] = 0 /\ \A k \in 1..n : g[k] = g[k - 1] * Byte + s[k]
    BY <1>1 DEF Reads
  <1>3. Bin2bn(s) = g[n]
    BY <1>2, Horner
  <1>4. Byte \in Nat \ {0, 1} /\ \A k \in 1..n : s[k] \in 0..(Byte - 1)
    BY ByteType DEF AllBytes
  <1>5. ASSUME NEW k \in 1..n
        PROVE  g[k] \div Byte = g[k - 1] /\ g[k] % Byte = s[k]
    <2>1. g[k] = g[k - 1] * Byte + s[k] /\ g[k] \in Int /\ g[k - 1] \in Int /\ s[k] \in 0..(Byte - 1)
      BY <1>2, <1>4
    <2> QED
      BY <1>4, <2>1, RemainderIs
  <1>6. g[n] < Power(Byte, n)
    <2> DEFINE S == {k \in Nat : k <= n => g[k] < Power(Byte, k)}
    <2>1. 0 \in S
      BY <1>2, BytePower
    <2>2. ASSUME NEW k \in Nat, k \in S
          PROVE  k + 1 \in S
      <3> SUFFICES ASSUME k + 1 <= n
                   PROVE  g[k + 1] < Power(Byte, k + 1)
        OBVIOUS
      <3> DEFINE p == Power(Byte, k)
                 a == g[k]
                 b == s[k + 1]
      <3>1. k \in 0..n /\ k + 1 \in 1..n /\ (k + 1) - 1 = k
        OBVIOUS
      <3>2. a \in Nat /\ a < p /\ p \in Nat /\ b \in 0..(Byte - 1)
        BY <1>2, <1>4, <2>2, <3>1, BytePower
      <3>3. g[k + 1] = a * Byte + b /\ Power(Byte, k + 1) = Byte * p
        BY <1>2, <3>1, BytePower
      <3> HIDE DEF p, a, b
      <3>4. a * Byte <= (p - 1) * Byte
        BY <1>4, <3>2
      <3> DEFINE c == a * Byte
                 d == Byte * p
      <3>5. c <= d - Byte /\ c \in Int /\ d \in Int
        <4>1. (p - 1) * Byte = d - Byte
          BY <1>4, <3>2
        <4>2. c \in Int /\ d \in Int
          BY <1>4, <3>2
        <4> HIDE DEF d
        <4> QED
          BY <3>4, <4>1, <4>2
      <3>6. g[k + 1] = c + b /\ Power(Byte, k + 1) = d
        BY <3>3
      <3> HIDE DEF c, d
      <3>7. c + b < d
        BY <1>4, <3>2, <3>5
      <3> QED
        BY <3>6, <3>7
    <2> HIDE DEF S
    <2>3. n \in S
      BY <2>1, <2>2, SetInduction
    <2> QED
      BY <2>3 DEF S
  <1>7. \A j \in 0..n : g[n] \div Power(Byte, j) = g[n - j]
    <2> DEFINE S == {j \in Nat : j <= n => g[n] \div Power(Byte, j) = g[n - j]}
    <2>1. 0 \in S
      <3>1. n - 0 = n /\ Power(Byte, 0) = 1 /\ g[n] \in Nat
        BY <1>2, BytePower
      <3>2. g[n] \div 1 = g[n]
        BY <3>1
      <3> QED
        BY <3>1, <3>2
    <2>2. ASSUME NEW j \in Nat, j \in S
          PROVE  j + 1 \in S
      <3> SUFFICES ASSUME j + 1 <= n
                   PROVE  g[n] \div Power(Byte, j + 1) = g[n - (j + 1)]
        OBVIOUS
      <3> DEFINE p == Power(Byte, j)
                 a == g[n]
      <3>1. n - j \in 1..n /\ (n - j) - 1 = n - (j + 1)
        OBVIOUS
      <3>2. a \div p = g[n - j] /\ p \in Nat \ {0} /\ a \in Nat
        BY <1>2, <2>2, BytePower
      <3>3. Power(Byte, j + 1) = Byte * p
        BY BytePower
      <3>4. (a \div p) \div Byte = g[n - (j + 1)]
        <4>1. g[n - j] \div Byte = g[(n - j) - 1]
          BY <1>5, <3>1
        <4> HIDE DEF p, a
        <4> QED
          BY <3>1, <3>2, <4>1
      <3> HIDE DEF p, a
      <3>5. (a \div p) \div Byte = a \div (p * Byte)
        <4>1. Byte \in Nat \ {0}
          BY <1>4
        <4> QED
          BY <3>2, <4>1, DivTwice
      <3>6. p * Byte = Byte * p
        BY <1>4, <3>2
      <3> QED
        BY <3>3, <3>4, <3>5, <3>6 DEF a
    <2> HIDE DEF S
    <2>3. Nat \subseteq S
      BY <2>1, <2>2, SetInduction
    <2> QED
      BY <2>3 DEF S
  <1>8. ASSUME NEW i \in 1..n
        PROVE  (g[n] \div Power(Byte, n - i)) % Byte = s[i]
    <2>1. n - i \in 0..n /\ n - (n - i) = i
      OBVIOUS
    <2>2. g[n] \div Power(Byte, n - i) = g[i]
      BY <1>7, <2>1
    <2> QED
      BY <1>5, <2>2
  <1>9. g[n] \in 0..(Power(Byte, n) - 1)
    <2>1. g[n] \in Nat /\ Power(Byte, n) \in Nat
      BY <1>2, BytePower
    <2> QED
      BY <1>6, <2>1
  <1>10. BigEndian(g[n], n) = s
    BY <1>8 DEF BigEndian
  <1> QED
    BY <1>3, <1>9, <1>10

(* A number has as many bytes as it takes.                                  *)
LEMMA NumBytesLaw ==
    ASSUME NEW v \in Nat
    PROVE  /\ NumBytes(v) \in Nat /\ v < Power(Byte, NumBytes(v))
           /\ \A size \in Nat : NumBytes(v) <= size <=> v < Power(Byte, size)
  <1> DEFINE T == {n \in Nat : v < Power(Byte, n)}
  <1>1. v \in T
    BY ByteType, PowerGrows
  <1>2. PICK m \in T : \A n \in T : m <= n
    BY <1>1, LeastNumber
  <1>3. m \in 0..v /\ v < Power(Byte, m)
    BY <1>1, <1>2
  <1>4. m = 0 \/ Power(Byte, m - 1) <= v
    <2> SUFFICES ASSUME m # 0
                 PROVE  Power(Byte, m - 1) <= v
      OBVIOUS
    <2>1. m - 1 \in Nat /\ m - 1 \notin T
      BY <1>2
    <2>2. Power(Byte, m - 1) \in Nat
      BY <2>1, BytePower
    <2> QED
      BY <2>1, <2>2
  <1> DEFINE size0 == NumBytes(v)
  <1>5. /\ size0 \in 0..v /\ v < Power(Byte, size0)
        /\ size0 = 0 \/ Power(Byte, size0 - 1) <= v
    BY <1>3, <1>4 DEF NumBytes
  <1> HIDE DEF size0
  <1>6. ASSUME NEW size \in Nat
        PROVE  size0 <= size <=> v < Power(Byte, size)
    <2>1. Power(Byte, size) \in Nat /\ Power(Byte, size0) \in Nat
      BY <1>5, BytePower
    <2>2. CASE size0 <= size
      <3>1. Power(Byte, size0) <= Power(Byte, size)
        BY <1>5, <2>2, ByteType, PowerGrows
      <3> QED
        BY <1>5, <2>1, <2>2, <3>1
    <2>3. CASE size < size0
      <3>1. size0 - 1 \in Nat /\ size <= size0 - 1 /\ size0 # 0
        BY <1>5, <2>3
      <3>2. Power(Byte, size) <= Power(Byte, size0 - 1) /\ Power(Byte, size0 - 1) \in Nat
        BY <3>1, ByteType, PowerGrows, BytePower
      <3> QED
        BY <1>5, <2>1, <2>3, <3>1, <3>2
    <2> QED
      BY <1>5, <2>2, <2>3
  <1> QED
    BY <1>5, <1>6 DEF size0

(* Zeros in front of a number are its leading bytes.                        *)
LEMMA Padded ==
    ASSUME NEW size \in Nat, NEW v \in 0..(Power(Byte, size) - 1)
    PROVE  /\ NumBytes(v) <= size
           /\ Zeros(size - NumBytes(v)) \o Bn2bin(v) = BigEndian(v, size)
  <1> DEFINE m == NumBytes(v)
             z == size - m
             s == Zeros(z) \o Bn2bin(v)
  <1>1. v \in Nat /\ v < Power(Byte, size)
    <2>1. Power(Byte, size) \in Nat
      BY BytePower
    <2> QED
      BY <2>1
  <1>2. m \in Nat /\ m <= size /\ v < Power(Byte, m)
    BY <1>1, NumBytesLaw
  <1>3. z \in Nat /\ z + m = size /\ 0 \in AllBytes
    BY <1>2, ByteType DEF AllBytes
  <1>4. /\ Bn2bin(v) \in [1..m -> AllBytes] /\ Len(Bn2bin(v)) = m
        /\ Bn2bin(v) = BigEndian(v, m)
    BY <1>1, <1>2, BigEndianType DEF Bn2bin
  <1>5. Zeros(z) \in [1..z -> AllBytes] /\ Len(Zeros(z)) = z /\ \A i \in 1..z : Zeros(z)[i] = 0
    BY <1>3 DEF Zeros
  <1> HIDE DEF z, m
  <1>6. Zeros(z) \in Seq(AllBytes) /\ Bn2bin(v) \in Seq(AllBytes)
    BY <1>2, <1>3, <1>4, <1>5
  <1>7. s \in Seq(AllBytes) /\ Len(s) = size
    BY <1>3, <1>4, <1>5, <1>6
  <1>8. ASSUME NEW i \in 1..size
        PROVE  s[i] = (v \div Power(Byte, size - i)) % Byte
    <2>1. CASE i <= z
      <3>1. s[i] = 0
        <4>1. i \in 1..z
          BY <1>3, <2>1
        <4> QED
          BY <1>5, <1>6, <4>1
      <3>2. size - i \in Nat /\ m <= size - i
        BY <1>2, <1>3, <2>1
      <3> DEFINE p == Power(Byte, size - i)
      <3>3. p \in Nat \ {0} /\ v < p
        <4>1. Power(Byte, m) <= p /\ Power(Byte, m) \in Nat /\ p \in Nat \ {0}
          BY <1>2, <3>2, ByteType, PowerGrows, BytePower
        <4> HIDE DEF p
        <4> QED
          BY <1>1, <1>2, <4>1
      <3> HIDE DEF p
      <3>4. v \div p = 0
        <4>1. v = 0 * p + v /\ v \in 0..(p - 1)
          BY <1>1, <3>3
        <4> QED
          BY <1>1, <3>3, <4>1, RemainderIs
      <3>5. 0 % Byte = 0
        BY ByteType
      <3> QED
        BY <3>1, <3>4, <3>5 DEF p
    <2>2. CASE i > z
      <3>1. i - z \in 1..m /\ m - (i - z) = size - i
        BY <1>2, <1>3, <2>2
      <3>2. s[i] = Bn2bin(v)[i - z]
        BY <1>3, <1>4, <1>5, <1>6, <2>2, <3>1
      <3>3. Bn2bin(v)[i - z] = (v \div Power(Byte, m - (i - z))) % Byte
        BY <1>4, <3>1 DEF BigEndian
      <3> QED
        BY <3>1, <3>2, <3>3
    <2>3. i <= z \/ i > z
      BY <1>3
    <2> HIDE DEF s
    <2> QED
      BY <2>1, <2>2, <2>3
  <1>9. BigEndian(v, size) \in Seq(AllBytes) /\ Len(BigEndian(v, size)) = size
    BY <1>1, BigEndianType
  <1>10. \A i \in 1..size : s[i] = BigEndian(v, size)[i]
    BY <1>8 DEF BigEndian
  <1> HIDE DEF s
  <1>11. s = BigEndian(v, size)
    BY <1>7, <1>9, <1>10, SeqEqual
  <1> QED
    BY <1>2, <1>11 DEF s, z, m

-----------------------------------------------------------------------------
(* Streams. *)

(* What a write of the bytes bs at an offset makes of a stream.             *)
Written(before, after, offset, bs) ==
    /\ after \in Seq(AllBytes)
    /\ Len(after) = IF Len(before) >= offset + Len(bs) THEN Len(before) ELSE offset + Len(bs)
    /\ \A i \in 1..Len(after) :
          after[i] = IF i \in (offset + 1)..(offset + Len(bs)) THEN bs[i - offset]
                     ELSE IF i <= Len(before) THEN before[i] ELSE 0

(* Bytes put where there is room.                                           *)
LEMMA PlaceWrites ==
    ASSUME NEW before \in Seq(AllBytes), NEW offset \in Nat, NEW bs \in Seq(AllBytes),
           NEW room, room = IF Len(before) >= offset + Len(bs) THEN before
                            ELSE before \o Zeros(offset + Len(bs) - Len(before))
    PROVE  Written(before, Place(room, offset, bs), offset, bs)
  <1> DEFINE end == offset + Len(bs)
             n == Len(before)
             len == IF n >= end THEN n ELSE end
             after == Place(room, offset, bs)
  <1>1. n \in Nat /\ Len(bs) \in Nat /\ end \in Nat /\ len \in Nat /\ 0 \in AllBytes
    BY ByteType DEF AllBytes
  <1>2. /\ room \in Seq(AllBytes) /\ Len(room) = len
        /\ \A i \in 1..len : room[i] = IF i <= n THEN before[i] ELSE 0
    <2>1. CASE n >= end
      BY <2>1
    <2>2. CASE n < end
      <3> DEFINE z == end - n
      <3>1. z \in Nat /\ n + z = len /\ room = before \o Zeros(z)
        BY <1>1, <2>2
      <3> HIDE DEF z
      <3>2. Zeros(z) \in Seq(AllBytes) /\ Len(Zeros(z)) = z /\ \A i \in 1..z : Zeros(z)[i] = 0
        BY <1>1, <3>1 DEF Zeros
      <3> HIDE DEF n, len, end
      <3>3. room \in Seq(AllBytes) /\ Len(room) = len
        <4> DEFINE zs == Zeros(z)
        <4>1. zs \in Seq(AllBytes) /\ Len(zs) = z
          BY <3>2
        <4> HIDE DEF zs
        <4>2. before \o zs \in Seq(AllBytes) /\ Len(before \o zs) = Len(before) + Len(zs)
          BY <4>1
        <4> QED
          BY <3>1, <4>1, <4>2 DEF n, zs
      <3>4. ASSUME NEW i \in 1..len
            PROVE  room[i] = IF i <= n THEN before[i] ELSE 0
        <4>1. CASE i <= n
          BY <1>1, <3>1, <3>2, <4>1 DEF n
        <4>2. CASE i > n
          <5>1. i - n \in 1..z /\ room[i] = Zeros(z)[i - n]
            BY <1>1, <3>1, <3>2, <4>2 DEF n
          <5>2. room[i] = 0
            BY <3>2, <5>1
          <5>3. ~(i <= n)
            BY <1>1, <4>2
          <5> QED
            BY <5>2, <5>3
        <4>3. i <= n \/ i > n
          BY <1>1
        <4> QED
          BY <4>1, <4>2, <4>3
      <3> QED
        BY <3>3, <3>4
    <2> QED
      BY <1>1, <2>1, <2>2
  <1>3. after = [i \in 1..len |-> IF i \in (offset + 1)..(offset + Len(bs))
                                  THEN bs[i - offset] ELSE room[i]]
    BY <1>2 DEF Place
  <1> HIDE DEF after
  <1>4. ASSUME NEW i \in 1..len
        PROVE  /\ after[i] \in AllBytes
               /\ after[i] = IF i \in (offset + 1)..(offset + Len(bs)) THEN bs[i - offset]
                             ELSE IF i <= n THEN before[i] ELSE 0
    <2>1. CASE i \in (offset + 1)..(offset + Len(bs))
      <3>1. i - offset \in 1..Len(bs)
        BY <1>1, <2>1
      <3>2. bs[i - offset] \in AllBytes
        BY <3>1
      <3> HIDE DEF len
      <3> QED
        BY <1>3, <2>1, <3>2
    <2>2. CASE i \notin (offset + 1)..(offset + Len(bs))
      <3>1. after[i] = room[i] /\ room[i] = IF i <= n THEN before[i] ELSE 0
        BY <1>2, <1>3, <2>2
      <3>2. room[i] \in AllBytes
        BY <1>2
      <3> QED
        BY <2>2, <3>1, <3>2
    <2> QED
      BY <2>1, <2>2
  <1>5. after \in Seq(AllBytes) /\ Len(after) = len
    <2> HIDE DEF len
    <2>1. after \in [1..len -> AllBytes]
      BY <1>3, <1>4
    <2> QED
      BY <1>1, <2>1
  <1>6. Written(before, after, offset, bs)
    BY <1>4, <1>5 DEF Written
  <1> QED
    BY <1>6 DEF after

LEMMA WrittenOnce ==
    ASSUME NEW before \in Seq(AllBytes), NEW offset \in Nat, NEW bs \in Seq(AllBytes),
           NEW one, NEW other, Written(before, one, offset, bs), Written(before, other, offset, bs)
    PROVE  one = other
  <1>1. /\ one \in Seq(AllBytes) /\ other \in Seq(AllBytes) /\ Len(one) = Len(other)
        /\ \A i \in 1..Len(one) : one[i] = other[i]
    BY DEF Written
  <1> QED
    BY <1>1, SeqEqual

LEMMA UnsignedSmall ==
    ASSUME NEW n \in Nat, n < UintModulus
    PROVE  Unsigned(n) = n
  <1>1. UintModulus \in Nat \ {0}
    BY BytesAssumption
  <1> QED
    BY <1>1 DEF Unsigned

(* A number that fits its field is written into it, and nowhere else.       *)
LEMMA SetWrites ==
    ASSUME NEW dst \in Seq(AllBytes), NEW offset \in Nat, NEW size \in Nat,
           offset + size < UintModulus, NEW v \in 0..(Power(Byte, size) - 1)
    PROVE  Written(dst, BnSetNumber(dst, offset, size, v), offset, BigEndian(v, size))
  <1> DEFINE room == IF offset + size > Len(dst) THEN Resize(dst, offset + size) ELSE dst
             bs == BigEndian(v, size)
  <1>1. bs \in Seq(AllBytes) /\ Len(bs) = size
    <2>1. v \in Nat
      <3>1. Power(Byte, size) \in Nat
        BY BytePower
      <3> QED
        BY <3>1
    <2> QED
      BY <2>1, BigEndianType
  <1>2. offset + size \in Nat /\ Len(dst) \in Nat /\ Unsigned(offset + size) = offset + size
    <2>1. offset + size \in Nat
      OBVIOUS
    <2> QED
      BY <2>1, UnsignedSmall
  <1>3. NumBytes(v) <= size /\ Zeros(size - NumBytes(v)) \o Bn2bin(v) = bs
    BY Padded
  <1>4. BnSetNumber(dst, offset, size, v) = Place(room, offset, bs)
    <2>1. ~(NumBytes(v) > size)
      <3>1. NumBytes(v) \in Nat
        <4>1. v \in Nat
          <5>1. Power(Byte, size) \in Nat
            BY BytePower
          <5> QED
            BY <5>1
        <4> QED
          BY <4>1, NumBytesLaw
      <3> QED
        BY <1>3, <3>1
    <2> HIDE DEF bs
    <2> QED
      BY <1>2, <1>3, <2>1 DEF BnSetNumber
  <1>5. room = IF Len(dst) >= offset + Len(bs) THEN dst
               ELSE dst \o Zeros(offset + Len(bs) - Len(dst))
    <2> HIDE DEF bs
    <2> QED
      BY <1>1, <1>2 DEF Resize
  <1> HIDE DEF room, bs
  <1>6. Written(dst, Place(room, offset, bs), offset, bs)
    BY <1>1, <1>5, PlaceWrites
  <1> QED
    BY <1>4, <1>6 DEF bs

LEMMA SliceIs ==
    ASSUME NEW src \in Seq(AllBytes), NEW offset \in Nat, NEW size \in Nat,
           offset + size <= Len(src)
    PROVE  /\ Slice(src, offset, size) \in [1..size -> AllBytes]
           /\ Slice(src, offset, size) \in Seq(AllBytes)
           /\ Len(Slice(src, offset, size)) = size
           /\ \A i \in 1..size : Slice(src, offset, size)[i] = src[offset + i]
  <1> DEFINE m == offset + 1
             n == offset + size
             s == SubSeq(src, m, n)
  <1>1. m \in 1..(Len(src) + 1) /\ n \in (m - 1)..Len(src) /\ n - m + 1 = size
    OBVIOUS
  <1> HIDE DEF m, n
  <1>2. s \in Seq(AllBytes) /\ Len(s) = size /\ \A i \in 1..size : s[i] = src[m + i - 1]
    BY <1>1, SubSeqProperties
  <1>3. s \in [1..size -> AllBytes]
    <2> HIDE DEF s
    <2> QED
      BY <1>2
  <1>4. \A i \in 1..size : m + i - 1 = offset + i
    BY DEF m
  <1> HIDE DEF s
  <1>5. \A i \in 1..size : s[i] = src[offset + i]
    BY <1>2, <1>4
  <1> QED
    BY <1>2, <1>3, <1>5 DEF Slice, s, m, n

(* What a field holds.                                                      *)
LEMMA GetReads ==
    ASSUME NEW src \in Seq(AllBytes), NEW offset \in Nat, NEW size \in Nat,
           offset + size < UintModulus
    PROVE  /\ offset + size > Len(src) => BnGetNumber(src, offset, size) = Null
           /\ offset + size <= Len(src) =>
                /\ BnGetNumber(src, offset, size) \in 0..(Power(Byte, size) - 1)
                /\ BnGetNumber(src, offset, size) # Null
                /\ BigEndian(BnGetNumber(src, offset, size), size) = Slice(src, offset, size)
  <1>1. Unsigned(offset + size) = offset + size /\ offset + size \in Nat /\ Len(src) \in Nat
    <2>1. offset + size \in Nat
      OBVIOUS
    <2> QED
      BY <2>1, UnsignedSmall
  <1>2. offset + size > Len(src) => BnGetNumber(src, offset, size) = Null
    BY <1>1 DEF BnGetNumber
  <1>3. ASSUME offset + size <= Len(src)
        PROVE  /\ BnGetNumber(src, offset, size) \in 0..(Power(Byte, size) - 1)
               /\ BnGetNumber(src, offset, size) # Null
               /\ BigEndian(BnGetNumber(src, offset, size), size) = Slice(src, offset, size)
    <2> DEFINE s == Slice(src, offset, size)
    <2>1. s \in [1..size -> AllBytes]
      BY <1>3, SliceIs
    <2>2. BnGetNumber(src, offset, size) = Bin2bn(s)
      BY <1>1, <1>3 DEF BnGetNumber
    <2> HIDE DEF s
    <2>3. Bin2bn(s) \in 0..(Power(Byte, size) - 1) /\ BigEndian(Bin2bn(s), size) = s
      BY <2>1, BytesBack
    <2>4. Bin2bn(s) # Null
      BY <2>3 DEF Null
    <2> QED
      BY <2>2, <2>3, <2>4 DEF s
  <1> QED
    BY <1>2, <1>3

(* A number is found where its bytes are.                                   *)
LEMMA FoundInField ==
    ASSUME NEW src \in Seq(AllBytes), NEW offset \in Nat, NEW size \in Nat,
           offset + size < UintModulus, offset + size <= Len(src),
           NEW v \in 0..(Power(Byte, size) - 1),
           \A i \in 1..size : src[offset + i] = BigEndian(v, size)[i]
    PROVE  BnGetNumber(src, offset, size) = v
  <1> DEFINE s == Slice(src, offset, size)
             bs == BigEndian(v, size)
  <1>1. /\ s \in Seq(AllBytes) /\ Len(s) = size
        /\ \A i \in 1..size : s[i] = src[offset + i]
    BY SliceIs
  <1>2. bs \in Seq(AllBytes) /\ Len(bs) = size
    <2>1. v \in Nat
      <3>1. Power(Byte, size) \in Nat
        BY BytePower
      <3> QED
        BY <3>1
    <2> QED
      BY <2>1, BigEndianType
  <1>3. BnGetNumber(src, offset, size) = Bin2bn(s)
    <2>1. Unsigned(offset + size) = offset + size /\ offset + size \in Nat /\ Len(src) \in Nat
      <3>1. offset + size \in Nat
        OBVIOUS
      <3> QED
        BY <3>1, UnsignedSmall
    <2> QED
      BY <2>1 DEF BnGetNumber
  <1>4. Bin2bn(bs) = v
    BY NumberBack
  <1> HIDE DEF s
  <1>5. s = bs
    <2>1. \A i \in 1..size : s[i] = bs[i]
      BY <1>1
    <2> HIDE DEF bs
    <2> QED
      BY <1>1, <1>2, <2>1, SeqEqual
  <1> QED
    BY <1>3, <1>4, <1>5

LEMMA ReadsWritten ==
    ASSUME NEW before \in Seq(AllBytes), NEW after, NEW offset \in Nat, NEW size \in Nat,
           offset + size < UintModulus, NEW v \in 0..(Power(Byte, size) - 1),
           Written(before, after, offset, BigEndian(v, size))
    PROVE  BnGetNumber(after, offset, size) = v
  <1> DEFINE bs == BigEndian(v, size)
  <1>1. Len(bs) = size
    <2>1. v \in Nat
      <3>1. Power(Byte, size) \in Nat
        BY BytePower
      <3> QED
        BY <3>1
    <2> QED
      BY <2>1, BigEndianType
  <1> HIDE DEF bs
  <1>2. /\ after \in Seq(AllBytes) /\ offset + size <= Len(after)
        /\ \A i \in (offset + 1)..(offset + size) : after[i] = bs[i - offset]
    <2>1. Written(before, after, offset, bs)
      BY DEF bs
    <2>2. after \in Seq(AllBytes) /\ offset + size <= Len(after)
      BY <1>1, <2>1 DEF Written
    <2>3. \A i \in (offset + 1)..(offset + size) : i \in 1..Len(after)
      BY <2>2
    <2> QED
      BY <1>1, <2>1, <2>2, <2>3 DEF Written
  <1>3. ASSUME NEW i \in 1..size
        PROVE  after[offset + i] = bs[i]
    <2>1. offset + i \in (offset + 1)..(offset + size) /\ (offset + i) - offset = i
      OBVIOUS
    <2> QED
      BY <1>2, <2>1
  <1> QED
    BY <1>2, <1>3, FoundInField DEF bs

(* What was read is written back as it was.                                 *)
LEMMA WritesRead ==
    ASSUME NEW src \in Seq(AllBytes), NEW offset \in Nat, NEW size \in Nat,
           offset + size < UintModulus, BnGetNumber(src, offset, size) # Null
    PROVE  /\ offset + size <= Len(src)
           /\ BnSetNumber(src, offset, size, BnGetNumber(src, offset, size)) = src
  <1> DEFINE v == BnGetNumber(src, offset, size)
             bs == Slice(src, offset, size)
             after == BnSetNumber(src, offset, size, v)
  <1>1. offset + size <= Len(src) /\ offset + size \in Nat /\ Len(src) \in Nat
    BY GetReads
  <1>2. v \in 0..(Power(Byte, size) - 1) /\ BigEndian(v, size) = bs
    BY <1>1, GetReads
  <1>3. /\ bs \in Seq(AllBytes) /\ Len(bs) = size
        /\ \A i \in 1..size : bs[i] = src[offset + i]
    BY <1>1, SliceIs
  <1> HIDE DEF v, bs
  <1>4. Written(src, after, offset, bs)
    BY <1>2, SetWrites
  <1>5. Written(src, src, offset, bs)
    <2>1. \A i \in (offset + 1)..(offset + size) : src[i] = bs[i - offset]
      <3> SUFFICES ASSUME NEW i \in (offset + 1)..(offset + size)
                   PROVE  src[i] = bs[i - offset]
        OBVIOUS
      <3>1. i - offset \in 1..size /\ offset + (i - offset) = i
        OBVIOUS
      <3> QED
        BY <1>3, <3>1
    <2> QED
      BY <1>1, <1>3, <2>1 DEF Written
  <1> HIDE DEF after
  <1>6. after = src
    BY <1>3, <1>4, <1>5, WrittenOnce
  <1> QED
    BY <1>1, <1>6 DEF after, v

-----------------------------------------------------------------------------
(* Points. *)

LEMMA PointFacts ==
    /\ Points \subseteq Nat /\ Keys \subseteq Points /\ 0 \in Points
    /\ \A P \in Points : P \in Keys \/ P = Infinity
    /\ Infinity \notin Keys /\ PubKeySize \in Nat \ {0} /\ Null \notin Points
    /\ \A P \in Keys : /\ Coordinate(P) \in 0..(Power(Byte, CoordSize) - 1)
                       /\ OddY(P) \in BOOLEAN
    /\ \A P, R \in Keys : Coordinate(P) = Coordinate(R) /\ OddY(P) = OddY(R) => P = R
  <1>1. /\ Points \subseteq Nat /\ Keys \subseteq Points /\ 0 \in Points
        /\ \A P \in Points : P \in Keys \/ P = Infinity
        /\ Infinity \notin Keys /\ PubKeySize \in Nat \ {0} /\ Null \notin Points
    BY OrderAssumption, KeysAssumption DEF Points, Keys, Infinity, PubKeySize, Null
  <1>2. /\ Order \in Nat /\ Order = 2 * (Order \div 2) + 1
    BY OrderAssumption, KeysAssumption
  <1>3. Order \div 2 < Power(Byte, CoordSize) /\ Power(Byte, CoordSize) \in Nat
    BY KeysAssumption, BytePower
  <1>4. ASSUME NEW P \in Keys
        PROVE  /\ Coordinate(P) \in 0..(Power(Byte, CoordSize) - 1)
               /\ OddY(P) \in BOOLEAN
    <2>1. P \in 1..(Order - 1) /\ Order \div 2 \in Nat
      BY <1>2 DEF Keys
    <2>2. Coordinate(P) \in 0..(Order \div 2)
      BY <1>2, <2>1 DEF Coordinate
    <2> QED
      BY <1>3, <2>1, <2>2 DEF OddY
  <1>5. \A P, R \in Keys : Coordinate(P) = Coordinate(R) /\ OddY(P) = OddY(R) => P = R
    BY <1>2 DEF Coordinate, OddY, Keys
  <1> QED
    BY <1>1, <1>4, <1>5

(* The compressed form of a finite point: its first byte is not zero.       *)
LEMMA OctetsOfKey ==
    ASSUME NEW P \in Keys
    PROVE  /\ Point2oct(P) \in [1..PubKeySize -> AllBytes]
           /\ Point2oct(P)[1] = IF OddY(P) THEN 3 ELSE 2
           /\ \A i \in 1..CoordSize :
                Point2oct(P)[i + 1] = BigEndian(Coordinate(P), CoordSize)[i]
  <1> DEFINE b == IF OddY(P) THEN 3 ELSE 2
             c == BigEndian(Coordinate(P), CoordSize)
  <1>1. P # Infinity /\ Point2oct(P) = <<b>> \o c
    BY PointFacts DEF Point2oct, IntegerToBytes
  <1>2. b \in AllBytes
    <2>1. Byte >= 4 /\ Byte \in Nat
      <3>1. Digit \in Nat /\ Digit >= 2
        BY BytesAssumption
      <3>2. Digit * Digit >= 2 * Digit
        BY <3>1
      <3> QED
        BY <3>1, <3>2, ByteType DEF Byte
    <2> QED
      BY <2>1 DEF AllBytes
  <1>3. CoordSize \in Nat /\ c \in Seq(AllBytes) /\ Len(c) = CoordSize
    <2>1. Power(Byte, CoordSize) \in Nat /\ CoordSize \in Nat
      BY KeysAssumption, BytePower
    <2>2. Coordinate(P) \in Nat
      BY <2>1, PointFacts
    <2>3. c \in [1..CoordSize -> AllBytes] /\ Len(c) = CoordSize
      BY <2>1, <2>2, BigEndianType
    <2> HIDE DEF c
    <2> QED
      BY <2>1, <2>3
  <1> HIDE DEF b, c
  <1> DEFINE s == <<b>> \o c
  <1>4. s \in Seq(AllBytes) /\ Len(s) = 1 + CoordSize
    BY <1>2, <1>3
  <1>5. s[1] = b /\ \A i \in 1..CoordSize : s[i + 1] = c[i]
    BY <1>3
  <1> HIDE DEF s
  <1>6. s \in [1..PubKeySize -> AllBytes]
    BY <1>3, <1>4 DEF PubKeySize
  <1>7. Point2oct(P) = s
    BY <1>1 DEF s
  <1>8. /\ Point2oct(P) \in [1..PubKeySize -> AllBytes]
        /\ Point2oct(P)[1] = b
        /\ \A i \in 1..CoordSize : Point2oct(P)[i + 1] = c[i]
    BY <1>5, <1>6, <1>7
  <1> QED
    BY <1>8 DEF b, c

LEMMA OctetsDiffer ==
    ASSUME NEW P \in Keys, NEW R \in Keys, Point2oct(P) = Point2oct(R)
    PROVE  P = R
  <1>1. OddY(P) = OddY(R)
    BY OctetsOfKey, PointFacts
  <1> DEFINE c == BigEndian(Coordinate(P), CoordSize)
             d == BigEndian(Coordinate(R), CoordSize)
  <1>2. \A i \in 1..CoordSize : c[i] = d[i]
    BY OctetsOfKey
  <1>3. CoordSize \in Nat /\ Power(Byte, CoordSize) \in Nat
    BY KeysAssumption, BytePower
  <1>4. /\ Coordinate(P) \in 0..(Power(Byte, CoordSize) - 1)
        /\ Coordinate(R) \in 0..(Power(Byte, CoordSize) - 1)
    BY PointFacts
  <1>5. Bin2bn(c) = Coordinate(P) /\ Bin2bn(d) = Coordinate(R)
    BY <1>3, <1>4, NumberBack
  <1>6. /\ c \in Seq(AllBytes) /\ Len(c) = CoordSize
        /\ d \in Seq(AllBytes) /\ Len(d) = CoordSize
    <2>1. Coordinate(P) \in Nat /\ Coordinate(R) \in Nat
      BY <1>3, <1>4
    <2> QED
      BY <1>3, <2>1, BigEndianType
  <1> HIDE DEF c, d
  <1>7. c = d
    BY <1>2, <1>6, SeqEqual
  <1> QED
    BY <1>1, <1>5, <1>7, PointFacts

(* The number of a compressed form, and the form from the number.           *)
LEMMA PointNumber ==
    /\ Point2bn(Infinity) = 0
    /\ \A P \in Points : Point2bn(P) \in 0..(Power(Byte, PubKeySize) - 1)
    /\ \A P \in Keys : Point2bn(P) # 0 /\ Bn2bin(Point2bn(P)) = Point2oct(P)
  <1>1. PubKeySize \in Nat \ {0} /\ Power(Byte, PubKeySize) \in Nat \ {0}
    BY PointFacts, BytePower
  <1>2. Point2bn(Infinity) = 0
    <2> DEFINE s == <<0>>
               g == [k \in 0..1 |-> 0]
    <2>1. s \in [1..1 -> AllBytes] /\ s[1] = 0
      BY ByteType DEF AllBytes
    <2>2. g \in [0..1 -> Nat] /\ g[0] = 0 /\ g[1] = 0
      OBVIOUS
    <2>3. \A k \in 1..1 : g[k] = g[k - 1] * Byte + s[k]
      BY <2>1, <2>2, ByteType
    <2>4. Point2bn(Infinity) = Bin2bn(s)
      BY DEF Point2bn, Point2oct
    <2> HIDE DEF s, g
    <2>5. Bin2bn(s) = g[1]
      <3>1. 1 \in Nat
        OBVIOUS
      <3> QED
        BY <2>1, <2>2, <2>3, <3>1, Horner
    <2> QED
      BY <2>2, <2>4, <2>5
  <1>3. ASSUME NEW P \in Keys
        PROVE  /\ Point2bn(P) \in 0..(Power(Byte, PubKeySize) - 1)
               /\ Point2bn(P) # 0 /\ Bn2bin(Point2bn(P)) = Point2oct(P)
    <2> DEFINE s == Point2oct(P)
               v == Point2bn(P)
               m == NumBytes(v)
               z == PubKeySize - m
    <2>1. s \in [1..PubKeySize -> AllBytes] /\ s[1] # 0
      BY OctetsOfKey
    <2>2. v = Bin2bn(s)
      BY DEF Point2bn
    <2> HIDE DEF s
    <2>3. v \in 0..(Power(Byte, PubKeySize) - 1) /\ BigEndian(v, PubKeySize) = s
      <3> HIDE DEF v
      <3> QED
        BY <1>1, <2>1, <2>2, BytesBack
    <2> HIDE DEF v
    <2>4. m <= PubKeySize /\ Zeros(z) \o Bn2bin(v) = s
      BY <1>1, <2>3, Padded
    <2>5. v \in Nat /\ m \in Nat
      BY <1>1, <2>3, NumBytesLaw
    <2>6. Bn2bin(v) \in Seq(AllBytes)
      BY <2>5, BigEndianType DEF Bn2bin
    <2> HIDE DEF m
    <2>7. z = 0
      <3> SUFFICES ASSUME z # 0
                   PROVE  FALSE
        OBVIOUS
      <3>1. z \in Nat \ {0}
        BY <1>1, <2>4, <2>5
      <3> HIDE DEF z
      <3>2. /\ 0 \in AllBytes
            /\ Zeros(z) \in Seq(AllBytes) /\ Len(Zeros(z)) = z /\ Zeros(z)[1] = 0
        BY <3>1, ByteType DEF Zeros, AllBytes
      <3>3. (Zeros(z) \o Bn2bin(v))[1] = Zeros(z)[1]
        BY <2>6, <3>1, <3>2
      <3> QED
        BY <2>1, <2>4, <3>2, <3>3
    <2>8. PubKeySize = m
      BY <1>1, <2>5, <2>7
    <2>9. Bn2bin(v) = s
      BY <2>3, <2>8 DEF Bn2bin, m
    <2>10. v # 0
      <3> SUFFICES ASSUME v = 0
                   PROVE  FALSE
        OBVIOUS
      <3>1. NumBytes(0) <= 0
        <4>1. 0 \in 0..(Power(Byte, 0) - 1)
          BY BytePower
        <4>2. 0 \in Nat
          OBVIOUS
        <4> QED
          BY <4>1, <4>2, Padded
      <3> QED
        BY <1>1, <2>5, <2>8, <3>1 DEF m
    <2> QED
      BY <2>3, <2>9, <2>10 DEF s, v
  <1>4. ASSUME NEW P \in Points
        PROVE  Point2bn(P) \in 0..(Power(Byte, PubKeySize) - 1)
    <2>1. CASE P \in Keys
      BY <1>3, <2>1
    <2>2. CASE P = Infinity
      <3>1. 0 \in 0..(Power(Byte, PubKeySize) - 1)
        BY <1>1
      <3> QED
        BY <1>2, <2>2, <3>1
    <2> QED
      BY <2>1, <2>2, PointFacts
  <1> QED
    BY <1>2, <1>3, <1>4

(* A finite point is read back, and every number that is read as a point is *)
(* the number of that point.                                                *)
LEMMA PointBack ==
    ASSUME NEW P \in Keys
    PROVE  Bn2point(Point2bn(P)) = P
  <1> DEFINE v == Point2bn(P)
  <1>1. v # 0 /\ Bn2bin(v) = Point2oct(P)
    BY PointNumber
  <1> HIDE DEF v
  <1>2. \A R \in Keys : Point2oct(R) = Bn2bin(v) <=> R = P
    BY <1>1, OctetsDiffer
  <1>3. (CHOOSE R \in Keys : Point2oct(R) = Bn2bin(v)) = P
    BY <1>2
  <1>4. \E R \in Keys : Point2oct(R) = Bn2bin(v)
    BY <1>2
  <1>5. Bn2point(v) = P
    BY <1>1, <1>3, <1>4 DEF Bn2point
  <1> QED
    BY <1>5 DEF v

LEMMA NumberOfPoint ==
    ASSUME NEW v \in Nat, Bn2point(v) # Null
    PROVE  Bn2point(v) \in Points /\ Point2bn(Bn2point(v)) = v
  <1>1. CASE v = 0
    <2>1. Bn2point(v) = Infinity
      BY <1>1 DEF Bn2point
    <2> QED
      BY <1>1, <2>1, PointNumber, PointFacts DEF Infinity
  <1>2. CASE v # 0
    <2> DEFINE P == CHOOSE P \in Keys : Point2oct(P) = Bn2bin(v)
    <2>1. (\E R \in Keys : Point2oct(R) = Bn2bin(v)) /\ Bn2point(v) = P
      BY <1>2 DEF Bn2point
    <2>2. P \in Keys /\ Point2oct(P) = Bn2bin(v)
      BY <2>1
    <2> HIDE DEF P
    <2>3. Bin2bn(Bn2bin(v)) = v
      <3> DEFINE m == NumBytes(v)
      <3>1. m \in Nat /\ v < Power(Byte, m)
        BY NumBytesLaw
      <3> HIDE DEF m
      <3>2. v \in 0..(Power(Byte, m) - 1)
        BY <3>1, BytePower
      <3>3. Bin2bn(BigEndian(v, m)) = v
        BY <3>1, <3>2, NumberBack
      <3> QED
        BY <3>3 DEF Bn2bin, m
    <2>4. Point2bn(P) = v
      BY <2>2, <2>3 DEF Point2bn
    <2> QED
      BY <2>1, <2>2, <2>4, PointFacts
  <1> QED
    BY <1>1, <1>2

LEMMA PointsDiffer ==
    ASSUME NEW P \in Points, NEW R \in Points, Point2bn(P) = Point2bn(R)
    PROVE  P = R
  <1>1. CASE P \in Keys /\ R \in Keys
    BY <1>1, PointBack
  <1>2. CASE ~(P \in Keys /\ R \in Keys)
    BY <1>2, PointFacts, PointNumber
  <1> QED
    BY <1>1, <1>2

-----------------------------------------------------------------------------
(* Keys and signatures in a stream. *)

(* Of a stream only a window of bytes may have changed.                     *)
Window(before, after, offset, size) ==
    /\ after \in Seq(AllBytes)
    /\ Len(after) = IF Len(before) >= offset + size THEN Len(before) ELSE offset + size
    /\ \A i \in 1..Len(after) : i \notin (offset + 1)..(offset + size) =>
          after[i] = IF i <= Len(before) THEN before[i] ELSE 0

LEMMA ScalarFacts == /\ ScalarSize \in Nat \ {0} /\ Power(Byte, ScalarSize) \in Nat \ {0}
                     /\ Scalars = 0..(Power(Byte, ScalarSize) - 1)
                     /\ Scalars \subseteq Nat /\ 0 \in Scalars /\ Null \notin Scalars
                     /\ NewPrivKeys \subseteq Scalars
  <1>1. /\ ScalarSize \in Nat \ {0} /\ Order \in Nat /\ Order > 2
        /\ Order <= Power(Byte, ScalarSize)
    BY KeysAssumption, OrderAssumption
  <1>2. Power(Byte, ScalarSize) \in Nat \ {0}
    BY <1>1, BytePower
  <1> QED
    BY <1>1, <1>2 DEF Scalars, Null, NewPrivKeys, Keys

LEMMA WindowOfWritten ==
    ASSUME NEW before \in Seq(AllBytes), NEW after, NEW offset \in Nat, NEW bs,
           Written(before, after, offset, bs)
    PROVE  Window(before, after, offset, Len(bs))
  BY DEF Written, Window

LEMMA NumberLands ==
    ASSUME NEW dst \in Seq(AllBytes), NEW offset \in Nat, NEW size \in Nat,
           offset + size < UintModulus, NEW v \in 0..(Power(Byte, size) - 1)
    PROVE  /\ Window(dst, BnSetNumber(dst, offset, size, v), offset, size)
           /\ BnGetNumber(BnSetNumber(dst, offset, size, v), offset, size) = v
  <1> DEFINE after == BnSetNumber(dst, offset, size, v)
             bs == BigEndian(v, size)
  <1>1. Written(dst, after, offset, bs)
    BY SetWrites
  <1>2. Len(bs) = size
    <2>1. v \in Nat
      <3>1. Power(Byte, size) \in Nat
        BY BytePower
      <3> QED
        BY <3>1
    <2> QED
      BY <2>1, BigEndianType
  <1>3. BnGetNumber(after, offset, size) = v
    <2> HIDE DEF after
    <2> QED
      BY <1>1, ReadsWritten
  <1> HIDE DEF after, bs
  <1>4. Window(dst, after, offset, size)
    BY <1>1, <1>2, WindowOfWritten
  <1> QED
    BY <1>3, <1>4 DEF after

(* A private key is found where it was written.                             *)
LEMMA ScalarLands ==
    ASSUME NEW dst \in Seq(AllBytes), NEW offset \in Nat,
           offset + ScalarSize < UintModulus, NEW d \in Scalars
    PROVE  /\ Window(dst, PrivKeySerialize(dst, offset, d), offset, ScalarSize)
           /\ \A e : PrivKeyDeserialize(e, PrivKeySerialize(dst, offset, d), offset, 1)
                     = [code |-> 0, key |-> d]
  <1> DEFINE after == PrivKeySerialize(dst, offset, d)
  <1>1. /\ Window(dst, after, offset, ScalarSize)
        /\ BnGetNumber(after, offset, ScalarSize) = d
    BY ScalarFacts, NumberLands DEF PrivKeySerialize
  <1>2. d # Null
    BY ScalarFacts
  <1> HIDE DEF after
  <1>3. \A e : PrivKeyDeserialize(e, after, offset, 1) = [code |-> 0, key |-> d]
    BY <1>1, <1>2 DEF PrivKeyDeserialize
  <1> QED
    BY <1>1, <1>3 DEF after

(* So is a public key that was converted; infinity is found, or refused, as  *)
(* zeros are.                                                               *)
LEMMA PointLands ==
    ASSUME NEW dst \in Seq(AllBytes), NEW offset \in Nat,
           offset + PubKeySize < UintModulus, NEW P \in Points
    PROVE  /\ Window(dst, PubKeySerialize(dst, offset, P, TRUE), offset, PubKeySize)
           /\ \A Q : PubKeyDeserialize(Q, PubKeySerialize(dst, offset, P, TRUE), offset, 1)
                     = IF P \in Keys \/ ZeroIsPoint THEN [code |-> 0, key |-> P]
                       ELSE [code |-> -1, key |-> Q]
  <1> DEFINE after == PubKeySerialize(dst, offset, P, TRUE)
             v == Point2bn(P)
  <1>1. v \in 0..(Power(Byte, PubKeySize) - 1)
    BY PointNumber
  <1>2. PubKeySize \in Nat
    BY PointFacts
  <1>3. v # Null
    <2>1. Power(Byte, PubKeySize) \in Nat
      BY <1>2, BytePower
    <2> QED
      BY <1>1, <2>1 DEF Null
  <1>4. /\ Window(dst, after, offset, PubKeySize)
        /\ BnGetNumber(after, offset, PubKeySize) = v
    <2> HIDE DEF v
    <2>1. after = BnSetNumber(dst, offset, PubKeySize, v)
      BY DEF PubKeySerialize, PointSetNumber, v
    <2> HIDE DEF after
    <2> QED
      BY <1>1, <1>2, <2>1, NumberLands
  <1>5. Bn2point(v) = IF P \in Keys \/ ZeroIsPoint THEN P ELSE Null
    <2>1. CASE P \in Keys
      BY <2>1, PointBack
    <2>2. CASE P \notin Keys
      <3>1. P = Infinity
        BY <2>2, PointFacts
      <3>2. v = 0
        BY <3>1, PointNumber
      <3> HIDE DEF v
      <3>3. ZeroIsPoint \in BOOLEAN
        BY KeysAssumption
      <3> QED
        BY <2>2, <3>1, <3>2, <3>3 DEF Bn2point
    <2> QED
      BY <2>1, <2>2
  <1>6. P # Null
    BY PointFacts
  <1> HIDE DEF after, v
  <1>7. PointGetNumber(after, offset, PubKeySize) = IF P \in Keys \/ ZeroIsPoint THEN P ELSE Null
    BY <1>3, <1>4, <1>5 DEF PointGetNumber
  <1>8. \A Q : PubKeyDeserialize(Q, after, offset, 1)
               = IF P \in Keys \/ ZeroIsPoint THEN [code |-> 0, key |-> P]
                 ELSE [code |-> -1, key |-> Q]
    <2>1. CASE P \in Keys \/ ZeroIsPoint
      BY <1>6, <1>7, <2>1 DEF PubKeyDeserialize
    <2>2. CASE ~(P \in Keys \/ ZeroIsPoint)
      BY <1>7, <2>2 DEF PubKeyDeserialize
    <2> QED
      BY <2>1, <2>2
  <1> QED
    BY <1>4, <1>8 DEF after

(* Two windows next to each other make one, and the second leaves what was  *)
(* put into the first.                                                      *)
Joined(dst, one, two, offset, size) ==
    /\ Window(dst, two, offset, 2 * size)
    /\ offset + size <= Len(one) /\ offset + size <= Len(two)
    /\ \A i \in 1..size : two[offset + i] = one[offset + i]

LEMMA WindowsJoin ==
    ASSUME NEW dst \in Seq(AllBytes), NEW one, NEW two, NEW offset \in Nat, NEW size \in Nat,
           NEW next, next = offset + size,
           Window(dst, one, offset, size), Window(one, two, next, size)
    PROVE  Joined(dst, one, two, offset, size)
  <1>1. /\ one \in Seq(AllBytes) /\ two \in Seq(AllBytes)
        /\ Len(dst) \in Nat /\ Len(one) \in Nat /\ Len(two) \in Nat
    BY DEF Window
  <1>2. /\ Len(one) = IF Len(dst) >= offset + size THEN Len(dst) ELSE offset + size
        /\ Len(two) = IF Len(one) >= (offset + size) + size THEN Len(one) ELSE (offset + size) + size
    BY DEF Window
  <1>3. /\ Len(two) = IF Len(dst) >= offset + 2 * size THEN Len(dst) ELSE offset + 2 * size
        /\ offset + size <= Len(one) /\ offset + size <= Len(two)
    BY <1>1, <1>2
  <1>4. ASSUME NEW i \in 1..size
        PROVE  two[offset + i] = one[offset + i]
    <2>1. /\ offset + i \in 1..Len(two) /\ offset + i <= Len(one)
          /\ offset + i \notin (offset + size + 1)..(offset + size + size)
      BY <1>1, <1>3
    <2> QED
      BY <2>1 DEF Window
  <1>5. ASSUME NEW i \in 1..Len(two), i \notin (offset + 1)..(offset + 2 * size)
        PROVE  two[i] = IF i <= Len(dst) THEN dst[i] ELSE 0
    <2>1. /\ i \notin (offset + size + 1)..(offset + size + size)
          /\ i \notin (offset + 1)..(offset + size)
          /\ i <= Len(one) => i \in 1..Len(one)
          /\ ~(i <= Len(one)) => ~(i <= Len(dst))
      BY <1>1, <1>2, <1>5
    <2>2. two[i] = IF i <= Len(one) THEN one[i] ELSE 0
      BY <2>1 DEF Window
    <2>3. i <= Len(one) => one[i] = IF i <= Len(dst) THEN dst[i] ELSE 0
      BY <2>1 DEF Window
    <2> QED
      BY <2>1, <2>2, <2>3
  <1> QED
    BY <1>1, <1>3, <1>4, <1>5 DEF Window, Joined

Signatures == [r : Scalars, s : Scalars]

(* A signature is found where it was written: both of its numbers.          *)
LEMMA SignatureLands ==
    ASSUME NEW dst \in Seq(AllBytes), NEW offset \in Nat,
           offset + SignatureSize < UintModulus, NEW sig \in Signatures
    PROVE  /\ Window(dst, SignatureSerialize(dst, offset, sig), offset, SignatureSize)
           /\ \A e : SignatureDeserialize(e, SignatureSerialize(dst, offset, sig), offset, 2)
                     = [code |-> 0, sig |-> sig]
  <1> DEFINE one == BnSetNumber(dst, offset, ScalarSize, sig.r)
             two == BnSetNumber(one, offset + ScalarSize, ScalarSize, sig.s)
  <1>1. sig.r \in Scalars /\ sig.s \in Scalars /\ sig = [r |-> sig.r, s |-> sig.s]
    BY DEF Signatures
  <1>2. /\ ScalarSize \in Nat /\ SignatureSize = 2 * ScalarSize
        /\ offset + ScalarSize \in Nat /\ offset + ScalarSize < UintModulus
        /\ offset + ScalarSize + ScalarSize < UintModulus
        /\ Scalars = 0..(Power(Byte, ScalarSize) - 1)
    BY ScalarFacts, BytesAssumption DEF SignatureSize
  <1>3. /\ Window(dst, one, offset, ScalarSize) /\ BnGetNumber(one, offset, ScalarSize) = sig.r
    BY <1>1, <1>2, NumberLands
  <1>4. one \in Seq(AllBytes)
    <2> HIDE DEF one
    <2> QED
      BY <1>3 DEF Window
  <1> HIDE DEF one
  <1>5. /\ Window(one, two, offset + ScalarSize, ScalarSize)
        /\ BnGetNumber(two, offset + ScalarSize, ScalarSize) = sig.s
    BY <1>1, <1>2, <1>4, NumberLands
  <1>6. two \in Seq(AllBytes)
    <2> HIDE DEF two
    <2> QED
      BY <1>5 DEF Window
  <1>7. two = SignatureSerialize(dst, offset, sig)
    BY DEF SignatureSerialize, one
  <1> HIDE DEF two
  <1>8. /\ Window(dst, two, offset, 2 * ScalarSize)
        /\ offset + ScalarSize <= Len(one) /\ offset + ScalarSize <= Len(two)
        /\ \A i \in 1..ScalarSize : two[offset + i] = one[offset + i]
    <2> DEFINE next == offset + ScalarSize
    <2>1. Window(dst, one, offset, ScalarSize) /\ Window(one, two, next, ScalarSize)
      BY <1>3, <1>5
    <2>3. next = offset + ScalarSize
      OBVIOUS
    <2>2. ScalarSize \in Nat
      BY <1>2
    <2> HIDE DEF next
    <2>4. Joined(dst, one, two, offset, ScalarSize)
      BY <2>1, <2>2, <2>3, WindowsJoin
    <2> QED
      BY <2>4 DEF Joined
  <1>9. BnGetNumber(two, offset, ScalarSize) = sig.r
    <2>1. Unsigned(offset + ScalarSize) = offset + ScalarSize
      BY <1>2, UnsignedSmall
    <2>2. Slice(one, offset, ScalarSize) = Slice(two, offset, ScalarSize)
      <3> DEFINE s == Slice(one, offset, ScalarSize)
                 t == Slice(two, offset, ScalarSize)
      <3>1. /\ s \in Seq(AllBytes) /\ Len(s) = ScalarSize
            /\ \A i \in 1..ScalarSize : s[i] = one[offset + i]
        BY <1>2, <1>4, <1>8, SliceIs
      <3>2. /\ t \in Seq(AllBytes) /\ Len(t) = ScalarSize
            /\ \A i \in 1..ScalarSize : t[i] = two[offset + i]
        BY <1>2, <1>6, <1>8, SliceIs
      <3> HIDE DEF s, t
      <3>3. s = t
        BY <1>8, <3>1, <3>2, SeqEqual
      <3> QED
        BY <3>3 DEF s, t
    <2>3. Len(one) \in Nat /\ Len(two) \in Nat
      BY <1>4, <1>6
    <2>4. /\ ~(Unsigned(offset + ScalarSize) > Len(one))
          /\ ~(Unsigned(offset + ScalarSize) > Len(two))
      BY <1>2, <1>8, <2>1, <2>3
    <2> QED
      BY <1>3, <2>2, <2>4 DEF BnGetNumber
  <1>10. sig.r # Null /\ sig.s # Null
    BY <1>1, ScalarFacts
  <1>11. \A e : SignatureDeserialize(e, two, offset, 2) = [code |-> 0, sig |-> sig]
    BY <1>1, <1>5, <1>9, <1>10 DEF SignatureDeserialize
  <1> QED
    BY <1>2, <1>7, <1>8, <1>11

(* What is read of a stream is a key or nothing, and was written in the one *)
(* way it can be.  A signature of which only the challenge was copied is    *)
(* neither.                                                                 *)
LEMMA ScalarReads ==
    ASSUME NEW src \in Seq(AllBytes), NEW offset \in Nat, offset + ScalarSize < UintModulus,
           NEW d, NEW copied \in Nat,
           NEW read, read = PrivKeyDeserialize(d, src, offset, copied)
    PROVE  /\ read.code # 0 => read.key = d
           /\ read.code = 0 => read.key \in Scalars /\ PrivKeySerialize(src, offset, read.key) = src
  <1> DEFINE v == BnGetNumber(src, offset, ScalarSize)
  <1>1. ScalarSize \in Nat /\ Scalars = 0..(Power(Byte, ScalarSize) - 1)
    BY ScalarFacts
  <1>2. CASE v = Null \/ copied < 1
    <2>1. read = [code |-> -1, key |-> d]
      BY <1>2 DEF PrivKeyDeserialize
    <2> QED
      BY <2>1
  <1>3. CASE ~(v = Null \/ copied < 1)
    <2>1. offset + ScalarSize <= Len(src) /\ BnSetNumber(src, offset, ScalarSize, v) = src
      BY <1>1, <1>3, WritesRead
    <2>2. v \in Scalars
      BY <1>1, <2>1, GetReads
    <2>3. read = [code |-> 0, key |-> v]
      BY <1>3 DEF PrivKeyDeserialize
    <2> HIDE DEF v
    <2> QED
      BY <2>1, <2>2, <2>3 DEF PrivKeySerialize
  <1> QED
    BY <1>2, <1>3

PointRead(src, offset, P, copied) ==
    LET read == PubKeyDeserialize(P, src, offset, copied)
    IN  /\ read.code # 0 => read.key = P
        /\ read.code = 0 => read.key \in Points /\ PubKeySerialize(src, offset, read.key, TRUE) = src

LEMMA PointReads ==
    ASSUME NEW src \in Seq(AllBytes), NEW offset \in Nat, offset + PubKeySize < UintModulus,
           NEW P, NEW copied \in Nat
    PROVE  PointRead(src, offset, P, copied)
  <1> SUFFICES ASSUME NEW read, read = PubKeyDeserialize(P, src, offset, copied)
               PROVE  /\ read.code # 0 => read.key = P
                      /\ read.code = 0 =>
                           read.key \in Points /\ PubKeySerialize(src, offset, read.key, TRUE) = src
    BY DEF PointRead
  <1> DEFINE v == BnGetNumber(src, offset, PubKeySize)
             Q == PointGetNumber(src, offset, PubKeySize)
  <1>1. PubKeySize \in Nat
    BY PointFacts
  <1>2. CASE Q = Null \/ copied < 1
    <2>1. read = [code |-> -1, key |-> P]
      BY <1>2 DEF PubKeyDeserialize
    <2> QED
      BY <2>1
  <1>3. CASE ~(Q = Null \/ copied < 1)
    <2>1. v # Null /\ Q = Bn2point(v)
      BY <1>3 DEF PointGetNumber
    <2>2. offset + PubKeySize <= Len(src) /\ BnSetNumber(src, offset, PubKeySize, v) = src
      BY <1>1, <2>1, WritesRead
    <2>3. v \in 0..(Power(Byte, PubKeySize) - 1)
      BY <1>1, <2>2, GetReads
    <2>4. v \in Nat
      <3>1. Power(Byte, PubKeySize) \in Nat
        BY <1>1, BytePower
      <3> QED
        BY <2>3, <3>1
    <2> HIDE DEF v
    <2>5. Q \in Points /\ Point2bn(Q) = v
      BY <1>3, <2>1, <2>4, NumberOfPoint
    <2>6. read = [code |-> 0, key |-> Q]
      BY <1>3 DEF PubKeyDeserialize
    <2> HIDE DEF Q
    <2>7. PubKeySerialize(src, offset, Q, TRUE) = src
      BY <2>2, <2>5 DEF PubKeySerialize, PointSetNumber
    <2>8. read.code = 0 /\ read.key = Q
      BY <2>6
    <2> QED
      BY <2>5, <2>7, <2>8
  <1> QED
    BY <1>2, <1>3

LEMMA SignatureReads ==
    ASSUME NEW src \in Seq(AllBytes), NEW offset \in Nat, offset + SignatureSize < UintModulus,
           NEW sig \in Signatures, NEW copied \in Nat,
           NEW read, read = SignatureDeserialize(sig, src, offset, copied),
           NEW whole, whole = SignatureDeserialize(sig, src, offset, 2)
    PROVE  /\ read.code # 0 => \/ read.sig = sig
                               \/ /\ copied = 1 /\ whole.code = 0
                                  /\ read.sig = [r |-> whole.sig.r, s |-> sig.s]
           /\ read.code = 0 => read.sig \in Signatures /\ SignatureSerialize(src, offset, read.sig) = src
           /\ read.sig \in Signatures /\ (read.code = 0 => read = whole)
  <1> DEFINE r == BnGetNumber(src, offset, ScalarSize)
             next == offset + ScalarSize
             s == BnGetNumber(src, next, ScalarSize)
  <1>1. /\ ScalarSize \in Nat /\ Scalars = 0..(Power(Byte, ScalarSize) - 1)
        /\ next \in Nat /\ next < UintModulus /\ next + ScalarSize < UintModulus
    BY ScalarFacts, BytesAssumption DEF SignatureSize
  <1>2. sig.r \in Scalars /\ sig.s \in Scalars /\ sig = [r |-> sig.r, s |-> sig.s]
    BY DEF Signatures
  <1>3. CASE r = Null \/ s = Null \/ copied < 1
    <2>1. read = [code |-> -1, sig |-> sig]
      BY <1>3 DEF SignatureDeserialize
    <2> QED
      BY <2>1
  <1>4. ASSUME ~(r = Null \/ s = Null)
        PROVE  /\ r \in Scalars /\ s \in Scalars /\ [r |-> r, s |-> s] \in Signatures
               /\ whole = [code |-> 0, sig |-> [r |-> r, s |-> s]]
               /\ SignatureSerialize(src, offset, [r |-> r, s |-> s]) = src
    <2>1. offset + ScalarSize <= Len(src) /\ BnSetNumber(src, offset, ScalarSize, r) = src
      BY <1>1, <1>4, WritesRead
    <2>2. r \in Scalars
      BY <1>1, <2>1, GetReads
    <2>3. whole = [code |-> 0, sig |-> [r |-> r, s |-> s]]
      BY <1>4 DEF SignatureDeserialize
    <2>4. SignatureSerialize(src, offset, [r |-> r, s |-> s])
          = BnSetNumber(BnSetNumber(src, offset, ScalarSize, r), next, ScalarSize, s)
      BY DEF SignatureSerialize
    <2> HIDE DEF next
    <2>5. next + ScalarSize <= Len(src) /\ BnSetNumber(src, next, ScalarSize, s) = src
      BY <1>1, <1>4, WritesRead
    <2>6. s \in Scalars
      BY <1>1, <2>5, GetReads
    <2> HIDE DEF r, s
    <2>7. SignatureSerialize(src, offset, [r |-> r, s |-> s]) = src
      BY <2>1, <2>4, <2>5
    <2> QED
      BY <2>2, <2>3, <2>6, <2>7 DEF Signatures
  <1>5. CASE ~(r = Null \/ s = Null \/ copied < 1) /\ copied < 2
    <2>1. read = [code |-> -1, sig |-> [sig EXCEPT !.r = r]] /\ copied = 1
      BY <1>5 DEF SignatureDeserialize
    <2>2. /\ r \in Scalars /\ whole = [code |-> 0, sig |-> [r |-> r, s |-> s]]
      BY <1>4, <1>5
    <2> HIDE DEF r, s
    <2>3. [sig EXCEPT !.r = r] = [r |-> r, s |-> sig.s]
      BY <1>2
    <2>4. read.code = -1 /\ read.sig = [r |-> r, s |-> sig.s] /\ whole.code = 0 /\ whole.sig.r = r
      BY <2>1, <2>2, <2>3
    <2> QED
      BY <1>2, <2>1, <2>2, <2>4 DEF Signatures
  <1>6. CASE ~(r = Null \/ s = Null \/ copied < 1) /\ ~(copied < 2)
    <2>1. read = [code |-> 0, sig |-> [r |-> r, s |-> s]]
      BY <1>6 DEF SignatureDeserialize
    <2>2. /\ [r |-> r, s |-> s] \in Signatures
          /\ SignatureSerialize(src, offset, [r |-> r, s |-> s]) = src
          /\ whole = [code |-> 0, sig |-> [r |-> r, s |-> s]]
      BY <1>4, <1>6
    <2> HIDE DEF r, s
    <2>3. read.code = 0 /\ read.sig = [r |-> r, s |-> s] /\ read = whole
      BY <2>1, <2>2
    <2> QED
      BY <2>2, <2>3
  <1> QED
    BY <1>3, <1>5, <1>6

-----------------------------------------------------------------------------
(* Plain numbers in a stream. *)

(* The sum of the digits' worths is the number that they make.              *)
LEMMA SumOfBytes ==
    ASSUME NEW n \in Nat, NEW s \in [1..n -> AllBytes]
    PROVE  FoldLeft(+, 0, [i \in 1..n |-> s[i] * Power(Byte, n - i)]) = Bin2bn(s)
  <1>1. PICK h : Reads(h, s, n)
    BY ReadsExist
  <1>2. h \in [0..n -> Nat] /\ h[0] = 0 /\ \A k \in 1..n : h[k] = h[k - 1] * Byte + s[k]
    BY <1>1 DEF Reads
  <1>3. Bin2bn(s) = h[n]
    BY <1>2, Horner
  <1>4. Byte \in Nat /\ \A i \in 1..n : s[i] \in Nat
    BY ByteType DEF AllBytes
  <1>5. \A i \in 0..n : Power(Byte, n - i) \in Nat
    <2> SUFFICES ASSUME NEW i \in 0..n
                 PROVE  Power(Byte, n - i) \in Nat
      OBVIOUS
    <2>1. n - i \in Nat
      OBVIOUS
    <2> QED
      BY <2>1, BytePower
  <1> DEFINE t == [i \in 1..n |-> s[i] * Power(Byte, n - i)]
             g == [i \in 0..n |-> h[i] * Power(Byte, n - i)]
  <1>6. t \in [1..n -> Nat]
    <2> SUFFICES ASSUME NEW i \in 1..n
                 PROVE  s[i] * Power(Byte, n - i) \in Nat
      OBVIOUS
    <2>1. s[i] \in Nat /\ Power(Byte, n - i) \in Nat
      BY <1>4, <1>5
    <2> QED
      BY <2>1
  <1>7. g \in [0..n -> Nat]
    <2> SUFFICES ASSUME NEW i \in 0..n
                 PROVE  h[i] * Power(Byte, n - i) \in Nat
      OBVIOUS
    <2>1. h[i] \in Nat /\ Power(Byte, n - i) \in Nat
      BY <1>2, <1>5
    <2> QED
      BY <2>1
  <1>8. g[0] = 0
    <2>1. Power(Byte, n - 0) \in Nat
      BY <1>5
    <2>2. g[0] = h[0] * Power(Byte, n - 0)
      OBVIOUS
    <2> HIDE DEF g
    <2> QED
      BY <1>2, <2>1, <2>2
  <1>9. ASSUME NEW k \in 1..n
        PROVE  g[k] = g[k - 1] + t[k]
    <2> DEFINE p == Power(Byte, n - k)
               a == h[k - 1]
               b == s[k]
    <2>1. n - k \in Nat /\ (n - k) + 1 = n - (k - 1) /\ k - 1 \in 0..n /\ k \in 0..n
      OBVIOUS
    <2>2. Power(Byte, n - (k - 1)) = Byte * p /\ p \in Nat
      BY <2>1, BytePower
    <2>3. a \in Nat /\ b \in Nat
      BY <1>2, <1>4, <2>1
    <2>4. g[k] = (a * Byte + b) * p /\ g[k - 1] = a * (Byte * p) /\ t[k] = b * p
      BY <1>2, <2>1, <2>2
    <2> HIDE DEF p, a, b, g, t
    <2>5. (a * Byte + b) * p = a * (Byte * p) + b * p
      BY <1>4, <2>2, <2>3
    <2> QED
      BY <2>4, <2>5
  <1>10. g[n] = h[n]
    <2>1. n - n = 0 /\ n \in 0..n /\ Power(Byte, 0) = 1 /\ h[n] \in Nat
      BY <1>2, BytePower
    <2>2. g[n] = h[n] * Power(Byte, n - n)
      OBVIOUS
    <2> HIDE DEF g
    <2> QED
      BY <2>1, <2>2
  <1> HIDE DEF g, t
  <1>11. FoldLeft(+, 0, t) = g[n]
    BY <1>6, <1>7, <1>8, <1>9, Sums
  <1> QED
    BY <1>3, <1>10, <1>11 DEF t

LEMMA NumberReads ==
    ASSUME NEW src \in Seq(AllBytes), NEW offset \in Nat, NEW len \in Nat,
           offset + len < UintModulus, offset + len <= Len(src)
    PROVE  GetNumber(src, offset, len) = Bin2bn(Slice(src, offset, len))
  <1> DEFINE s == Slice(src, offset, len)
  <1>1. s \in [1..len -> AllBytes] /\ \A i \in 1..len : s[i] = src[offset + i]
    BY SliceIs
  <1> HIDE DEF s
  <1>2. [i \in 1..len |-> src[offset + i] * Power(Byte, len - i)]
        = [i \in 1..len |-> s[i] * Power(Byte, len - i)]
    BY <1>1
  <1>3. FoldLeft(+, 0, [i \in 1..len |-> s[i] * Power(Byte, len - i)]) = Bin2bn(s)
    BY <1>1, SumOfBytes
  <1>4. Unsigned(offset + len) = offset + len /\ offset + len \in Nat /\ Len(src) \in Nat
    <2>1. offset + len \in Nat
      OBVIOUS
    <2> QED
      BY <2>1, UnsignedSmall
  <1>5. ~(Unsigned(offset + len) > Len(src))
    BY <1>4
  <1>6. GetNumber(src, offset, len)
        = FoldLeft(+, 0, [i \in 1..len |-> src[offset + i] * Power(Byte, len - i)])
    BY <1>5 DEF GetNumber
  <1> QED
    BY <1>2, <1>3, <1>6 DEF s

(* A number is written where its offset is no further than the end, and is  *)
(* refused, or has no bytes, beyond it.                                     *)
LEMMA NumberSets ==
    ASSUME NEW dst \in Seq(AllBytes), NEW offset \in Nat, NEW len \in Nat,
           Len(dst) < UintModulus, offset + len < UintModulus,
           NEW value \in 0..(Power(Byte, len) - 1),
           NEW set, set = SetNumber(dst, offset, value, len)
    PROVE  /\ offset <= Len(dst) =>
                set.exn = "none" /\ Written(dst, set.stream, offset, BigEndian(value, len))
           /\ offset > Len(dst) => set.stream = dst /\ (len > 0 => set.exn # "none")
  <1> DEFINE available == Unsigned(Len(dst) - offset)
             room == IF available < len THEN Resize(dst, Len(dst) + len - available) ELSE dst
             bs == BigEndian(value, len)
  <1>1. /\ Len(dst) \in Nat /\ UintModulus \in Nat \ {0}
        /\ Power(Byte, len) \in Nat
    BY BytesAssumption, BytePower
  <1>2. bs \in Seq(AllBytes) /\ Len(bs) = len
    <2>1. value \in Nat
      BY <1>1
    <2> QED
      BY <2>1, BigEndianType
  <1>3. set = IF len > 0 /\ offset >= Len(room) THEN [exn |-> "out_of_range", stream |-> dst]
              ELSE [exn |-> "none", stream |-> Place(room, offset, bs)]
    BY DEF SetNumber
  <1> HIDE DEF bs
  <1>4. CASE offset <= Len(dst)
    <2>1. available = Len(dst) - offset
      <3> DEFINE n == Len(dst) - offset
      <3>1. n \in Nat /\ n < UintModulus
        BY <1>1, <1>4
      <3> HIDE DEF n
      <3>2. Unsigned(n) = n
        BY <3>1, UnsignedSmall
      <3> QED
        BY <3>2 DEF n
    <2> HIDE DEF available
    <2>2. room = IF Len(dst) >= offset + Len(bs) THEN dst
                 ELSE dst \o Zeros(offset + Len(bs) - Len(dst))
      <3>1. CASE Len(dst) >= offset + len
        BY <1>1, <1>2, <2>1, <3>1
      <3>2. CASE Len(dst) < offset + len
        <4>1. available < len /\ Len(dst) + len - available = offset + len
          BY <1>1, <2>1, <3>2
        <4>2. ~(offset + len <= Len(dst))
          BY <1>1, <3>2
        <4>3. room = Resize(dst, offset + len)
          BY <4>1
        <4> HIDE DEF room
        <4>4. room = dst \o Zeros(offset + len - Len(dst))
          BY <4>2, <4>3 DEF Resize
        <4> QED
          BY <1>1, <1>2, <3>2, <4>4
      <3> QED
        BY <1>1, <3>1, <3>2
    <2> HIDE DEF room
    <2>3. Written(dst, Place(room, offset, bs), offset, bs)
      BY <1>2, <2>2, PlaceWrites
    <2>4. Len(Place(room, offset, bs)) >= offset + len
      <3>1. Len(Place(room, offset, bs)) = IF Len(dst) >= offset + len THEN Len(dst) ELSE offset + len
        BY <1>2, <2>3 DEF Written
      <3> QED
        BY <1>1, <3>1
    <2>5. Len(room) = Len(Place(room, offset, bs))
      <3>1. Len(room) \in Nat
        <4>1. CASE Len(dst) >= offset + len
          BY <1>1, <1>2, <2>2, <4>1
        <4>2. CASE Len(dst) < offset + len
          <5> DEFINE z == offset + len - Len(dst)
          <5>1. z \in Nat /\ room = dst \o Zeros(z)
            BY <1>1, <1>2, <2>2, <4>2
          <5> HIDE DEF z
          <5>2. Zeros(z) \in Seq(Nat) /\ dst \in Seq(Nat)
            BY <5>1, ByteType DEF Zeros, AllBytes
          <5> DEFINE zs == Zeros(z)
          <5> HIDE DEF zs
          <5>3. zs \in Seq(Nat) /\ room = dst \o zs
            BY <5>1, <5>2 DEF zs
          <5>4. room \in Seq(Nat)
            BY <5>2, <5>3
          <5> QED
            BY <5>4
        <4> QED
          BY <1>1, <4>1, <4>2
      <3> DEFINE f == Place(room, offset, bs)
      <3>2. f = [i \in 1..Len(room) |->
                    IF i \in (offset + 1)..(offset + Len(bs)) THEN bs[i - offset] ELSE room[i]]
        BY DEF Place
      <3>3. DOMAIN f = 1..Len(room)
        <4> HIDE DEF f
        <4> QED
          BY <3>2
      <3>4. f \in Seq(AllBytes)
        BY <2>3 DEF Written
      <3> HIDE DEF f
      <3>5. Len(f) = Len(room)
        BY <3>1, <3>3, <3>4
      <3> QED
        BY <3>5 DEF f
    <2>6. ~(len > 0 /\ offset >= Len(room))
      <3> DEFINE n == Len(Place(room, offset, bs))
      <3>1. n \in Nat
        BY <2>3 DEF Written
      <3>2. n >= offset + len /\ Len(room) = n
        BY <2>4, <2>5
      <3> HIDE DEF n
      <3> QED
        BY <3>1, <3>2
    <2>7. set = [exn |-> "none", stream |-> Place(room, offset, bs)]
      BY <1>3, <2>6
    <2>8. set.exn = "none" /\ Written(dst, set.stream, offset, bs)
      BY <2>3, <2>7
    <2>9. ~(offset > Len(dst))
      BY <1>1, <1>4
    <2> QED
      BY <2>8, <2>9 DEF bs
  <1>5. CASE offset > Len(dst)
    <2>1. available \in Nat /\ available >= len
      <3> DEFINE r == UintModulus + (Len(dst) - offset)
      <3>1. r \in 0..(UintModulus - 1) /\ r >= len
        BY <1>1, <1>5
      <3>2. Len(dst) - offset = (-1) * UintModulus + r /\ Len(dst) - offset \in Int /\ -1 \in Int
        BY <1>1
      <3> HIDE DEF r
      <3>3. (Len(dst) - offset) % UintModulus = r
        <4> DEFINE n == Len(dst) - offset
                   q == -1
        <4>1. n \in Int /\ q \in Int /\ n = q * UintModulus + r
          BY <3>2
        <4> HIDE DEF n, q
        <4>2. n % UintModulus = r
          BY <1>1, <3>1, <4>1, RemainderIs
        <4> QED
          BY <4>2 DEF n
      <3> QED
        BY <1>1, <3>1, <3>3 DEF Unsigned
    <2> HIDE DEF available
    <2>2. room = dst
      BY <2>1
    <2> HIDE DEF room
    <2>3. offset >= Len(room)
      BY <1>1, <1>5, <2>2
    <2>4. CASE len > 0
      <3>1. set = [exn |-> "out_of_range", stream |-> dst]
        BY <1>3, <2>3, <2>4
      <3>2. ~(offset <= Len(dst))
        BY <1>1, <1>5
      <3> QED
        BY <3>1, <3>2
    <2>5. CASE len = 0
      <3>1. set = [exn |-> "none", stream |-> Place(dst, offset, bs)]
        BY <1>3, <2>2, <2>5
      <3> DEFINE f == Place(dst, offset, bs)
      <3>2. f = [i \in 1..Len(dst) |->
                    IF i \in (offset + 1)..(offset + Len(bs)) THEN bs[i - offset] ELSE dst[i]]
        BY DEF Place
      <3>3. \A i \in 1..Len(dst) : i \notin (offset + 1)..(offset + Len(bs))
        BY <1>1, <1>2, <2>5
      <3> HIDE DEF f
      <3>4. f = [i \in 1..Len(dst) |-> dst[i]]
        BY <3>2, <3>3
      <3>5. f \in [1..Len(dst) -> AllBytes]
        BY <3>4
      <3>6. f \in Seq(AllBytes) /\ Len(f) = Len(dst)
        BY <1>1, <3>5
      <3>7. f = dst
        BY <3>4, <3>6, SeqEqual
      <3>8. ~(offset <= Len(dst)) /\ ~(len > 0)
        BY <1>1, <1>5, <2>5
      <3> QED
        BY <3>1, <3>7, <3>8 DEF f
    <2> QED
      BY <2>4, <2>5
  <1> QED
    BY <1>1, <1>4, <1>5

-----------------------------------------------------------------------------
(* Hexadecimal strings. *)

(* A byte is two digits. *)
LEMMA TwoDigits ==
    ASSUME NEW b \in AllBytes
    PROVE  /\ b \div Digit \in 0..(Digit - 1) /\ b % Digit \in 0..(Digit - 1)
           /\ (b \div Digit) * Digit + (b % Digit) = b
  <1> DEFINE q == b \div Digit
             r == b % Digit
  <1>1. Digit \in Nat \ {0} /\ b \in Nat /\ b < Digit * Digit
    BY ByteType DEF AllBytes, Byte
  <1>2. q \in Nat /\ r \in 0..(Digit - 1) /\ b = q * Digit + r
    BY <1>1, Euclid
  <1> HIDE DEF q, r
  <1>3. q < Digit
    <2> SUFFICES ASSUME q >= Digit
                 PROVE  FALSE
      BY <1>1, <1>2
    <2>1. q * Digit >= Digit * Digit
      BY <1>1, <1>2
    <2> DEFINE p == q * Digit
               d == Digit * Digit
    <2>2. p \in Nat /\ d \in Nat /\ b = p + r /\ b < d /\ p >= d
      BY <1>1, <1>2, <2>1
    <2> HIDE DEF p, d
    <2> QED
      BY <1>1, <1>2, <2>2
  <1>4. q \in 0..(Digit - 1)
    BY <1>1, <1>2, <1>3
  <1> QED
    BY <1>2, <1>4, Zenon DEF q, r

(* What hex writes, pair by pair. *)
LEMMA HexDigits ==
    ASSUME NEW s \in Seq(AllBytes)
    PROVE  /\ HexOf(s) \in [1..(2 * Len(s)) -> 0..(Digit - 1)] /\ Len(HexOf(s)) = 2 * Len(s)
           /\ \A i \in 1..Len(s) : /\ HexOf(s)[2 * i - 1] = s[i] \div Digit
                                   /\ HexOf(s)[2 * i] = s[i] % Digit
  <1> DEFINE n == Len(s)
             hex(i) == IF i % 2 = 1 THEN s[(i + 1) \div 2] \div Digit ELSE s[i \div 2] % Digit
  <1>1. n \in Nat /\ \A i \in 1..n : s[i] \in AllBytes
    OBVIOUS
  <1> HIDE DEF n
  <1>2. ASSUME NEW i \in 1..(2 * n)
        PROVE  hex(i) \in 0..(Digit - 1)
    <2>1. CASE i % 2 = 1
      <3>1. (i + 1) \div 2 \in 1..n
        BY <1>1
      <3> QED
        BY <1>1, <2>1, <3>1, TwoDigits
    <2>2. CASE i % 2 # 1
      <3>1. i \div 2 \in 1..n
        BY <1>1, <2>2
      <3> QED
        BY <1>1, <2>2, <3>1, TwoDigits
    <2> QED
      BY <2>1, <2>2
  <1>3. HexOf(s) = [i \in 1..(2 * n) |-> hex(i)]
    BY DEF HexOf, n
  <1>4. ASSUME NEW i \in 1..n
        PROVE  HexOf(s)[2 * i - 1] = s[i] \div Digit /\ HexOf(s)[2 * i] = s[i] % Digit
    <2>1. /\ 2 * i - 1 \in 1..(2 * n) /\ 2 * i \in 1..(2 * n)
          /\ (2 * i - 1) % 2 = 1 /\ ((2 * i - 1) + 1) \div 2 = i
          /\ (2 * i) % 2 = 0 /\ (2 * i) \div 2 = i
      BY <1>1
    <2> QED
      BY <1>3, <2>1
  <1> HIDE DEF hex
  <1>5. HexOf(s) \in [1..(2 * n) -> 0..(Digit - 1)]
    BY <1>2, <1>3
  <1>6. Len(HexOf(s)) = 2 * n
    BY <1>1, <1>5
  <1> QED
    BY <1>4, <1>5, <1>6 DEF n

(* unhex stops at the first pair that is none.                              *)
Stops(str, len, pairs) ==
    /\ str \in [1..len -> Int] /\ pairs \in 0..(len \div 2)
    /\ \A i \in 1..(2 * pairs) : str[i] # NonHex
    /\ 2 * pairs + 2 <= len => \E i \in 1..(2 * pairs + 2) : str[i] = NonHex

LEMMA Unhex ==
    ASSUME NEW len \in Nat, NEW str, NEW pairs, Stops(str, len, pairs)
    PROVE  HexStrToUint8Vec(str) = [ok |-> 2 * pairs = len,
                                    out |-> [i \in 1..pairs |->
                                       DigitValue(str[2 * i - 1]) * Digit + DigitValue(str[2 * i])]]
  <1> DEFINE good == {n \in 0..(len \div 2) : \A i \in 1..(2 * n) : str[i] # NonHex}
  <1>1. Len(str) = len
    BY DEF Stops
  <1>2. pairs \in good
    BY DEF Stops
  <1>3. ASSUME NEW n \in good
        PROVE  pairs >= n /\ n \in Int
    <2> SUFFICES ASSUME n > pairs
                 PROVE  FALSE
      BY DEF Stops
    <2>1. n \in Nat /\ 2 * n <= len /\ n >= pairs + 1 /\ pairs \in Nat
      BY DEF Stops
    <2>2. 2 * pairs + 2 <= len /\ 1..(2 * pairs + 2) \subseteq 1..(2 * n)
      BY <2>1
    <2> QED
      BY <2>2 DEF Stops
  <1> HIDE DEF good
  <1>4. Max(good) = pairs
    BY <1>2, <1>3, MaxIs
  <1> QED
    BY <1>1, <1>4 DEF HexStrToUint8Vec, good

(* A digit in upper case is taken for its value.                            *)
LEMMA DigitRead ==
    ASSUME NEW c \in 0..(Digit - 1)
    PROVE  DigitValue(c) = c
  BY ByteType DEF DigitValue

(* What hex writes unhex reads; a character less, or another one, fails.    *)
LEMMA HexBack ==
    ASSUME NEW s \in Seq(AllBytes)
    PROVE  /\ HexStrToUint8Vec(HexOf(s)) = [ok |-> TRUE, out |-> s]
           /\ ~HexStrToUint8Vec(Append(HexOf(s), 0)).ok
           /\ ~HexStrToUint8Vec(<<NonHex, 0>> \o HexOf(s)).ok
  <1> DEFINE n == Len(s)
             h == HexOf(s)
             a == Append(h, 0)
             c == <<NonHex, 0>> \o h
  <1>1. n \in Nat /\ s = [i \in 1..n |-> s[i]] /\ \A i \in 1..n : s[i] \in AllBytes
    OBVIOUS
  <1>2. /\ h \in [1..(2 * n) -> 0..(Digit - 1)] /\ Len(h) = 2 * n
        /\ \A i \in 1..n : h[2 * i - 1] = s[i] \div Digit /\ h[2 * i] = s[i] % Digit
    BY HexDigits
  <1>3. Digit \in Nat \ {0, 1} /\ NonHex = -1 /\ h \in Seq(Int)
    <2>1. Digit \in Nat \ {0, 1} /\ NonHex = -1
      BY ByteType DEF NonHex
    <2> HIDE DEF h, n
    <2>2. 2 * n \in Nat /\ h \in [1..(2 * n) -> Int]
      BY <1>1, <1>2, <2>1
    <2> QED
      BY <2>1, <2>2
  <1> HIDE DEF n, h
  <1>4. \A i \in 1..(2 * n) : h[i] \in Int /\ h[i] # NonHex
    <2> SUFFICES ASSUME NEW i \in 1..(2 * n)
                 PROVE  h[i] \in Int /\ h[i] # NonHex
      OBVIOUS
    <2>1. h[i] \in 0..(Digit - 1)
      BY <1>2
    <2> QED
      BY <1>3, <2>1
  <1>5. HexStrToUint8Vec(h) = [ok |-> TRUE, out |-> s]
    <2>1. 2 * n \in Nat /\ (2 * n) \div 2 = n /\ n \in 0..((2 * n) \div 2)
      BY <1>1
    <2>2. h \in [1..(2 * n) -> Int]
      BY <1>2, <1>4
    <2>3. ~(2 * n + 2 <= 2 * n)
      BY <1>1
    <2>4. HexStrToUint8Vec(h) = [ok |-> 2 * n = 2 * n, out |-> [i \in 1..n |-> DigitValue(h[2 * i - 1]) * Digit + DigitValue(h[2 * i])]]
      <3>1. Stops(h, 2 * n, n)
        BY <1>4, <2>1, <2>2, <2>3 DEF Stops
      <3> QED
        BY <2>1, <3>1, Unhex
    <2>5. ASSUME NEW i \in 1..n
          PROVE  DigitValue(h[2 * i - 1]) * Digit + DigitValue(h[2 * i]) = s[i]
      <3>1. /\ h[2 * i - 1] = s[i] \div Digit /\ h[2 * i] = s[i] % Digit /\ s[i] \in AllBytes
        BY <1>1, <1>2
      <3>2. /\ h[2 * i - 1] \in 0..(Digit - 1) /\ h[2 * i] \in 0..(Digit - 1)
            /\ h[2 * i - 1] * Digit + h[2 * i] = s[i]
        BY <3>1, TwoDigits
      <3> QED
        BY <3>2, DigitRead
    <2>6. [i \in 1..n |-> DigitValue(h[2 * i - 1]) * Digit + DigitValue(h[2 * i])] = s
      BY <1>1, <2>5
    <2> QED
      BY <2>4, <2>6
  <1>6. ~HexStrToUint8Vec(a).ok
    <2> DEFINE len == 2 * n + 1
    <2>1. len \in Nat /\ len \div 2 = n /\ n \in 0..(len \div 2) /\ 2 * n # len /\ ~(2 * n + 2 <= len)
      BY <1>1
    <2>2. Len(a) = len /\ \A i \in 1..(2 * n) : a[i] = h[i]
      BY <1>1, <1>2, <1>3
    <2>3. a \in [1..len -> Int]
      <3>1. a \in Seq(Int)
        BY <1>3
      <3> HIDE DEF a, len
      <3> QED
        BY <2>2, <3>1
    <2> HIDE DEF a, len
    <2>4. \A i \in 1..(2 * n) : a[i] # NonHex
      BY <1>4, <2>2
    <2>5. HexStrToUint8Vec(a) = [ok |-> 2 * n = len, out |-> [i \in 1..n |-> DigitValue(a[2 * i - 1]) * Digit + DigitValue(a[2 * i])]]
      <3>1. Stops(a, len, n)
        BY <2>1, <2>3, <2>4 DEF Stops
      <3> QED
        BY <2>1, <3>1, Unhex
    <2> DEFINE out == [i \in 1..n |-> DigitValue(a[2 * i - 1]) * Digit + DigitValue(a[2 * i])]
               all == (2 * n = len)
    <2>6. all = FALSE
      BY <2>1
    <2>7. HexStrToUint8Vec(a) = [ok |-> all, out |-> out]
      BY <2>5
    <2> HIDE DEF all, out
    <2>8. HexStrToUint8Vec(a) = [ok |-> FALSE, out |-> out]
      BY <2>6, <2>7
    <2> QED
      BY <2>8
  <1>7. ~HexStrToUint8Vec(c).ok
    <2> DEFINE len == 2 * n + 2
    <2>1. len \in Nat /\ 0 \in 0..(len \div 2) /\ 2 * 0 # len /\ 2 * 0 + 2 = 2
      BY <1>1
    <2>2. Len(c) = len /\ c[1] = NonHex
      BY <1>1, <1>2, <1>3
    <2>3. c \in [1..len -> Int]
      <3>1. <<NonHex, 0>> \in Seq(Int)
        BY <1>3
      <3>2. c \in Seq(Int)
        BY <1>3, <3>1
      <3> HIDE DEF c, len
      <3> QED
        BY <2>2, <3>2
    <2> HIDE DEF c, len
    <2>4. /\ \A i \in 1..(2 * 0) : c[i] # NonHex
          /\ \E i \in 1..(2 * 0 + 2) : c[i] = NonHex
      BY <2>2
    <2>5. HexStrToUint8Vec(c) = [ok |-> 2 * 0 = len, out |-> [i \in 1..0 |-> DigitValue(c[2 * i - 1]) * Digit + DigitValue(c[2 * i])]]
      <3>1. Stops(c, len, 0)
        BY <2>1, <2>3, <2>4 DEF Stops
      <3> QED
        BY <2>1, <3>1, Unhex
    <2> DEFINE out == [i \in 1..0 |-> DigitValue(c[2 * i - 1]) * Digit + DigitValue(c[2 * i])]
               all == (2 * 0 = len)
    <2>6. all = FALSE
      BY <2>1
    <2>7. HexStrToUint8Vec(c) = [ok |-> all, out |-> out]
      BY <2>5
    <2> HIDE DEF all, out
    <2>8. HexStrToUint8Vec(c) = [ok |-> FALSE, out |-> out]
      BY <2>6, <2>7
    <2> QED
      BY <2>8
  <1> QED
    BY <1>5, <1>6, <1>7 DEF h

(* The string in lower case reads the same.                                 *)
LEMMA LowerHexBack ==
    ASSUME NEW s \in Seq(AllBytes)
    PROVE  HexStrToUint8Vec(LowerCase(HexOf(s))) = [ok |-> TRUE, out |-> s]
  <1> DEFINE n == Len(s)
             h == HexOf(s)
             c == LowerCase(h)
  <1>1. n \in Nat /\ s = [i \in 1..n |-> s[i]] /\ \A i \in 1..n : s[i] \in AllBytes
    OBVIOUS
  <1>2. /\ h \in [1..(2 * n) -> 0..(Digit - 1)] /\ Len(h) = 2 * n
        /\ \A i \in 1..n : h[2 * i - 1] = s[i] \div Digit /\ h[2 * i] = s[i] % Digit
    BY HexDigits
  <1>3. Digit \in Nat \ {0, 1} /\ NonHex = -1 /\ Decimals \in 1..Digit
    BY BytesAssumption DEF NonHex
  <1> HIDE DEF n, h
  <1>4. c = [i \in 1..(2 * n) |-> IF h[i] < Decimals THEN h[i] ELSE h[i] + Digit]
    BY <1>2 DEF LowerCase
  <1>5. ASSUME NEW i \in 1..(2 * n)
        PROVE  c[i] \in Int /\ c[i] # NonHex /\ DigitValue(c[i]) = h[i]
    <2>1. h[i] \in 0..(Digit - 1) /\ c[i] = IF h[i] < Decimals THEN h[i] ELSE h[i] + Digit
      BY <1>2, <1>4
    <2> DEFINE d == h[i]
               e == c[i]
    <2>2. d \in 0..(Digit - 1) /\ e = IF d < Decimals THEN d ELSE d + Digit
      BY <2>1
    <2> HIDE DEF d, e
    <2>3. e \in Int /\ e # NonHex /\ (IF e < Digit THEN e ELSE e - Digit) = d
      BY <1>3, <2>2
    <2> QED
      BY <2>3 DEF DigitValue, d, e
  <1> DEFINE len == 2 * n
  <1>6. len \in Nat /\ n \in 0..(len \div 2) /\ ~(len + 2 <= len)
    BY <1>1
  <1>7. c \in [1..len -> Int]
    <2> HIDE DEF c
    <2> QED
      BY <1>4, <1>5
  <1> HIDE DEF c
  <1>8. Stops(c, len, n)
    BY <1>5, <1>6, <1>7 DEF Stops
  <1>9. HexStrToUint8Vec(c) = [ok |-> 2 * n = len,
                               out |-> [i \in 1..n |-> DigitValue(c[2 * i - 1]) * Digit + DigitValue(c[2 * i])]]
    BY <1>6, <1>8, Unhex
  <1>10. ASSUME NEW i \in 1..n
         PROVE  DigitValue(c[2 * i - 1]) * Digit + DigitValue(c[2 * i]) = s[i]
    <2>1. 2 * i - 1 \in 1..(2 * n) /\ 2 * i \in 1..(2 * n)
      BY <1>1
    <2>2. DigitValue(c[2 * i - 1]) = s[i] \div Digit /\ DigitValue(c[2 * i]) = s[i] % Digit
      BY <1>2, <1>5, <2>1
    <2>3. (s[i] \div Digit) * Digit + (s[i] % Digit) = s[i]
      BY <1>1, TwoDigits
    <2> QED
      BY <2>2, <2>3
  <1>11. [i \in 1..n |-> DigitValue(c[2 * i - 1]) * Digit + DigitValue(c[2 * i])] = s
    BY <1>1, <1>10
  <1> QED
    BY <1>9, <1>11 DEF c, h

(* A byte counts as two digits in every power. *)
LEMMA HexPower ==
    ASSUME NEW k \in Nat
    PROVE  Power(Byte, k) = Power(Digit, 2 * k)
  <1> DEFINE S == {m \in Nat : Power(Byte, m) = Power(Digit, 2 * m)}
  <1>1. /\ Digit \in Int /\ Byte \in Int /\ Byte = Digit * Digit
        /\ Power(Byte, 0) = 1 /\ Power(Digit, 0) = 1
        /\ \A m \in Nat : /\ Power(Byte, m + 1) = Byte * Power(Byte, m)
                          /\ Power(Digit, m + 1) = Digit * Power(Digit, m)
                          /\ Power(Digit, m) \in Int
    BY ByteType, PowerLaw, PowerInt DEF Byte
  <1>2. 0 \in S
    <2>1. 2 * 0 = 0
      OBVIOUS
    <2> QED
      BY <1>1, <2>1
  <1>3. ASSUME NEW m \in Nat, m \in S
        PROVE  m + 1 \in S
    <2> DEFINE l == 2 * m
    <2>1. l \in Nat /\ l + 1 \in Nat /\ 2 * (m + 1) = (l + 1) + 1 /\ Power(Byte, m) = Power(Digit, l)
      BY <1>3
    <2> HIDE DEF l
    <2>2. /\ Power(Digit, (l + 1) + 1) = Digit * (Digit * Power(Digit, l))
          /\ Power(Digit, l) \in Int
      BY <1>1, <2>1
    <2>3. Power(Byte, m + 1) = (Digit * Digit) * Power(Digit, l)
      BY <1>1, <2>1
    <2> DEFINE p == Power(Digit, l)
    <2>4. p \in Int
      BY <2>2
    <2> HIDE DEF p
    <2>5. (Digit * Digit) * p = Digit * (Digit * p)
      BY <1>1, <2>4
    <2>6. Power(Byte, m + 1) = Power(Digit, 2 * (m + 1))
      BY <2>1, <2>2, <2>3, <2>5 DEF p
    <2> QED
      BY <2>6
  <1> HIDE DEF S
  <1>4. Nat \subseteq S
    BY <1>2, <1>3, SetInduction
  <1> QED
    BY <1>4 DEF S

(* The two digits of the last byte of a number.                             *)
LEMMA LastDigits ==
    ASSUME NEW u \in Nat
    PROVE  (u % Byte) \div Digit = (u \div Digit) % Digit /\ (u % Byte) % Digit = u % Digit
  <1> DEFINE d == Digit
             q == u \div d
             r == u % d
             p == q \div d
             t == q % d
             b == t * d + r
  <1>1. d \in Nat \ {0, 1} /\ Byte = d * d /\ Byte \in Nat \ {0}
    BY ByteType DEF Byte
  <1> HIDE DEF d
  <1>2. q \in Nat /\ r \in 0..(d - 1) /\ u = q * d + r
    BY <1>1, Euclid
  <1> HIDE DEF q
  <1>3. p \in Nat /\ t \in 0..(d - 1) /\ q = p * d + t
    BY <1>1, <1>2, Euclid
  <1> HIDE DEF r, p, t
  <1>4. u = p * Byte + b
    <2>1. q * d = p * (d * d) + t * d
      BY <1>1, <1>3
    <2> DEFINE e == p * (d * d)
               f == t * d
               g == q * d
    <2>2. e \in Int /\ f \in Int /\ g = e + f /\ u = g + r /\ r \in Int
      BY <1>1, <1>2, <1>3, <2>1
    <2> HIDE DEF e, f, g
    <2>3. u = e + (f + r)
      BY <2>2
    <2> QED
      BY <1>1, <2>3 DEF e, f
  <1>5. b \in 0..(Byte - 1)
    <2>1. t * d <= (d - 1) * d /\ t * d \in Nat
      BY <1>1, <1>3
    <2>2. (d - 1) * d = d * d - d
      BY <1>1
    <2> DEFINE f == t * d
               g == (d - 1) * d
    <2>3. f \in Nat /\ f <= g /\ g = Byte - d /\ Byte \in Nat
      BY <1>1, <2>1, <2>2
    <2> HIDE DEF f, g
    <2>4. f + r \in 0..(Byte - 1)
      BY <1>1, <1>2, <2>3
    <2> QED
      BY <2>4 DEF f
  <1>6. b \div d = t /\ b % d = r
    <2> HIDE DEF b
    <2>1. b = t * d + r
      BY DEF b
    <2>2. b \in Int /\ t \in Int /\ d \in Nat \ {0}
      BY <1>1, <1>3, <1>5
    <2> QED
      BY <1>2, <2>1, <2>2, RemainderIs
  <1> HIDE DEF b
  <1>7. u % Byte = b
    <2>1. Byte \in Nat \ {0} /\ u \in Int /\ b \in 0..(Byte - 1) /\ p \in Int /\ u = p * Byte + b
      BY <1>1, <1>3, <1>4, <1>5
    <2> QED
      BY <2>1, RemainderIs
  <1> QED
    BY <1>6, <1>7 DEF d, r, t, q

(* The digits of the bytes of a number are the digits of the number.        *)
LEMMA HexOfNumber ==
    ASSUME NEW v \in Nat, NEW size \in Nat
    PROVE  HexOf(BigEndian(v, size))
           = [i \in 1..(2 * size) |-> (v \div Power(Digit, 2 * size - i)) % Digit]
  <1> DEFINE bs == BigEndian(v, size)
             digit(i) == (v \div Power(Digit, 2 * size - i)) % Digit
  <1>1. bs \in Seq(AllBytes) /\ Len(bs) = size
    <2>1. bs \in [1..size -> AllBytes] /\ Len(bs) = size
      BY BigEndianType
    <2> HIDE DEF bs
    <2> QED
      BY <2>1
  <1>2. /\ HexOf(bs) \in [1..(2 * size) -> 0..(Digit - 1)]
        /\ \A i \in 1..size : /\ HexOf(bs)[2 * i - 1] = bs[i] \div Digit
                              /\ HexOf(bs)[2 * i] = bs[i] % Digit
    BY <1>1, HexDigits
  <1>3. ASSUME NEW j \in 1..size
        PROVE  HexOf(bs)[2 * j - 1] = digit(2 * j - 1) /\ HexOf(bs)[2 * j] = digit(2 * j)
    <2> DEFINE k == 2 * size - 2 * j
               m == 2 * size - (2 * j - 1)
               p == Power(Digit, k)
               u == v \div p
    <2>1. k \in Nat /\ 2 * (size - j) = k /\ size - j \in Nat /\ m = k + 1
      OBVIOUS
    <2>2. bs[j] = (v \div Power(Byte, size - j)) % Byte
      BY DEF BigEndian
    <2> HIDE DEF k, m
    <2>3. Power(Byte, size - j) = p
      BY <2>1, HexPower
    <2>4. p \in Nat \ {0} /\ Digit \in Nat \ {0}
      BY <2>1, ByteType, PowerPositive
    <2>5. Power(Digit, m) = p * Digit
      <3>1. Power(Digit, k + 1) = Digit * p
        BY <2>1, ByteType, PowerLaw
      <3> HIDE DEF p
      <3> QED
        BY <2>1, <2>4, <3>1
    <2> HIDE DEF p
    <2>6. u \in Nat
      BY <2>4, Euclid
    <2>7. u \div Digit = v \div (p * Digit)
      BY <2>4, DivTwice
    <2>8. bs[j] = u % Byte
      BY <2>2, <2>3
    <2> HIDE DEF u, bs
    <2>9. bs[j] \div Digit = (u \div Digit) % Digit /\ bs[j] % Digit = u % Digit
      BY <2>6, <2>8, LastDigits
    <2> QED
      BY <1>2, <2>5, <2>7, <2>9 DEF u, p, k, m
  <1> HIDE DEF digit
  <1>4. ASSUME NEW i \in 1..(2 * size)
        PROVE  HexOf(bs)[i] = digit(i)
    <2>1. CASE i % 2 = 1
      <3>1. (i + 1) \div 2 \in 1..size /\ i = 2 * ((i + 1) \div 2) - 1
        BY <2>1
      <3> QED
        BY <1>3, <3>1
    <2>2. CASE i % 2 # 1
      <3>1. i \div 2 \in 1..size /\ i = 2 * (i \div 2)
        BY <2>2
      <3> QED
        BY <1>3, <3>1
    <2> QED
      BY <2>1, <2>2
  <1> HIDE DEF bs
  <1>5. HexOf(bs) = [i \in 1..(2 * size) |-> digit(i)]
    BY <1>2, <1>4
  <1> QED
    BY <1>5 DEF bs, digit

(* std::hex with its padding: the digits of the bytes, in lower case.        *)
LEMMA HexIsNumber ==
    ASSUME NEW size \in Nat \ {0}, NEW v \in 0..(Power(Byte, size) - 1)
    PROVE  IntegerToHexString(v, size) = LowerCase(HexOf(BigEndian(v, size)))
  <1> DEFINE len == 2 * size
             Fits(n) == v < Power(Digit, n) /\ (n = 1 \/ Power(Digit, n - 1) <= v)
             n == CHOOSE n \in 1..(v + 1) : Fits(n)
             digit(i) == (v \div Power(Digit, len - i)) % Digit
             shown == [i \in 1..n |-> (v \div Power(Digit, n - i)) % Digit]
             r == IF n < len THEN Zeros(len - n) \o shown ELSE shown
  <1>1. /\ v \in Nat /\ len \in Nat /\ len >= 2 /\ v < Power(Digit, len) /\ Digit \in Nat \ {0, 1}
    <2>1. Power(Byte, size) \in Nat
      BY BytePower
    <2> QED
      BY <2>1, HexPower, ByteType
  <1>2. \A k \in Nat : Power(Digit, k) \in Nat \ {0}
    BY <1>1, PowerPositive
  <1>3. /\ \A k \in Nat : k < Power(Digit, k)
        /\ \A k, l \in Nat : k <= l => Power(Digit, k) <= Power(Digit, l)
    BY <1>1, PowerGrows
  <1> HIDE DEF len
  <1>4. \E k \in 1..(v + 1) : Fits(k)
    <2> DEFINE T == {k \in Nat : k # 0 /\ v < Power(Digit, k)}
    <2>1. v + 1 \in T
      <3>1. v + 1 \in Nat /\ v + 1 # 0
        BY <1>1
      <3>2. v + 1 < Power(Digit, v + 1) /\ Power(Digit, v + 1) \in Nat
        BY <1>2, <1>3, <3>1
      <3> QED
        BY <1>1, <3>1, <3>2
    <2>2. PICK m \in T : \A k \in T : m <= k
      BY <2>1, LeastNumber
    <2>3. m \in 1..(v + 1) /\ v < Power(Digit, m)
      BY <1>1, <2>1, <2>2
    <2>4. m = 1 \/ Power(Digit, m - 1) <= v
      <3> SUFFICES ASSUME m # 1
                   PROVE  Power(Digit, m - 1) <= v
        OBVIOUS
      <3>1. m - 1 \in Nat /\ m - 1 # 0 /\ ~(m <= m - 1)
        BY <2>3
      <3>2. m - 1 \notin T
        BY <2>2, <3>1
      <3>3. ~(v < Power(Digit, m - 1))
        BY <3>1, <3>2
      <3> QED
        BY <1>1, <1>2, <3>1, <3>3
    <2> QED
      BY <2>3, <2>4
  <1> HIDE DEF Fits
  <1>5. n \in 1..(v + 1) /\ Fits(n)
    BY <1>4
  <1>6. IntegerToHexString(v, size) = LowerCase(r)
    BY DEF IntegerToHexString, Fits, len
  <1> HIDE DEF n
  <1>7. n \in Nat /\ n >= 1 /\ n <= len /\ v < Power(Digit, n)
    <2>1. n \in Nat /\ n >= 1 /\ v < Power(Digit, n) /\ (n = 1 \/ Power(Digit, n - 1) <= v)
      BY <1>5 DEF Fits
    <2>2. ASSUME n > len
          PROVE  FALSE
      <3>1. n - 1 \in Nat /\ len <= n - 1 /\ n # 1
        BY <1>1, <2>1, <2>2
      <3>2. Power(Digit, len) <= Power(Digit, n - 1) /\ Power(Digit, n - 1) <= v
        BY <1>1, <1>3, <2>1, <3>1
      <3>3. Power(Digit, len) \in Nat /\ Power(Digit, n - 1) \in Nat
        BY <1>1, <1>2, <3>1
      <3> QED
        BY <1>1, <3>2, <3>3
    <2> QED
      BY <1>1, <2>1, <2>2
  <1> DEFINE z == len - n
  <1>8. ASSUME NEW i \in 1..len, i <= z
        PROVE  digit(i) = 0
    <2> DEFINE p == Power(Digit, len - i)
    <2>1. len - i \in Nat /\ n <= len - i
      BY <1>1, <1>7, <1>8
    <2>2. v < p /\ p \in Nat \ {0}
      BY <1>1, <1>2, <1>3, <1>7, <2>1
    <2> HIDE DEF p
    <2>3. v \div p = 0
      BY <1>1, <2>2
    <2>4. 0 % Digit = 0
      BY <1>1
    <2> QED
      BY <2>3, <2>4 DEF p
  <1>9. ASSUME NEW i \in 1..len, i > z
        PROVE  i - z \in 1..n /\ shown[i - z] = digit(i)
    <2>1. i - z \in 1..n /\ n - (i - z) = len - i
      BY <1>1, <1>7, <1>9
    <2> QED
      BY <2>1
  <1>10. shown \in Seq(Int) /\ Len(shown) = n
    <2>1. ASSUME NEW i \in 1..n
          PROVE  (v \div Power(Digit, n - i)) % Digit \in Int
      <3>1. n - i \in Nat
        BY <1>7
      <3>2. Power(Digit, n - i) \in Nat \ {0}
        BY <1>2, <3>1
      <3> HIDE DEF n
      <3>3. v \div Power(Digit, n - i) \in Nat
        BY <1>1, <3>2, Euclid
      <3> QED
        BY <1>1, <3>3, Euclid
    <2> QED
      BY <1>7, <2>1
  <1> HIDE DEF shown, digit
  <1>11. r = [i \in 1..len |-> digit(i)]
    <2>1. CASE n < len
      <3> DEFINE zs == Zeros(z)
                 t == zs \o shown
      <3>1. z \in Nat /\ z + n = len
        BY <1>1, <1>7
      <3>2. zs \in Seq(Int) /\ Len(zs) = z /\ \A i \in 1..z : zs[i] = 0
        BY <3>1 DEF Zeros
      <3> HIDE DEF zs, z
      <3>3. t \in Seq(Int) /\ Len(t) = len /\ \A i \in 1..len : t[i] = IF i <= z THEN zs[i] ELSE shown[i - z]
        BY <1>7, <1>10, <3>1, <3>2
      <3> HIDE DEF t
      <3>4. ASSUME NEW i \in 1..len
            PROVE  t[i] = digit(i)
        <4>1. CASE i <= z
          <5>1. i \in 1..z
            BY <4>1
          <5> QED
            BY <1>8, <3>2, <3>3, <4>1, <5>1
        <4>2. CASE ~(i <= z)
          <5>1. i > z
            BY <3>1, <4>2
          <5> QED
            BY <1>9, <3>3, <4>2, <5>1
        <4> QED
          BY <4>1, <4>2
      <3>5. t = [i \in 1..len |-> digit(i)]
        BY <3>3, <3>4
      <3> QED
        BY <2>1, <3>5 DEF t, zs, z
    <2>2. CASE ~(n < len)
      <3>1. z = 0 /\ n = len
        BY <1>1, <1>7, <2>2
      <3> HIDE DEF z
      <3>2. \A i \in 1..len : i > z /\ i - z = i
        BY <3>1
      <3>3. \A i \in 1..len : shown[i] = digit(i)
        BY <1>9, <3>2
      <3>4. shown = [i \in 1..len |-> digit(i)]
        BY <1>10, <3>1, <3>3
      <3> QED
        BY <2>2, <3>4
    <2> QED
      BY <2>1, <2>2
  <1>12. HexOf(BigEndian(v, size)) = [i \in 1..len |-> digit(i)]
    BY <1>1, HexOfNumber DEF digit, len
  <1> HIDE DEF r
  <1> QED
    BY <1>6, <1>11, <1>12

(* Two bytes, and four, as numbers.                                         *)
LEMMA TwoBytes ==
    ASSUME NEW src \in Seq(AllBytes), NEW offset \in Nat,
           offset + 2 <= Len(src), offset + 2 < UintModulus
    PROVE  /\ GetNumber(src, offset, 2) = src[offset + 1] * Byte + src[offset + 2]
           /\ src[offset + 1] \in Nat /\ src[offset + 2] \in Nat
           /\ GetNumber(src, offset, 2) \in 0..(Byte * Byte - 1)
  <1> DEFINE s == Slice(src, offset, 2)
             g == [k \in 0..2 |-> IF k = 0 THEN 0 ELSE IF k = 1 THEN s[1] ELSE s[1] * Byte + s[2]]
  <1>1. GetNumber(src, offset, 2) = Bin2bn(s)
    BY NumberReads
  <1>2. s \in [1..2 -> AllBytes] /\ s[1] = src[offset + 1] /\ s[2] = src[offset + 2]
    <2> DEFINE size == 2
    <2>1. size \in Nat /\ offset + size <= Len(src)
      OBVIOUS
    <2> HIDE DEF size
    <2>2. /\ Slice(src, offset, size) \in [1..size -> AllBytes]
          /\ \A i \in 1..size : Slice(src, offset, size)[i] = src[offset + i]
      BY <2>1, SliceIs
    <2>3. s \in [1..2 -> AllBytes] /\ \A i \in 1..2 : s[i] = src[offset + i]
      BY <2>2 DEF size
    <2> HIDE DEF s
    <2> QED
      BY <2>3
  <1> HIDE DEF s
  <1>3. Byte \in Nat /\ AllBytes \subseteq Nat /\ s[1] \in AllBytes /\ s[2] \in AllBytes
    BY <1>2, ByteType DEF AllBytes
  <1> DEFINE m == s[1]
             l == s[2]
  <1>4. /\ m \in Nat /\ l \in Nat /\ m <= Byte - 1 /\ l <= Byte - 1
        /\ m * Byte + l \in Nat
    <2>1. m \in Nat /\ l \in Nat /\ m <= Byte - 1 /\ l <= Byte - 1
      BY <1>3 DEF AllBytes
    <2> HIDE DEF m, l
    <2> QED
      BY <1>3, <2>1
  <1>5. g \in [0..2 -> Nat] /\ g[0] = 0 /\ \A k \in 1..2 : g[k] = g[k - 1] * Byte + s[k]
    <2>1. g[0] = 0 /\ g[1] = s[1] /\ g[2] = s[1] * Byte + s[2]
      OBVIOUS
    <2>2. g \in [0..2 -> Nat]
      BY <1>3, <1>4
    <2> HIDE DEF g
    <2>3. g[1] = g[0] * Byte + s[1] /\ g[2] = g[1] * Byte + s[2]
      <3>1. 0 * Byte + m = m
        BY <1>3, <1>4
      <3> QED
        BY <2>1, <3>1
    <2>4. \A k \in 1..2 : k = 1 \/ k = 2
      OBVIOUS
    <2>5. 1 - 1 = 0 /\ 2 - 1 = 1
      OBVIOUS
    <2> QED
      BY <2>1, <2>2, <2>3, <2>4, <2>5
  <1> HIDE DEF g
  <1>6. Bin2bn(s) = g[2]
    BY <1>2, <1>5, Horner
  <1>7. Bin2bn(s) = s[1] * Byte + s[2]
    BY <1>6 DEF g
  <1>8. s[1] * Byte + s[2] \in 0..(Byte * Byte - 1)
    <2> DEFINE p == m * Byte
               q == (Byte - 1) * Byte
               size == Byte * Byte
    <2> HIDE DEF m, l
    <2>1. p <= q /\ q = size - Byte /\ p \in Nat /\ size \in Nat /\ Byte \in Nat
      BY <1>3, <1>4
    <2> HIDE DEF p, q, size
    <2>2. p + l \in 0..(size - 1)
      BY <1>4, <2>1
    <2> QED
      BY <2>2 DEF p, m, l, size
  <1> QED
    BY <1>1, <1>2, <1>4, <1>7, <1>8

LEMMA FourBytes ==
    ASSUME NEW src \in Seq(AllBytes), 4 <= Len(src), 4 < UintModulus
    PROVE  GetNumber(src, 0, 4)
           = ((src[1] * Byte + src[2]) * Byte + src[3]) * Byte + src[4]
  <1> DEFINE s == Slice(src, 0, 4)
             g1 == s[1]
             g2 == g1 * Byte + s[2]
             g3 == g2 * Byte + s[3]
             g4 == g3 * Byte + s[4]
             g == [k \in 0..4 |-> IF k = 0 THEN 0 ELSE IF k = 1 THEN g1 ELSE IF k = 2 THEN g2
                                  ELSE IF k = 3 THEN g3 ELSE g4]
  <1>1. GetNumber(src, 0, 4) = Bin2bn(s)
    BY NumberReads
  <1>2. /\ s \in [1..4 -> AllBytes] /\ s[1] = src[1] /\ s[2] = src[2]
        /\ s[3] = src[3] /\ s[4] = src[4]
    <2> DEFINE size == 4
               offset == 0
    <2>1. size \in Nat /\ offset \in Nat /\ offset + size <= Len(src)
      OBVIOUS
    <2> HIDE DEF size, offset
    <2>2. /\ Slice(src, offset, size) \in [1..size -> AllBytes]
          /\ \A i \in 1..size : Slice(src, offset, size)[i] = src[offset + i]
      BY <2>1, SliceIs
    <2>3. s \in [1..4 -> AllBytes] /\ \A i \in 1..4 : s[i] = src[0 + i]
      BY <2>2 DEF size, offset
    <2>4. 0 + 1 = 1 /\ 0 + 2 = 2 /\ 0 + 3 = 3 /\ 0 + 4 = 4
      OBVIOUS
    <2> HIDE DEF s
    <2> QED
      BY <2>3, <2>4
  <1> HIDE DEF s
  <1>3. /\ Byte \in Nat /\ s[1] \in Nat /\ s[2] \in Nat /\ s[3] \in Nat /\ s[4] \in Nat
    <2>1. Byte \in Nat /\ AllBytes \subseteq Nat
      BY ByteType DEF AllBytes
    <2>2. s[1] \in AllBytes /\ s[2] \in AllBytes /\ s[3] \in AllBytes /\ s[4] \in AllBytes
      BY <1>2
    <2> QED
      BY <2>1, <2>2
  <1>4. g1 \in Nat /\ g2 \in Nat
    <2>1. g1 \in Nat
      BY <1>3
    <2> HIDE DEF g1
    <2> QED
      BY <1>3, <2>1
  <1>5. g3 \in Nat
    <2> HIDE DEF g2
    <2> QED
      BY <1>3, <1>4
  <1>6. g4 \in Nat
    <2> HIDE DEF g3
    <2> QED
      BY <1>3, <1>5
  <1>7. g \in [0..4 -> Nat] /\ g[0] = 0 /\ \A k \in 1..4 : g[k] = g[k - 1] * Byte + s[k]
    <2>1. 0 * Byte + s[1] = g1
      BY <1>3
    <2>2. /\ g2 = g1 * Byte + s[2] /\ g3 = g2 * Byte + s[3] /\ g4 = g3 * Byte + s[4]
      OBVIOUS
    <2> HIDE DEF g1, g2, g3, g4
    <2>3. g[0] = 0 /\ g[1] = g1 /\ g[2] = g2 /\ g[3] = g3 /\ g[4] = g4
      OBVIOUS
    <2>4. g \in [0..4 -> Nat]
      BY <1>4, <1>5, <1>6
    <2> HIDE DEF g
    <2>5. /\ g[1] = g[0] * Byte + s[1] /\ g[2] = g[1] * Byte + s[2]
          /\ g[3] = g[2] * Byte + s[3] /\ g[4] = g[3] * Byte + s[4]
      BY <2>1, <2>2, <2>3
    <2>6. \A k \in 1..4 : k = 1 \/ k = 2 \/ k = 3 \/ k = 4
      OBVIOUS
    <2>7. 1 - 1 = 0 /\ 2 - 1 = 1 /\ 3 - 1 = 2 /\ 4 - 1 = 3
      OBVIOUS
    <2> QED
      BY <2>3, <2>4, <2>5, <2>6, <2>7
  <1>8. g[4] = g4
    OBVIOUS
  <1> HIDE DEF g
  <1>9. Bin2bn(s) = g[4]
    BY <1>2, <1>7, Horner
  <1> QED
    BY <1>1, <1>2, <1>8, <1>9

(* Two halves of a number, packed and unpacked.                             *)
LEMMA Packed ==
    ASSUME NEW src \in Seq(AllBytes), 4 <= Len(src), 4 < UintModulus,
           NEW n, n = Pack(GetNumber(src, 0, 2), GetNumber(src, 2, 2))
    PROVE  n = GetNumber(src, 0, 4) /\ UnpackA(n) * Power(Byte, 2) + UnpackB(n) = n
  <1> DEFINE a == GetNumber(src, 0, 2)
             b == GetNumber(src, 2, 2)
             m == Power(Byte, 2)
  <1>1. Byte \in Nat /\ m = Byte * Byte /\ m \in Nat \ {0}
    <2>1. /\ Byte \in Nat /\ 1 + 1 = 2 /\ 0 + 1 = 1 /\ Power(Byte, 0) = 1
          /\ Power(Byte, 0 + 1) = Byte * Power(Byte, 0)
          /\ Power(Byte, 1 + 1) = Byte * Power(Byte, 1)
          /\ m \in Nat \ {0}
      BY BytePower, ByteType
    <2> QED
      BY <2>1
  <1>2. /\ a = src[1] * Byte + src[2] /\ b = src[3] * Byte + src[4] /\ a \in Nat /\ b \in Nat
        /\ src[1] \in Nat /\ src[2] \in Nat /\ src[3] \in Nat /\ src[4] \in Nat
    <2>1. /\ 0 + 2 <= Len(src) /\ 2 + 2 <= Len(src) /\ 0 + 2 < UintModulus /\ 2 + 2 < UintModulus
          /\ 0 + 1 = 1 /\ 0 + 2 = 2 /\ 2 + 1 = 3 /\ 2 + 2 = 4
      BY BytesAssumption
    <2>2. /\ a = src[0 + 1] * Byte + src[0 + 2] /\ src[0 + 1] \in Nat /\ src[0 + 2] \in Nat
          /\ b = src[2 + 1] * Byte + src[2 + 2] /\ src[2 + 1] \in Nat /\ src[2 + 2] \in Nat
      BY <2>1, TwoBytes
    <2>3. a \in 0..(Byte * Byte - 1) /\ b \in 0..(Byte * Byte - 1)
      BY <2>1, TwoBytes
    <2>4. a \in Nat /\ b \in Nat
      BY <1>1, <2>3
    <2> HIDE DEF a, b
    <2> QED
      BY <2>1, <2>2, <2>4
  <1>3. n = a * m + b
    BY DEF Pack
  <1> HIDE DEF a, b, m
  <1>4. n = GetNumber(src, 0, 4)
    <2> DEFINE s1 == src[1]
               s2 == src[2]
               s3 == src[3]
               s4 == src[4]
    <2>1. GetNumber(src, 0, 4) = ((s1 * Byte + s2) * Byte + s3) * Byte + s4
      BY FourBytes
    <2>2. a = s1 * Byte + s2 /\ b = s3 * Byte + s4
          /\ s1 \in Nat /\ s2 \in Nat /\ s3 \in Nat /\ s4 \in Nat
      BY <1>2
    <2> HIDE DEF s1, s2, s3, s4
    <2>3. (s1 * Byte + s2) * (Byte * Byte) + (s3 * Byte + s4)
          = ((s1 * Byte + s2) * Byte + s3) * Byte + s4
      BY <1>1, <2>2
    <2> QED
      BY <1>1, <1>3, <2>1, <2>2, <2>3
  <1>5. n \in Nat
    <2>1. a \in Nat /\ b \in Nat /\ m \in Nat
      BY <1>1, <1>2
    <2> QED
      BY <1>3, <2>1
  <1>6. UnpackA(n) * m + UnpackB(n) = n
    BY <1>1, <1>5, Euclid DEF UnpackA, UnpackB, m
  <1> QED
    BY <1>4, <1>6 DEF m

(* bytes::resize makes the length what it is told. *)
LEMMA ResizeLength ==
    ASSUME NEW s \in Seq(AllBytes), NEW n \in Nat
    PROVE  Len(Resize(s, n)) = n
  <1> DEFINE k == Len(s)
  <1>1. k \in Nat
    OBVIOUS
  <1>2. CASE n <= k
    <2>1. 1 \in 1..(k + 1) /\ n \in (1 - 1)..k /\ n - 1 + 1 = n
      BY <1>1, <1>2
    <2>2. Len(SubSeq(s, 1, n)) = n
      BY <2>1, SubSeqProperties
    <2> QED
      BY <1>2, <2>2 DEF Resize
  <1>3. CASE ~(n <= k)
    <2> DEFINE z == n - k
    <2>1. z \in Nat /\ k + z = n
      BY <1>1, <1>3
    <2>2. Zeros(z) \in Seq(Nat) /\ Len(Zeros(z)) = z
      BY <2>1 DEF Zeros
    <2>3. s \in Seq(Nat)
      BY ByteType DEF AllBytes
    <2>4. Len(s \o Zeros(z)) = k + z
      BY <2>2, <2>3
    <2> QED
      BY <1>3, <2>1, <2>4 DEF Resize
  <1> QED
    BY <1>2, <1>3
=============================================================================
