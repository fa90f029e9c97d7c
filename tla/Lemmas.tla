------------------------------- MODULE Lemmas -------------------------------
(***************************************************************************)
(* What the proofs of several components rest on: induction on natural     *)
(* numbers with the property given as a set, the recursive function that a *)
(* fold of SequencesExt chooses, and the laws of powers and remainders.    *)
(***************************************************************************)
EXTENDS Powers, Sequences, SequencesExt, FiniteSetTheorems, TLAPS

-----------------------------------------------------------------------------
(* Induction. *)

LEMMA LeastNumber ==
    ASSUME NEW T \in SUBSET Nat, T # {}
    PROVE  \E m \in T : \A k \in T : m <= k
  <1>1. PICK m \in T : \A k \in T : ~(<<k, m>> \in OpToRel(<, Nat))
    BY NatLessThanWellFounded, WFMin, Zenon
  <1>2. \A k \in T : ~(k < m)
    BY <1>1, Zenon DEF OpToRel
  <1> QED
    BY <1>2

LEMMA SetInduction ==
    ASSUME NEW S, 0 \in S, \A n \in Nat : n \in S => n + 1 \in S
    PROVE  Nat \subseteq S
  <1> SUFFICES ASSUME Nat \ S # {}
               PROVE  FALSE
    OBVIOUS
  <1>1. PICK m \in Nat \ S : \A k \in Nat \ S : m <= k
    BY LeastNumber
  <1>2. m # 0
    BY <1>1
  <1>3. m - 1 \in Nat /\ m - 1 \in S
    BY <1>1, <1>2
  <1> QED
    BY <1>1, <1>3

-----------------------------------------------------------------------------
(* Folds: the iterations of a fold over a sequence run through the          *)
(* intervals 1..k.                                                          *)

LEMMA MaxIs ==
    ASSUME NEW T, NEW m \in T, \A k \in T : m >= k /\ k \in Int
    PROVE  Max(T) = m
  <1>1. \A k \in T : (\A l \in T : k >= l) => k = m
    OBVIOUS
  <1> QED
    BY <1>1 DEF Max

LEMMA MaxOfSubset ==
    ASSUME NEW n \in Nat, NEW T \in SUBSET (1..n), T # {}
    PROVE  Max(T) \in T /\ \A k \in T : Max(T) >= k
  <1> DEFINE D == {n - k : k \in T}
  <1>1. D \in SUBSET Nat /\ D # {}
    <2>1. \A k \in T : n - k \in Nat
      OBVIOUS
    <2> QED
      BY <2>1
  <1>2. PICK d \in D : \A e \in D : d <= e
    BY <1>1, LeastNumber
  <1>3. PICK m \in T : d = n - m
    OBVIOUS
  <1>4. \A k \in T : m >= k /\ k \in Int
    <2> SUFFICES ASSUME NEW k \in T
                 PROVE  m >= k /\ k \in Int
      OBVIOUS
    <2>1. k \in Int /\ m \in Int
      OBVIOUS
    <2>2. n - k \in D
      OBVIOUS
    <2> HIDE DEF D
    <2>3. n - m <= n - k
      BY <1>2, <1>3, <2>2
    <2> QED
      BY <2>1, <2>3
  <1>5. Max(T) = m
    BY <1>4, MaxIs
  <1> QED
    BY <1>4, <1>5

LEMMA MaxOfInterval ==
    ASSUME NEW k \in Nat \ {0}
    PROVE  Max(1..k) = k /\ (1..k) \ {k} = 1..(k - 1) /\ 1..k # {}
  <1>1. k \in 1..k /\ \A l \in 1..k : k >= l /\ l \in Int
    OBVIOUS
  <1>2. Max(1..k) = k
    BY <1>1, MaxIs
  <1>3. (1..k) \ {k} = 1..(k - 1) /\ 1..k # {}
    OBVIOUS
  <1> QED
    BY <1>2, <1>3

(* The iterations of a fold of seq, for all sets of positions; along the    *)
(* intervals, as far as they stay in Acc; and one position after the other. *)
Iterates(it, Acc, Step, base, n, seq) ==
    /\ it \in [SUBSET (1..n) -> Acc]
    /\ \A s \in SUBSET (1..n) :
          it[s] = IF s = {} THEN base ELSE Step[seq[Max(s)]][it[s \ {Max(s)}]]

Extends(it, Acc, Step, base, n, seq) ==
    /\ it[{}] = base
    /\ \A k \in 1..n : it[1..(k - 1)] \in Acc => it[1..k] = Step[seq[k]][it[1..(k - 1)]]

Accumulates(g, Acc, Step, base, n, seq) ==
    /\ g \in [0..n -> Acc] /\ g[0] = base
    /\ \A k \in 1..n : g[k] = Step[seq[k]][g[k - 1]]

(* The function that FoldLeft chooses exists, whatever step it iterates.    *)
LEMMA LeftFoldExists ==
    ASSUME NEW Acc, NEW Elem, NEW Step \in [Elem -> [Acc -> Acc]],
           NEW base \in Acc, NEW n \in Nat, NEW seq \in [1..n -> Elem]
    PROVE  \E it : Iterates(it, Acc, Step, base, n, seq)
  <1> DEFINE Value(it, s) == IF s = {} THEN base ELSE Step[seq[Max(s)]][it[s \ {Max(s)}]]
             Upto(k) == {s \in SUBSET (1..n) : s \subseteq 1..k}
             Good(k, it) == it \in [Upto(k) -> Acc] /\ \A s \in Upto(k) : it[s] = Value(it, s)
             S == {k \in Nat : \E it : Good(k, it)}
  <1>1. 0 \in S
    <2> DEFINE it == [s \in Upto(0) |-> base]
    <2>1. Upto(0) = {{}}
      OBVIOUS
    <2>2. Good(0, it)
      BY <2>1
    <2> QED
      BY <2>2
  <1>2. ASSUME NEW k \in Nat, k \in S
        PROVE  k + 1 \in S
    <2>1. PICK old : Good(k, old)
      BY <1>2
    <2> DEFINE it == [s \in Upto(k + 1) |->
                        IF k + 1 \in s THEN Step[seq[k + 1]][old[s \ {k + 1}]] ELSE old[s]]
    <2>2. \A s \in Upto(k + 1) : k + 1 \notin s => s \in Upto(k)
      OBVIOUS
    <2>3. \A s \in Upto(k + 1) : k + 1 \in s => s \ {k + 1} \in Upto(k) /\ k + 1 \in 1..n
      OBVIOUS
    <2>4. \A s \in Upto(k) : s \in Upto(k + 1) /\ k + 1 \notin s
      OBVIOUS
    <2>5. it \in [Upto(k + 1) -> Acc]
      <3>1. ASSUME NEW s \in Upto(k + 1)
            PROVE  (IF k + 1 \in s THEN Step[seq[k + 1]][old[s \ {k + 1}]] ELSE old[s]) \in Acc
        <4> HIDE DEF Upto, Value
        <4> QED
          BY <2>1, <2>2, <2>3
      <3> HIDE DEF Upto
      <3> QED
        BY <3>1
    <2>6. \A s \in Upto(k) : it[s] = old[s]
      <3> HIDE DEF Upto
      <3> QED
        BY <2>4
    <2>7. ASSUME NEW s \in Upto(k + 1)
          PROVE  it[s] = Value(it, s)
      <3>1. CASE k + 1 \in s
        <4>1. Max(s) = k + 1
          <5>1. \A l \in s : k + 1 >= l /\ l \in Int
            OBVIOUS
          <5> QED
            BY <3>1, <5>1, MaxIs
        <4>2. it[s] = Step[seq[k + 1]][old[s \ {k + 1}]]
          BY <3>1
        <4>3. it[s \ {k + 1}] = old[s \ {k + 1}]
          <5> HIDE DEF it, Upto
          <5> QED
            BY <2>3, <2>6, <3>1
        <4> HIDE DEF it, Upto
        <4> QED
          BY <3>1, <4>1, <4>2, <4>3
      <3>2. CASE k + 1 \notin s /\ s # {}
        <4>1. s \in Upto(k) /\ s \in SUBSET (1..n)
          BY <2>2, <3>2
        <4>2. Max(s) \in s
          BY <3>2, <4>1, MaxOfSubset
        <4>3. s \ {Max(s)} \in Upto(k)
          BY <4>1
        <4> HIDE DEF it, Upto
        <4>4. it[s] = old[s] /\ it[s \ {Max(s)}] = old[s \ {Max(s)}]
          BY <2>6, <4>1, <4>3
        <4>5. old[s] = Value(old, s)
          BY <2>1, <4>1
        <4> QED
          BY <3>2, <4>4, <4>5
      <3>3. CASE s = {}
        <4>1. s \in Upto(k) /\ k + 1 \notin s
          BY <3>3
        <4>2. old[s] = base
          BY <2>1, <3>3, <4>1
        <4> HIDE DEF it, Upto
        <4> QED
          BY <2>6, <3>3, <4>1, <4>2
      <3> QED
        BY <3>1, <3>2, <3>3
    <2>8. Good(k + 1, it)
      <3> HIDE DEF it, Upto, Value
      <3> QED
        BY <2>5, <2>7
    <2> HIDE DEF Good
    <2> QED
      BY <2>8
  <1>3. n \in S
    <2> HIDE DEF S
    <2> QED
      BY <1>1, <1>2, SetInduction
  <1>4. Upto(n) = SUBSET (1..n)
    OBVIOUS
  <1>5. PICK it : Good(n, it)
    BY <1>3
  <1>6. Iterates(it, Acc, Step, base, n, seq)
    BY <1>4, <1>5 DEF Iterates
  <1> QED
    BY <1>6

(* Iterations that follow the same equation agree on the intervals.         *)
LEMMA LeftFoldIntervals ==
    ASSUME NEW Acc, NEW Step, NEW base \in Acc, NEW n \in Nat, NEW seq, NEW it, NEW g,
           Extends(it, Acc, Step, base, n, seq), Accumulates(g, Acc, Step, base, n, seq)
    PROVE  it[1..n] = g[n]
  <1>0. /\ it[{}] = base
        /\ \A k \in 1..n : it[1..(k - 1)] \in Acc => it[1..k] = Step[seq[k]][it[1..(k - 1)]]
        /\ g \in [0..n -> Acc] /\ g[0] = base
        /\ \A k \in 1..n : g[k] = Step[seq[k]][g[k - 1]]
    BY DEF Extends, Accumulates
  <1> DEFINE S == {k \in Nat : k <= n => it[1..k] = g[k]}
  <1>1. 0 \in S
    <2>1. 1..0 = {}
      OBVIOUS
    <2> QED
      BY <1>0, <2>1
  <1>2. ASSUME NEW k \in Nat, k \in S
        PROVE  k + 1 \in S
    <2> SUFFICES ASSUME k + 1 <= n
                 PROVE  it[1..(k + 1)] = g[k + 1]
      OBVIOUS
    <2>1. k + 1 \in 1..n /\ (k + 1) - 1 = k /\ k \in 0..n
      OBVIOUS
    <2>2. it[1..k] = g[k] /\ g[k] \in Acc
      BY <1>0, <1>2, <2>1
    <2>3. it[1..(k + 1)] = Step[seq[k + 1]][it[1..k]]
      BY <1>0, <2>1, <2>2
    <2> QED
      BY <1>0, <2>1, <2>2, <2>3
  <1> HIDE DEF S
  <1>3. n \in S
    BY <1>1, <1>2, SetInduction
  <1> QED
    BY <1>3 DEF S

(* Folding with a function, as the values on the way.                       *)
FoldWith(Step, base, s) == FoldLeft(LAMBDA acc, e : Step[e][acc], base, s)

LEMMA FoldSteps ==
    ASSUME NEW Acc, NEW Elem, NEW Step \in [Elem -> [Acc -> Acc]], NEW base \in Acc,
           NEW n \in Nat, NEW s \in [1..n -> Elem]
    PROVE  \E g : Accumulates(g, Acc, Step, base, n, s) /\ FoldWith(Step, base, s) = g[n]
  <1> DEFINE iter == CHOOSE iter : iter = [S \in SUBSET (DOMAIN s) |->
                        IF S = {} THEN base ELSE Step[s[Max(S)]][iter[S \ {Max(S)}]]]
  <1>1. FoldWith(Step, base, s) = iter[DOMAIN s]
    BY DEF FoldWith, FoldLeft, MapThenFoldSet
  <1> HIDE DEF iter
  <1>2. PICK it : Iterates(it, Acc, Step, base, n, s)
    BY LeftFoldExists
  <1>3. it = [S \in SUBSET (DOMAIN s) |->
                 IF S = {} THEN base ELSE Step[s[Max(S)]][it[S \ {Max(S)}]]]
    BY <1>2 DEF Iterates
  <1>4. iter = [S \in SUBSET (DOMAIN s) |->
                   IF S = {} THEN base ELSE Step[s[Max(S)]][iter[S \ {Max(S)}]]]
    BY <1>3 DEF iter
  <1>5. \A k \in 1..n : /\ 1..k \in SUBSET (DOMAIN s) /\ 1..k # {}
                        /\ Max(1..k) = k /\ (1..k) \ {k} = 1..(k - 1)
    <2> TAKE k \in 1..n
    <2>1. k \in Nat \ {0} /\ 1..k \in SUBSET (DOMAIN s)
      OBVIOUS
    <2> QED
      BY <2>1, MaxOfInterval
  <1>6. ASSUME NEW k \in 1..n
        PROVE  iter[1..k] = Step[s[k]][iter[1..(k - 1)]] /\ it[1..k] = Step[s[k]][it[1..(k - 1)]]
    <2>1. PICK S \in SUBSET (DOMAIN s) : S = 1..k
      BY <1>5
    <2>2. S # {} /\ Max(S) = k /\ S \ {Max(S)} = 1..(k - 1)
      BY <1>5, <2>1
    <2>3. iter[S] = Step[s[Max(S)]][iter[S \ {Max(S)}]] /\ it[S] = Step[s[Max(S)]][it[S \ {Max(S)}]]
      BY <1>3, <1>4, <2>2
    <2> QED
      BY <2>1, <2>2, <2>3
  <1>7. iter[{}] = base /\ it[{}] = base
    BY <1>3, <1>4
  <1>8. PICK g : g = [k \in 0..n |-> it[1..k]]
    OBVIOUS
  <1>9. Accumulates(g, Acc, Step, base, n, s)
    <2>1. \A k \in 0..n : it[1..k] \in Acc
      <3>1. \A k \in 0..n : 1..k \in SUBSET (1..n)
        OBVIOUS
      <3> QED
        BY <1>2, <3>1 DEF Iterates
    <2>2. g \in [0..n -> Acc]
      BY <1>8, <2>1
    <2>3. g[0] = base
      <3>1. 1..0 = {} /\ 0 \in 0..n
        OBVIOUS
      <3> QED
        BY <1>7, <1>8, <3>1
    <2>4. \A k \in 1..n : g[k] = Step[s[k]][g[k - 1]]
      <3>1. \A k \in 1..n : k \in 0..n /\ k - 1 \in 0..n
        OBVIOUS
      <3> QED
        BY <1>6, <1>8, <3>1
    <2> QED
      BY <2>2, <2>3, <2>4 DEF Accumulates
  <1>10. Extends(iter, Acc, Step, base, n, s)
    BY <1>6, <1>7 DEF Extends
  <1>11. iter[1..n] = g[n]
    BY <1>9, <1>10, LeftFoldIntervals
  <1> QED
    BY <1>1, <1>9, <1>11

(* Summing from left to right.                                              *)
LEMMA Sums ==
    ASSUME NEW n \in Nat, NEW s \in [1..n -> Nat], NEW g \in [0..n -> Nat],
           g[0] = 0, \A k \in 1..n : g[k] = g[k - 1] + s[k]
    PROVE  FoldLeft(+, 0, s) = g[n]
  <1> DEFINE Step == [b \in Nat |-> [z \in Nat |-> z + b]]
             iter == CHOOSE iter : iter = [S \in SUBSET (DOMAIN s) |->
                        IF S = {} THEN 0 ELSE iter[S \ {Max(S)}] + s[Max(S)]]
  <1>1. FoldLeft(+, 0, s) = iter[DOMAIN s]
    BY DEF FoldLeft, MapThenFoldSet
  <1>2. Step \in [Nat -> [Nat -> Nat]]
    OBVIOUS
  <1>3. \A b \in Nat, z \in Nat : Step[b][z] = z + b
    OBVIOUS
  <1> HIDE DEF Step, iter
  <1>4. PICK it : Iterates(it, Nat, Step, 0, n, s)
    <2>1. 0 \in Nat
      OBVIOUS
    <2> QED
      BY <1>2, <2>1, LeftFoldExists
  <1>5. \A S \in SUBSET (1..n) :
           it[S] = IF S = {} THEN 0 ELSE it[S \ {Max(S)}] + s[Max(S)]
    <2> SUFFICES ASSUME NEW S \in SUBSET (1..n), S # {}
                 PROVE  it[S] = it[S \ {Max(S)}] + s[Max(S)]
      BY <1>4 DEF Iterates
    <2>1. Max(S) \in S /\ S \ {Max(S)} \in SUBSET (1..n)
      BY MaxOfSubset
    <2>2. s[Max(S)] \in Nat /\ it[S \ {Max(S)}] \in Nat
      BY <1>4, <2>1 DEF Iterates
    <2>3. it[S] = Step[s[Max(S)]][it[S \ {Max(S)}]]
      BY <1>4 DEF Iterates
    <2> QED
      BY <1>3, <2>2, <2>3
  <1>6. it = [S \in SUBSET (DOMAIN s) |->
                 IF S = {} THEN 0 ELSE it[S \ {Max(S)}] + s[Max(S)]]
    BY <1>4, <1>5 DEF Iterates
  <1>7. iter = [S \in SUBSET (DOMAIN s) |->
                   IF S = {} THEN 0 ELSE iter[S \ {Max(S)}] + s[Max(S)]]
    BY <1>6 DEF iter
  <1>8. iter[{}] = 0
    BY <1>7
  <1>9. ASSUME NEW k \in 1..n, iter[1..(k - 1)] \in Nat
        PROVE  iter[1..k] = Step[s[k]][iter[1..(k - 1)]]
    <2>1. Max(1..k) = k /\ (1..k) \ {k} = 1..(k - 1) /\ 1..k # {}
      <3>1. k \in Nat \ {0}
        OBVIOUS
      <3> QED
        BY <3>1, MaxOfInterval
    <2>2. 1..k \in SUBSET (DOMAIN s)
      OBVIOUS
    <2>3. iter[1..k] = iter[(1..k) \ {Max(1..k)}] + s[Max(1..k)]
      BY <1>7, <2>1, <2>2
    <2>4. s[k] \in Nat
      OBVIOUS
    <2>5. iter[1..k] = iter[1..(k - 1)] + s[k]
      BY <2>1, <2>3
    <2>6. Step[s[k]][iter[1..(k - 1)]] = iter[1..(k - 1)] + s[k]
      BY <1>3, <1>9, <2>4
    <2> QED
      BY <2>5, <2>6
  <1>10. \A k \in 1..n : g[k] = Step[s[k]][g[k - 1]]
    <2> SUFFICES ASSUME NEW k \in 1..n
                 PROVE  g[k] = Step[s[k]][g[k - 1]]
      OBVIOUS
    <2>1. k - 1 \in 0..n /\ s[k] \in Nat
      OBVIOUS
    <2> QED
      BY <1>3, <2>1
  <1>11. Extends(iter, Nat, Step, 0, n, s) /\ Accumulates(g, Nat, Step, 0, n, s)
    BY <1>8, <1>9, <1>10 DEF Extends, Accumulates
  <1>12. iter[1..n] = g[n]
    <2>1. 0 \in Nat
      OBVIOUS
    <2> QED
      BY <1>11, <2>1, LeftFoldIntervals
  <1> QED
    BY <1>1, <1>12

(* Joining sequences from left to right.                                    *)
LEMMA Concatenation ==
    ASSUME NEW F, NEW n \in Nat, NEW s \in [1..n -> Seq(F)], NEW g \in [0..n -> Seq(F)],
           g[0] = <<>>, \A k \in 1..n : g[k] = g[k - 1] \o s[k]
    PROVE  FoldLeft(\o, <<>>, s) = g[n]
  <1> DEFINE Step == [b \in Seq(F) |-> [z \in Seq(F) |-> z \o b]]
             iter == CHOOSE iter : iter = [S \in SUBSET (DOMAIN s) |->
                        IF S = {} THEN <<>> ELSE iter[S \ {Max(S)}] \o s[Max(S)]]
  <1>1. FoldLeft(\o, <<>>, s) = iter[DOMAIN s]
    BY DEF FoldLeft, MapThenFoldSet
  <1>2. Step \in [Seq(F) -> [Seq(F) -> Seq(F)]]
    OBVIOUS
  <1>3. \A b \in Seq(F), z \in Seq(F) : Step[b][z] = z \o b
    OBVIOUS
  <1> HIDE DEF Step, iter
  <1>4. PICK it : Iterates(it, Seq(F), Step, <<>>, n, s)
    <2>1. <<>> \in Seq(F)
      OBVIOUS
    <2> QED
      BY <1>2, <2>1, LeftFoldExists
  <1>5. \A S \in SUBSET (1..n) :
           it[S] = IF S = {} THEN <<>> ELSE it[S \ {Max(S)}] \o s[Max(S)]
    <2> SUFFICES ASSUME NEW S \in SUBSET (1..n), S # {}
                 PROVE  it[S] = it[S \ {Max(S)}] \o s[Max(S)]
      BY <1>4 DEF Iterates
    <2>1. Max(S) \in S /\ S \ {Max(S)} \in SUBSET (1..n)
      BY MaxOfSubset
    <2>2. s[Max(S)] \in Seq(F) /\ it[S \ {Max(S)}] \in Seq(F)
      BY <1>4, <2>1 DEF Iterates
    <2>3. it[S] = Step[s[Max(S)]][it[S \ {Max(S)}]]
      BY <1>4 DEF Iterates
    <2> QED
      BY <1>3, <2>2, <2>3
  <1>6. it = [S \in SUBSET (DOMAIN s) |->
                 IF S = {} THEN <<>> ELSE it[S \ {Max(S)}] \o s[Max(S)]]
    BY <1>4, <1>5 DEF Iterates
  <1>7. iter = [S \in SUBSET (DOMAIN s) |->
                   IF S = {} THEN <<>> ELSE iter[S \ {Max(S)}] \o s[Max(S)]]
    BY <1>6 DEF iter
  <1>8. iter[{}] = <<>>
    BY <1>7
  <1>9. ASSUME NEW k \in 1..n, iter[1..(k - 1)] \in Seq(F)
        PROVE  iter[1..k] = Step[s[k]][iter[1..(k - 1)]]
    <2>1. Max(1..k) = k /\ (1..k) \ {k} = 1..(k - 1) /\ 1..k # {}
      <3>1. k \in Nat \ {0}
        OBVIOUS
      <3> QED
        BY <3>1, MaxOfInterval
    <2>2. 1..k \in SUBSET (DOMAIN s)
      OBVIOUS
    <2>3. iter[1..k] = iter[(1..k) \ {Max(1..k)}] \o s[Max(1..k)]
      BY <1>7, <2>1, <2>2
    <2>4. s[k] \in Seq(F)
      OBVIOUS
    <2>5. iter[1..k] = iter[1..(k - 1)] \o s[k]
      BY <2>1, <2>3
    <2>6. Step[s[k]][iter[1..(k - 1)]] = iter[1..(k - 1)] \o s[k]
      BY <1>3, <1>9, <2>4
    <2> QED
      BY <2>5, <2>6
  <1>10. \A k \in 1..n : g[k] = Step[s[k]][g[k - 1]]
    <2> SUFFICES ASSUME NEW k \in 1..n
                 PROVE  g[k] = Step[s[k]][g[k - 1]]
      OBVIOUS
    <2>1. k - 1 \in 0..n /\ s[k] \in Seq(F)
      OBVIOUS
    <2> QED
      BY <1>3, <2>1
  <1>11. Extends(iter, Seq(F), Step, <<>>, n, s) /\ Accumulates(g, Seq(F), Step, <<>>, n, s)
    BY <1>8, <1>9, <1>10 DEF Extends, Accumulates
  <1>12. iter[1..n] = g[n]
    <2>1. <<>> \in Seq(F)
      OBVIOUS
    <2> QED
      BY <1>11, <2>1, LeftFoldIntervals
  <1> QED
    BY <1>1, <1>12

-----------------------------------------------------------------------------
(* Powers of two count subsets: so they double. *)

LEMMA PowerType ==
    ASSUME NEW n \in Nat
    PROVE  2^n \in Nat \ {0}
  <1>1. IsFiniteSet(1..n) /\ Cardinality(1..n) = n
    BY FS_Interval
  <1>2. IsFiniteSet(SUBSET (1..n)) /\ Cardinality(SUBSET (1..n)) = 2^n
    BY <1>1, FS_SUBSET
  <1>3. SUBSET (1..n) # {}
    BY 1..n \in SUBSET (1..n)
  <1> QED
    BY <1>2, <1>3, FS_CardinalityType, FS_EmptySet

LEMMA PowerDoubles ==
    ASSUME NEW n \in Nat
    PROVE  2^(n + 1) = 2 * 2^n
  <1> DEFINE S == 1..n
             x == n + 1
             With == {U \in SUBSET (1..(n + 1)) : x \in U}
             f == [U \in SUBSET S |-> U \cup {x}]
  <1>1. IsFiniteSet(S) /\ Cardinality(S) = n
    BY FS_Interval
  <1>2. IsFiniteSet(1..(n + 1)) /\ Cardinality(1..(n + 1)) = n + 1
    BY FS_Interval
  <1>3. /\ IsFiniteSet(SUBSET S) /\ Cardinality(SUBSET S) = 2^n
        /\ Cardinality(SUBSET (1..(n + 1))) = 2^(n + 1)
    BY <1>1, <1>2, FS_SUBSET
  <1>4. x \notin S /\ 1..(n + 1) = S \cup {x}
    OBVIOUS
  <1> HIDE DEF S, x
  <1>5. f \in Bijection(SUBSET S, With)
    <2>1. f \in [SUBSET S -> With]
      BY <1>4
    <2>2. \A U, V \in SUBSET S : f[U] = f[V] => U = V
      BY <1>4
    <2>3. \A W \in With : W \ {x} \in SUBSET S /\ f[W \ {x}] = W
      BY <1>4
    <2> QED
      BY <2>1, <2>2, <2>3 DEF Bijection, Injection, Surjection, IsInjective
  <1>6. IsFiniteSet(With) /\ Cardinality(With) = 2^n
    BY <1>3, <1>5, FS_Bijection DEF ExistsBijection
  <1>7. SUBSET (1..(n + 1)) = (SUBSET S) \cup With /\ (SUBSET S) \cap With = {}
    BY <1>4
  <1> HIDE DEF With, f
  <1>8. Cardinality((SUBSET S) \cup With)
        = Cardinality(SUBSET S) + Cardinality(With) - Cardinality((SUBSET S) \cap With)
    BY <1>3, <1>6, FS_Union
  <1>9. 2^(n + 1) = 2^n + 2^n - 0
    BY <1>3, <1>6, <1>7, <1>8, FS_EmptySet
  <1> QED
    BY <1>9, PowerType

LEMMA PowerZero == 2^0 = 1
  <1>1. IsFiniteSet({}) /\ Cardinality({}) = 0
    BY FS_EmptySet
  <1>2. Cardinality(SUBSET {}) = 2^0
    BY <1>1, FS_SUBSET
  <1>3. SUBSET {} = {{}}
    OBVIOUS
  <1> QED
    BY <1>2, <1>3, FS_Singleton

LEMMA PowerOfSum ==
    ASSUME NEW m \in Nat, NEW n \in Nat
    PROVE  2^(m + n) = 2^m * 2^n
  <1> DEFINE S == {k \in Nat : 2^(m + k) = 2^m * 2^k}
  <1>1. 0 \in S
    <2>1. m + 0 = m /\ 2^m \in Nat
      BY PowerType
    <2> QED
      BY <2>1, PowerZero
  <1>2. ASSUME NEW k \in Nat, k \in S
        PROVE  k + 1 \in S
    <2> DEFINE a == 2^m
               b == 2^k
               c == 2^(m + k)
    <2>1. a \in Nat /\ b \in Nat /\ c = a * b
      BY <1>2, PowerType
    <2>2. 2^(k + 1) = 2 * b
      BY PowerDoubles
    <2>3. 2^(m + (k + 1)) = 2 * c
      <3>1. m + k \in Nat /\ m + (k + 1) = (m + k) + 1
        OBVIOUS
      <3> QED
        BY <3>1, PowerDoubles
    <2> HIDE DEF a, b, c
    <2>4. 2 * c = a * (2 * b)
      BY <2>1
    <2>5. 2^(m + (k + 1)) = a * 2^(k + 1)
      BY <2>2, <2>3, <2>4
    <2> QED
      BY <2>5 DEF a
  <1> HIDE DEF S
  <1>3. n \in S
    BY <1>1, <1>2, SetInduction
  <1> QED
    BY <1>3 DEF S

-----------------------------------------------------------------------------
(* The function that Power iterates exists, so it is what its equation says. *)

LEMMA PowerFunction ==
    ASSUME NEW b \in Int
    PROVE  \E power : power = [m \in Nat |-> IF m = 0 THEN 1 ELSE b * power[m - 1]]
  <1> DEFINE Good(k, f) == /\ f \in [0..k -> Int] /\ f[0] = 1
                           /\ \A m \in 1..k : f[m] = b * f[m - 1]
             S == {k \in Nat : \E f : Good(k, f)}
             F(k) == CHOOSE f : Good(k, f)
             power == [m \in Nat |-> F(m)[m]]
  <1>1. 0 \in S
    <2> DEFINE f == [m \in 0..0 |-> 1]
    <2>1. Good(0, f)
      OBVIOUS
    <2> QED
      BY <2>1
  <1>2. ASSUME NEW k \in Nat, k \in S
        PROVE  k + 1 \in S
    <2>1. PICK old : Good(k, old)
      BY <1>2
    <2> DEFINE f == [m \in 0..(k + 1) |-> IF m = k + 1 THEN b * old[k] ELSE old[m]]
    <2>2. /\ \A m \in 0..k : f[m] = old[m] /\ old[m] \in Int
          /\ f[k + 1] = b * old[k] /\ b * old[k] \in Int
      BY <2>1
    <2>3. f \in [0..(k + 1) -> Int]
      BY <2>1, <2>2
    <2>4. ASSUME NEW m \in 1..(k + 1)
          PROVE  f[m] = b * f[m - 1]
      <3> HIDE DEF f
      <3>1. CASE m = k + 1
        BY <2>2, <3>1
      <3>2. CASE m # k + 1
        <4>1. m \in 1..k /\ m \in 0..k /\ m - 1 \in 0..k
          BY <3>2
        <4> QED
          BY <2>1, <2>2, <4>1
      <3> QED
        BY <3>1, <3>2
    <2>5. f[0] = 1
      BY <2>1, <2>2
    <2>6. Good(k + 1, f)
      <3> HIDE DEF f
      <3> QED
        BY <2>3, <2>4, <2>5
    <2> HIDE DEF Good
    <2> QED
      BY <2>6
  <1>3. \A k \in Nat : Good(k, F(k))
    <2> HIDE DEF Good
    <2>1. Nat \subseteq S
      BY <1>1, <1>2, SetInduction
    <2> QED
      BY <2>1
  <1>4. ASSUME NEW k \in Nat
        PROVE  \A m \in 0..k : F(k + 1)[m] = F(k)[m]
    <2> DEFINE A == {m \in Nat : m <= k => F(k + 1)[m] = F(k)[m]}
    <2>0. k + 1 \in Nat
      OBVIOUS
    <2> HIDE DEF F
    <2>1. Good(k, F(k)) /\ Good(k + 1, F(k + 1))
      <3> HIDE DEF Good
      <3> QED
        BY <1>3, <2>0
    <2>2. 0 \in A
      BY <2>1
    <2>3. ASSUME NEW m \in Nat, m \in A
          PROVE  m + 1 \in A
      <3>1. CASE m + 1 <= k
        <4>1. F(k + 1)[m] = F(k)[m] /\ m + 1 \in 1..k /\ m + 1 \in 1..(k + 1) /\ (m + 1) - 1 = m
          BY <2>3, <3>1
        <4>2. F(k + 1)[m + 1] = b * F(k + 1)[m] /\ F(k)[m + 1] = b * F(k)[m]
          BY <2>1, <4>1
        <4> QED
          BY <4>1, <4>2
      <3>2. CASE ~(m + 1 <= k)
        BY <3>2
      <3> QED
        BY <3>1, <3>2
    <2> HIDE DEF A
    <2>4. Nat \subseteq A
      BY <2>2, <2>3, SetInduction
    <2> QED
      BY <2>4 DEF A
  <1> HIDE DEF F
  <1>5. \A m \in Nat : power[m] = IF m = 0 THEN 1 ELSE b * power[m - 1]
    <2>1. ASSUME NEW m \in Nat, m # 0
          PROVE  F(m)[m] = b * F(m - 1)[m - 1]
      <3>1. m - 1 \in Nat /\ (m - 1) + 1 = m /\ m - 1 \in 0..(m - 1) /\ m \in 1..m
        BY <2>1
      <3>2. F(m)[m - 1] = F(m - 1)[m - 1]
        BY <1>4, <3>1
      <3>3. F(m)[m] = b * F(m)[m - 1]
        BY <1>3, <3>1
      <3> QED
        BY <3>2, <3>3
    <2>2. F(0)[0] = 1
      BY <1>3
    <2> HIDE DEF Good
    <2> QED
      BY <2>1, <2>2
  <1>6. power = [m \in Nat |-> IF m = 0 THEN 1 ELSE b * power[m - 1]]
    BY <1>5
  <1> HIDE DEF power
  <1> QED
    BY <1>6

LEMMA PowerLaw ==
    ASSUME NEW b \in Int
    PROVE  /\ Power(b, 0) = 1
           /\ \A n \in Nat : Power(b, n + 1) = b * Power(b, n)
  <1> DEFINE power == CHOOSE power : power = [m \in Nat |-> IF m = 0 THEN 1 ELSE b * power[m - 1]]
  <1>1. power = [m \in Nat |-> IF m = 0 THEN 1 ELSE b * power[m - 1]]
    BY PowerFunction
  <1>2. \A n \in Nat : Power(b, n) = power[n]
    BY DEF Power
  <1> HIDE DEF power
  <1>3. power[0] = 1
    BY <1>1
  <1>4. ASSUME NEW n \in Nat
        PROVE  power[n + 1] = b * power[n]
    <2>1. n + 1 \in Nat /\ n + 1 # 0 /\ (n + 1) - 1 = n
      OBVIOUS
    <2>2. power[n + 1] = IF n + 1 = 0 THEN 1 ELSE b * power[(n + 1) - 1]
      BY <1>1, <2>1
    <2> QED
      BY <2>1, <2>2
  <1> QED
    BY <1>2, <1>3, <1>4

LEMMA PowerInt ==
    ASSUME NEW b \in Int, NEW n \in Nat
    PROVE  Power(b, n) \in Int
  <1> DEFINE S == {k \in Nat : Power(b, k) \in Int}
  <1>1. 0 \in S
    BY PowerLaw
  <1>2. ASSUME NEW k \in Nat, k \in S
        PROVE  k + 1 \in S
    <2>1. Power(b, k + 1) = b * Power(b, k) /\ Power(b, k) \in Int
      BY <1>2, PowerLaw
    <2> QED
      BY <2>1
  <1> HIDE DEF S
  <1>3. n \in S
    BY <1>1, <1>2, SetInduction
  <1> QED
    BY <1>3 DEF S

LEMMA PowerPositive ==
    ASSUME NEW b \in Nat \ {0}, NEW n \in Nat
    PROVE  Power(b, n) \in Nat \ {0}
  <1> DEFINE S == {k \in Nat : Power(b, k) \in Nat \ {0}}
  <1>1. 0 \in S
    BY PowerLaw
  <1>2. ASSUME NEW k \in Nat, k \in S
        PROVE  k + 1 \in S
    <2> DEFINE p == Power(b, k)
    <2>1. Power(b, k + 1) = b * p /\ p \in Nat \ {0}
      BY <1>2, PowerLaw
    <2> HIDE DEF p
    <2>2. b * p \in Nat \ {0}
      BY <2>1
    <2> QED
      BY <2>1, <2>2
  <1> HIDE DEF S
  <1>3. n \in S
    BY <1>1, <1>2, SetInduction
  <1> QED
    BY <1>3 DEF S

LEMMA PowerAdds ==
    ASSUME NEW b \in Int, NEW m \in Nat, NEW n \in Nat
    PROVE  Power(b, m + n) = Power(b, m) * Power(b, n)
  <1> DEFINE S == {k \in Nat : Power(b, m + k) = Power(b, m) * Power(b, k)}
  <1>1. 0 \in S
    <2>1. m + 0 = m /\ Power(b, m) \in Int /\ Power(b, 0) = 1
      BY PowerInt, PowerLaw
    <2> QED
      BY <2>1
  <1>2. ASSUME NEW k \in Nat, k \in S
        PROVE  k + 1 \in S
    <2> DEFINE u == Power(b, m)
               v == Power(b, k)
               w == Power(b, m + k)
    <2>1. u \in Int /\ v \in Int /\ w = u * v
      BY <1>2, PowerInt
    <2>2. Power(b, k + 1) = b * v
      BY PowerLaw
    <2>3. Power(b, m + (k + 1)) = b * w
      <3>1. m + k \in Nat /\ m + (k + 1) = (m + k) + 1
        OBVIOUS
      <3> QED
        BY <3>1, PowerLaw
    <2> HIDE DEF u, v, w
    <2>4. b * w = u * (b * v)
      BY <2>1
    <2>5. Power(b, m + (k + 1)) = u * Power(b, k + 1)
      BY <2>2, <2>3, <2>4
    <2> QED
      BY <2>5 DEF u
  <1> HIDE DEF S
  <1>3. n \in S
    BY <1>1, <1>2, SetInduction
  <1> QED
    BY <1>3 DEF S

(* A power grows with its exponent, and faster than it.                     *)
LEMMA PowerGrows ==
    ASSUME NEW b \in Nat \ {0, 1}
    PROVE  /\ \A n \in Nat : n < Power(b, n)
           /\ \A m, n \in Nat : m <= n => Power(b, m) <= Power(b, n)
  <1> DEFINE S == {k \in Nat : k < Power(b, k)}
  <1>1. 0 \in S
    BY PowerLaw
  <1>2. ASSUME NEW k \in Nat, k \in S
        PROVE  k + 1 \in S
    <2> DEFINE p == Power(b, k)
    <2>1. Power(b, k + 1) = b * p /\ p \in Nat /\ k < p
      BY <1>2, PowerLaw, PowerPositive
    <2> HIDE DEF p
    <2>2. b * p >= 2 * p
      BY <2>1
    <2>3. b * p \in Int /\ k + 1 < b * p
      BY <2>1, <2>2
    <2> QED
      BY <2>1, <2>3
  <1> HIDE DEF S
  <1>3. Nat \subseteq S
    BY <1>1, <1>2, SetInduction
  <1>4. ASSUME NEW m \in Nat, NEW n \in Nat, m <= n
        PROVE  Power(b, m) <= Power(b, n)
    <2> DEFINE u == Power(b, m)
               v == Power(b, n - m)
    <2>1. n - m \in Nat /\ m + (n - m) = n
      BY <1>4
    <2>2. Power(b, n) = u * v
      <3>1. Power(b, m + (n - m)) = u * v
        BY <2>1, PowerAdds
      <3> QED
        BY <2>1, <3>1
    <2>3. u \in Nat \ {0} /\ v \in Nat \ {0}
      BY <2>1, PowerPositive
    <2> HIDE DEF u, v
    <2>4. u <= u * v
      BY <2>3
    <2> QED
      BY <2>2, <2>4 DEF u
  <1> QED
    BY <1>3, <1>4 DEF S

-----------------------------------------------------------------------------
(* Quotients and remainders. *)

LEMMA RemainderIs ==
    ASSUME NEW m \in Nat \ {0}, NEW n \in Int, NEW r \in 0..(m - 1), NEW q \in Int,
           n = q * m + r
    PROVE  n % m = r /\ n \div m = q
  OBVIOUS

LEMMA Euclid ==
    ASSUME NEW m \in Nat \ {0}, NEW n \in Nat
    PROVE  /\ n \div m \in Nat /\ n % m \in 0..(m - 1)
           /\ n = (n \div m) * m + (n % m)
  <1> DEFINE q == n \div m
             r == n % m
  <1>1. q \in Nat /\ q * m <= n /\ n < q * m + m
    OBVIOUS
  <1> HIDE DEF q
  <1>2. n - q * m \in 0..(m - 1) /\ n = q * m + (n - q * m)
    BY <1>1
  <1>3. r = n - q * m
    <2>1. n \in Int /\ q \in Int
      BY <1>1
    <2> QED
      BY <1>2, <2>1, RemainderIs
  <1> HIDE DEF r
  <1>4. q \in Nat /\ r \in 0..(m - 1) /\ n = q * m + r
    BY <1>1, <1>2, <1>3
  <1> QED
    BY <1>4, Zenon DEF q, r

LEMMA Distributes ==
    ASSUME NEW a \in Int, NEW b \in Int, NEW c \in Int, NEW m \in Int
    PROVE  /\ (a + b + c) * m = a * m + b * m + c * m
           /\ (a - b - c) * m = a * m - b * m - c * m
           /\ a * m \in Int /\ b * m \in Int /\ c * m \in Int
  OBVIOUS

LEMMA DivTwice ==
    ASSUME NEW n \in Nat, NEW a \in Nat \ {0}, NEW b \in Nat \ {0}
    PROVE  (n \div a) \div b = n \div (a * b)
  <1> DEFINE q == n \div a
             r == n % a
             p == q \div b
             s == q % b
  <1>1. q \in Nat /\ r \in 0..(a - 1) /\ n = q * a + r
    BY Euclid
  <1>2. p \in Nat /\ s \in 0..(b - 1) /\ q = p * b + s
    BY <1>1, Euclid
  <1> HIDE DEF q, r, s
  <1>3. a * b \in Nat \ {0}
    OBVIOUS
  <1>4. n = p * (a * b) + (s * a + r)
    <2> HIDE DEF p
    <2>1. q * a = (p * b) * a + s * a
      BY <1>2
    <2>2. (p * b) * a = p * (a * b)
      BY <1>2
    <2> QED
      BY <1>1, <1>2, <2>1, <2>2
  <1>5. s * a + r \in 0..(a * b - 1)
    <2>1. s * a <= (b - 1) * a
      BY <1>2
    <2>2. (b - 1) * a = a * b - a
      OBVIOUS
    <2> QED
      BY <1>1, <1>2, <1>3, <2>1, <2>2
  <1>6. n \div (a * b) = p
    <2> DEFINE m == a * b
               t == s * a + r
    <2>1. m \in Nat \ {0} /\ t \in 0..(m - 1) /\ n = p * m + t /\ p \in Int
      BY <1>2, <1>3, <1>4, <1>5
    <2> HIDE DEF m, t, p
    <2>2. n \div m = p
      BY <2>1, RemainderIs
    <2> QED
      BY <2>2 DEF m
  <1> QED
    BY <1>6 DEF p, q
=============================================================================
