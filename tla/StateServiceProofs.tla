------------------------- MODULE StateServiceProofs -------------------------
(***************************************************************************)
(* The heap of hash tables implements values: the refinement of FieldStore *)
(* by StateService, and the invariants it rests on, while no map moves     *)
(* between fields and locals.                                              *)
(*                                                                         *)
(* First the walks of fetch_local and update_local through nested tables,  *)
(* then what a replaced entry, a new chain of tables, a copied table and a *)
(* collected one make of the values, then the statements one by one.       *)
(***************************************************************************)
EXTENDS StateService, SequenceTheorems, FiniteSetTheorems, Lemmas

-----------------------------------------------------------------------------
LEMMA Predecessors ==
    ASSUME NEW n \in Nat
    PROVE  \A i \in 1..n : i - 1 \in 0..(n - 1)
  OBVIOUS

(* The recursive functions of the model are what their equations say.       *)

LEMMA ValueLaw ==
    /\ Values!Value[0] = Scalars
    /\ \A d \in 1..MaxKind : Values!Value[d] = [Keys -> Values!Value[d - 1] \cup {Absent}]
  <1> DEFINE Body(f, n) == IF n = 0 THEN Scalars ELSE [Keys -> f[n - 1] \cup {Absent}]
             Good(k, f) == f = [n \in 0..k |-> Body(f, n)]
             S == {k \in Nat : \E f : Good(k, f)}
             F == CHOOSE f : Good(MaxKind, f)
  <1>1. 0 \in S
    <2> DEFINE f == [n \in 0..0 |-> Scalars]
    <2>1. Good(0, f)
      OBVIOUS
    <2> QED
      BY <2>1
  <1>2. ASSUME NEW k \in Nat, k \in S
        PROVE  k + 1 \in S
    <2>1. PICK old : Good(k, old)
      BY <1>2
    <2> DEFINE f == [n \in 0..(k + 1) |-> IF n = k + 1 THEN Body(old, n) ELSE old[n]]
    <2>2. ASSUME NEW n \in 0..(k + 1)
          PROVE  f[n] = Body(f, n)
      <3>1. f[n] = Body(old, n)
        <4>1. n \in 0..k => old[n] = Body(old, n)
          BY <2>1
        <4> QED
          BY <4>1
      <3>2. n # 0 => f[n - 1] = old[n - 1]
        OBVIOUS
      <3> HIDE DEF f
      <3> QED
        BY <3>1, <3>2
    <2>3. Good(k + 1, f)
      BY <2>2
    <2> HIDE DEF Good
    <2> QED
      BY <2>3
  <1>3. MaxKind \in S
    <2> HIDE DEF S
    <2> QED
      BY <1>1, <1>2, SetInduction, KindAssumption
  <1>4. Good(MaxKind, F)
    <2> HIDE DEF Good
    <2> QED
      BY <1>3
  <1>5. Values!Value = F
    BY DEF Values!Value
  <1> HIDE DEF F
  <1>6. \A n \in 0..MaxKind : F[n] = Body(F, n)
    BY <1>4
  <1>7. 0 \in 0..MaxKind /\ \A n \in 1..MaxKind : n \in 0..MaxKind /\ n # 0
    BY KindAssumption
  <1> QED
    BY <1>5, <1>6, <1>7

LEMMA AlongLaw ==
    ASSUME NEW v, NEW ks, Len(ks) \in Nat
    PROVE  /\ Values!Along(v, ks)[0] = v
           /\ \A n \in 1..Len(ks) :
                Values!Along(v, ks)[n] =
                  IF Values!Along(v, ks)[n - 1] = Absent THEN Absent
                  ELSE Values!Along(v, ks)[n - 1][ks[n]]
  <1> DEFINE Body(f, n) == IF n = 0 THEN v ELSE IF f[n - 1] = Absent THEN Absent ELSE f[n - 1][ks[n]]
             Good(k, f) == f = [n \in 0..k |-> Body(f, n)]
             S == {k \in Nat : \E f : Good(k, f)}
             F == CHOOSE f : Good(Len(ks), f)
  <1>1. 0 \in S
    <2> DEFINE f == [n \in 0..0 |-> v]
    <2>1. Good(0, f)
      OBVIOUS
    <2> QED
      BY <2>1
  <1>2. ASSUME NEW k \in Nat, k \in S
        PROVE  k + 1 \in S
    <2>1. PICK old : Good(k, old)
      BY <1>2
    <2> DEFINE f == [n \in 0..(k + 1) |-> IF n = k + 1 THEN Body(old, n) ELSE old[n]]
    <2>2. ASSUME NEW n \in 0..(k + 1)
          PROVE  f[n] = Body(f, n)
      <3>1. f[n] = Body(old, n)
        <4>1. n \in 0..k => old[n] = Body(old, n)
          BY <2>1
        <4> QED
          BY <4>1
      <3>2. n # 0 => f[n - 1] = old[n - 1]
        OBVIOUS
      <3> HIDE DEF f
      <3> QED
        BY <3>1, <3>2
    <2>3. Good(k + 1, f)
      BY <2>2
    <2> HIDE DEF Good
    <2> QED
      BY <2>3
  <1>3. Len(ks) \in S
    <2> HIDE DEF S
    <2> QED
      BY <1>1, <1>2, SetInduction
  <1>4. Good(Len(ks), F)
    <2> HIDE DEF Good
    <2> QED
      BY <1>3
  <1>5. Values!Along(v, ks) = F
    BY DEF Values!Along
  <1> HIDE DEF F
  <1>6. \A n \in 0..Len(ks) : F[n] = Body(F, n)
    BY <1>4
  <1>7. 0 \in 0..Len(ks) /\ \A n \in 1..Len(ks) : n \in 0..Len(ks) /\ n # 0
    OBVIOUS
  <1> QED
    BY <1>5, <1>6, <1>7

LEMMA WalkLaw ==
    ASSUME NEW h, NEW c, NEW ks, Len(ks) \in Nat
    PROVE  /\ Walk(h, c, ks)[0] = c
           /\ \A n \in 1..Len(ks) :
                Walk(h, c, ks)[n] =
                  IF Walk(h, c, ks)[n - 1] = Absent THEN Absent
                  ELSE h[Walk(h, c, ks)[n - 1]][ks[n]]
  <1> DEFINE Body(f, n) == IF n = 0 THEN c ELSE IF f[n - 1] = Absent THEN Absent ELSE h[f[n - 1]][ks[n]]
             Good(k, f) == f = [n \in 0..k |-> Body(f, n)]
             S == {k \in Nat : \E f : Good(k, f)}
             F == CHOOSE f : Good(Len(ks), f)
  <1>1. 0 \in S
    <2> DEFINE f == [n \in 0..0 |-> c]
    <2>1. Good(0, f)
      OBVIOUS
    <2> QED
      BY <2>1
  <1>2. ASSUME NEW k \in Nat, k \in S
        PROVE  k + 1 \in S
    <2>1. PICK old : Good(k, old)
      BY <1>2
    <2> DEFINE f == [n \in 0..(k + 1) |-> IF n = k + 1 THEN Body(old, n) ELSE old[n]]
    <2>2. ASSUME NEW n \in 0..(k + 1)
          PROVE  f[n] = Body(f, n)
      <3>1. f[n] = Body(old, n)
        <4>1. n \in 0..k => old[n] = Body(old, n)
          BY <2>1
        <4> QED
          BY <4>1
      <3>2. n # 0 => f[n - 1] = old[n - 1]
        OBVIOUS
      <3> HIDE DEF f
      <3> QED
        BY <3>1, <3>2
    <2>3. Good(k + 1, f)
      BY <2>2
    <2> HIDE DEF Good
    <2> QED
      BY <2>3
  <1>3. Len(ks) \in S
    <2> HIDE DEF S
    <2> QED
      BY <1>1, <1>2, SetInduction
  <1>4. Good(Len(ks), F)
    <2> HIDE DEF Good
    <2> QED
      BY <1>3
  <1>5. Walk(h, c, ks) = F
    BY DEF Walk
  <1> HIDE DEF F
  <1>6. \A n \in 0..Len(ks) : F[n] = Body(F, n)
    BY <1>4
  <1>7. 0 \in 0..Len(ks) /\ \A n \in 1..Len(ks) : n \in 0..Len(ks) /\ n # 0
    OBVIOUS
  <1> QED
    BY <1>5, <1>6, <1>7

(* The maps that Put makes, counted from the end of ks. *)
Rebuilds(v, ks, w, new) ==
    /\ Values!Put(v, ks, w) = new[Len(ks)]
    /\ new[0] = w
    /\ \A n \in 1..Len(ks) :
         LET m == Values!Along(v, ks)[Len(ks) - n]
         IN  new[n] = [(IF m = Absent THEN Emp ELSE m)
                         EXCEPT ![ks[Len(ks) - n + 1]] = new[n - 1]]

LEMMA PutLaw ==
    ASSUME NEW v, NEW ks, NEW w, Len(ks) \in Nat
    PROVE  \E new : Rebuilds(v, ks, w, new)
  <1> DEFINE Body(f, n) == LET m == Values!Along(v, ks)[Len(ks) - n]
                           IN  IF n = 0 THEN w
                               ELSE [(IF m = Absent THEN Emp ELSE m)
                                       EXCEPT ![ks[Len(ks) - n + 1]] = f[n - 1]]
             Good(k, f) == f = [n \in 0..k |-> Body(f, n)]
             S == {k \in Nat : \E f : Good(k, f)}
             F == CHOOSE f : Good(Len(ks), f)
  <1>1. 0 \in S
    <2> DEFINE f == [n \in 0..0 |-> w]
    <2>1. Good(0, f)
      OBVIOUS
    <2> QED
      BY <2>1
  <1>2. ASSUME NEW k \in Nat, k \in S
        PROVE  k + 1 \in S
    <2>1. PICK old : Good(k, old)
      BY <1>2
    <2> DEFINE f == [n \in 0..(k + 1) |-> IF n = k + 1 THEN Body(old, n) ELSE old[n]]
    <2>2. ASSUME NEW n \in 0..(k + 1)
          PROVE  f[n] = Body(f, n)
      <3>1. f[n] = Body(old, n)
        <4>1. n \in 0..k => old[n] = Body(old, n)
          BY <2>1
        <4> QED
          BY <4>1
      <3>2. n # 0 => f[n - 1] = old[n - 1]
        OBVIOUS
      <3> HIDE DEF f
      <3> QED
        BY <3>1, <3>2
    <2>3. Good(k + 1, f)
      BY <2>2
    <2> HIDE DEF Good
    <2> QED
      BY <2>3
  <1>3. Len(ks) \in S
    <2> HIDE DEF S
    <2> QED
      BY <1>1, <1>2, SetInduction
  <1>4. Good(Len(ks), F)
    <2> HIDE DEF Good
    <2> QED
      BY <1>3
  <1>5. Values!Put(v, ks, w) = F[Len(ks)]
    BY DEF Values!Put, Values!Emp, Emp
  <1> HIDE DEF F
  <1>6. \A n \in 0..Len(ks) : F[n] = Body(F, n)
    BY <1>4
  <1>7. 0 \in 0..Len(ks) /\ \A n \in 1..Len(ks) : n \in 0..Len(ks) /\ n # 0
    OBVIOUS
  <1> QED
    BY <1>5, <1>6, <1>7 DEF Rebuilds

Spreads(h, R, from) ==
    /\ Reached(h, R) = from[MaxKind]
    /\ from[0] = R \cap Tables
    /\ \A n \in 1..MaxKind :
         from[n] = from[n - 1] \cup
                   UNION {{h[t][k] : k \in Keys} \cap Tables : t \in from[n - 1]}

LEMMA ReachedLaw ==
    ASSUME NEW h, NEW R
    PROVE  \E from : Spreads(h, R, from)
  <1> DEFINE Body(f, n) == IF n = 0 THEN R \cap Tables
                           ELSE f[n - 1] \cup
                                UNION {{h[t][k] : k \in Keys} \cap Tables : t \in f[n - 1]}
             Good(k, f) == f = [n \in 0..k |-> Body(f, n)]
             S == {k \in Nat : \E f : Good(k, f)}
             F == CHOOSE f : Good(MaxKind, f)
  <1>1. 0 \in S
    <2> DEFINE f == [n \in 0..0 |-> R \cap Tables]
    <2>1. Good(0, f)
      OBVIOUS
    <2> QED
      BY <2>1
  <1>2. ASSUME NEW k \in Nat, k \in S
        PROVE  k + 1 \in S
    <2>1. PICK old : Good(k, old)
      BY <1>2
    <2> DEFINE f == [n \in 0..(k + 1) |-> IF n = k + 1 THEN Body(old, n) ELSE old[n]]
    <2>2. ASSUME NEW n \in 0..(k + 1)
          PROVE  f[n] = Body(f, n)
      <3>1. f[n] = Body(old, n)
        <4>1. n \in 0..k => old[n] = Body(old, n)
          BY <2>1
        <4> QED
          BY <4>1
      <3>2. n # 0 => f[n - 1] = old[n - 1]
        OBVIOUS
      <3> HIDE DEF f
      <3> QED
        BY <3>1, <3>2
    <2>3. Good(k + 1, f)
      BY <2>2
    <2> HIDE DEF Good
    <2> QED
      BY <2>3
  <1>3. MaxKind \in S
    <2> HIDE DEF S
    <2> QED
      BY <1>1, <1>2, SetInduction, KindAssumption
  <1>4. Good(MaxKind, F)
    <2> HIDE DEF Good
    <2> QED
      BY <1>3
  <1>5. Reached(h, R) = F[MaxKind]
    BY DEF Reached
  <1> HIDE DEF F
  <1>6. \A n \in 0..MaxKind : F[n] = Body(F, n)
    BY <1>4
  <1>7. 0 \in 0..MaxKind /\ \A n \in 1..MaxKind : n \in 0..MaxKind /\ n # 0
    BY KindAssumption
  <1> QED
    BY <1>5, <1>6, <1>7 DEF Spreads

LEMMA DerefLaw ==
    ASSUME NEW h, NEW d \in 0..MaxKind, NEW c \in Cells
    PROVE  Deref(h, d, c) = IF d = 0 \/ c \notin Tables THEN c
                            ELSE [k \in Keys |-> Deref(h, d - 1, h[c][k])]
  <1> DEFINE Body(f, n) == [cell \in Cells |->
                            IF n = 0 \/ cell \notin Tables THEN cell
                            ELSE [k \in Keys |-> f[n - 1][h[cell][k]]]]
             Good(k, f) == f = [n \in 0..k |-> Body(f, n)]
             S == {k \in Nat : \E f : Good(k, f)}
             F == CHOOSE f : Good(MaxKind, f)
  <1>1. 0 \in S
    <2> DEFINE f == [n \in 0..0 |-> [cell \in Cells |-> cell]]
    <2>1. Good(0, f)
      OBVIOUS
    <2> QED
      BY <2>1
  <1>2. ASSUME NEW k \in Nat, k \in S
        PROVE  k + 1 \in S
    <2>1. PICK old : Good(k, old)
      BY <1>2
    <2> DEFINE f == [n \in 0..(k + 1) |-> IF n = k + 1 THEN Body(old, n) ELSE old[n]]
    <2>2. ASSUME NEW n \in 0..(k + 1)
          PROVE  f[n] = Body(f, n)
      <3>1. f[n] = Body(old, n)
        <4>1. n \in 0..k => old[n] = Body(old, n)
          BY <2>1
        <4> QED
          BY <4>1
      <3>2. n # 0 => f[n - 1] = old[n - 1]
        OBVIOUS
      <3> HIDE DEF f
      <3> QED
        BY <3>1, <3>2
    <2>3. Good(k + 1, f)
      BY <2>2
    <2> HIDE DEF Good
    <2> QED
      BY <2>3
  <1>3. MaxKind \in S
    <2> HIDE DEF S
    <2> QED
      BY <1>1, <1>2, SetInduction, KindAssumption
  <1>4. Good(MaxKind, F)
    <2> HIDE DEF Good
    <2> QED
      BY <1>3
  <1>5. \A n, cell : Deref(h, n, cell) = F[n][cell]
    BY DEF Deref
  <1> HIDE DEF F
  <1>6. F[d] = Body(F, d)
    BY <1>4
  <1>7. F[d][c] = IF d = 0 \/ c \notin Tables THEN c ELSE [k \in Keys |-> F[d - 1][h[c][k]]]
    BY <1>6
  <1> QED
    BY <1>5, <1>7

LEMMA DerefTable ==
    ASSUME NEW h, NEW d \in 1..MaxKind, NEW t \in Tables
    PROVE  Deref(h, d, t) = [k \in Keys |-> Deref(h, d - 1, h[t][k])]
  <1>1. d \in 0..MaxKind /\ d # 0 /\ t \in Cells
    BY DEF Cells
  <1>2. Deref(h, d, t) = IF d = 0 \/ t \notin Tables THEN t
                         ELSE [k \in Keys |-> Deref(h, d - 1, h[t][k])]
    BY <1>1, DerefLaw
  <1> QED
    BY <1>1, <1>2

LEMMA DerefOther ==
    ASSUME NEW h, NEW d \in 0..MaxKind, NEW c \in Scalars \cup {Absent}
    PROVE  Deref(h, d, c) = c
  <1>1. c \in Cells /\ c \notin Tables
    BY CellAssumption DEF Cells
  <1> QED
    BY <1>1, DerefLaw

-----------------------------------------------------------------------------
(* Kinds of cells. *)

(* The cells that hold a value of d map levels. *)
OfKind(h) ==
    LET kind[d \in 0..MaxKind] ==
          IF d = 0 THEN Scalars
          ELSE {t \in Tables : \A k \in Keys : h[t][k] \in kind[d - 1] \cup {Absent}}
    IN  kind

LEMMA OfKindLaw ==
    ASSUME NEW h
    PROVE  /\ OfKind(h)[0] = Scalars
           /\ \A d \in 1..MaxKind :
                OfKind(h)[d] = {t \in Tables : \A k \in Keys :
                                  h[t][k] \in OfKind(h)[d - 1] \cup {Absent}}
  <1> DEFINE Body(f, n) == IF n = 0 THEN Scalars
                           ELSE {t \in Tables : \A k \in Keys : h[t][k] \in f[n - 1] \cup {Absent}}
             Good(k, f) == f = [n \in 0..k |-> Body(f, n)]
             S == {k \in Nat : \E f : Good(k, f)}
             F == CHOOSE f : Good(MaxKind, f)
  <1>1. 0 \in S
    <2> DEFINE f == [n \in 0..0 |-> Scalars]
    <2>1. Good(0, f)
      OBVIOUS
    <2> QED
      BY <2>1
  <1>2. ASSUME NEW k \in Nat, k \in S
        PROVE  k + 1 \in S
    <2>1. PICK old : Good(k, old)
      BY <1>2
    <2> DEFINE f == [n \in 0..(k + 1) |-> IF n = k + 1 THEN Body(old, n) ELSE old[n]]
    <2>2. ASSUME NEW n \in 0..(k + 1)
          PROVE  f[n] = Body(f, n)
      <3>1. f[n] = Body(old, n)
        <4>1. n \in 0..k => old[n] = Body(old, n)
          BY <2>1
        <4> QED
          BY <4>1
      <3>2. n # 0 => f[n - 1] = old[n - 1]
        OBVIOUS
      <3> HIDE DEF f
      <3> QED
        BY <3>1, <3>2
    <2>3. Good(k + 1, f)
      BY <2>2
    <2> HIDE DEF Good
    <2> QED
      BY <2>3
  <1>3. MaxKind \in S
    <2> HIDE DEF S
    <2> QED
      BY <1>1, <1>2, SetInduction, KindAssumption
  <1>4. Good(MaxKind, F)
    <2> HIDE DEF Good
    <2> QED
      BY <1>3
  <1>5. OfKind(h) = F
    BY DEF OfKind
  <1> HIDE DEF F
  <1>6. \A n \in 0..MaxKind : F[n] = Body(F, n)
    BY <1>4
  <1>7. 0 \in 0..MaxKind /\ \A n \in 1..MaxKind : n \in 0..MaxKind /\ n # 0
    BY KindAssumption
  <1> HIDE DEF Good, S
  <1>8. F[0] = Scalars
    BY <1>6, <1>7
  <1>9. ASSUME NEW d \in 1..MaxKind
        PROVE  F[d] = {t \in Tables : \A k \in Keys : h[t][k] \in F[d - 1] \cup {Absent}}
    BY <1>6, <1>7
  <1> QED
    BY <1>5, <1>8, <1>9

HeapType == [Tables -> [Keys -> Cells]]

(* A cell of a kind denotes a value of that kind, which is not nothing.     *)
LEMMA KindDenotes ==
    ASSUME NEW h \in HeapType, NEW d \in 0..MaxKind, NEW c \in OfKind(h)[d]
    PROVE  /\ c \in Cells /\ c # Absent /\ (c \in Tables <=> d # 0)
           /\ Deref(h, d, c) \in Values!Value[d] /\ Deref(h, d, c) # Absent
  <1> DEFINE S == {n \in Nat : n <= MaxKind => \A cell \in OfKind(h)[n] :
                                 Deref(h, n, cell) \in Values!Value[n]}
  <1>1. \A n \in 1..MaxKind : OfKind(h)[n] \subseteq Tables
    BY OfKindLaw
  <1>2. 0 \in S
    <2>1. 0 \in 0..MaxKind /\ Scalars \subseteq Cells
      BY KindAssumption DEF Cells
    <2>2. \A cell \in Scalars : Deref(h, 0, cell) = cell
      BY <2>1, DerefLaw
    <2> QED
      BY <2>2, OfKindLaw, ValueLaw
  <1>3. ASSUME NEW n \in Nat, n \in S
        PROVE  n + 1 \in S
    <2> SUFFICES ASSUME n + 1 <= MaxKind, NEW t \in OfKind(h)[n + 1]
                 PROVE  Deref(h, n + 1, t) \in Values!Value[n + 1]
      OBVIOUS
    <2>1. /\ n + 1 \in 1..MaxKind /\ n + 1 \in 0..MaxKind /\ n \in 0..MaxKind
          /\ (n + 1) - 1 = n /\ n + 1 # 0
      BY KindAssumption
    <2>2. t \in Tables /\ \A k \in Keys : h[t][k] \in OfKind(h)[n] \cup {Absent}
      BY <2>1, OfKindLaw
    <2>3. t \in Cells /\ Absent \in Cells /\ Absent \notin Tables
      BY <2>2, CellAssumption DEF Cells
    <2>4. Deref(h, n + 1, t) = [k \in Keys |-> Deref(h, n, h[t][k])]
      BY <2>1, <2>2, <2>3, DerefLaw
    <2>5. Deref(h, n, Absent) = Absent
      BY <2>1, <2>3, DerefLaw
    <2>6. \A k \in Keys : Deref(h, n, h[t][k]) \in Values!Value[n] \cup {Absent}
      BY <1>3, <2>1, <2>2, <2>5
    <2>7. Values!Value[n + 1] = [Keys -> Values!Value[n] \cup {Absent}]
      BY <2>1, ValueLaw
    <2> QED
      BY <2>4, <2>6, <2>7
  <1> HIDE DEF S
  <1>4. d \in S
    BY <1>2, <1>3, SetInduction
  <1>5. Deref(h, d, c) \in Values!Value[d]
    BY <1>4 DEF S
  <1>6. CASE d = 0
    <2>1. c \in Scalars /\ Scalars \subseteq Cells
      BY <1>6, OfKindLaw DEF Cells
    <2>2. Values!Value[0] = Scalars
      BY ValueLaw
    <2> QED
      BY <1>5, <1>6, <2>1, <2>2, CellAssumption, KindAssumption
  <1>7. CASE d # 0
    <2>1. d \in 1..MaxKind
      BY <1>7
    <2> QED
      BY <1>1, <1>5, <1>7, <2>1, CellAssumption DEF Cells
  <1> QED
    BY <1>6, <1>7

(* What a cell holds depends only on the tables it leads to. *)
LEMMA Framed ==
    ASSUME NEW h \in HeapType, NEW g \in HeapType, NEW C \in SUBSET Tables,
           \A t \in C : g[t] = h[t] /\ \A k \in Keys : h[t][k] \in Tables => h[t][k] \in C
    PROVE  \A d \in 0..MaxKind, c \in Cells : (c \in Tables => c \in C) =>
              /\ Deref(g, d, c) = Deref(h, d, c)
              /\ c \in OfKind(h)[d] => c \in OfKind(g)[d]
  <1> DEFINE Same(d, c) == /\ Deref(g, d, c) = Deref(h, d, c)
                           /\ c \in OfKind(h)[d] => c \in OfKind(g)[d]
             Inside == {c \in Cells : c \in Tables => c \in C}
             S == {n \in Nat : n <= MaxKind => \A c \in Inside : Same(n, c)}
  <1>1. 0 \in S
    <2>1. 0 \in 0..MaxKind
      BY KindAssumption
    <2>2. \A c \in Cells : Deref(g, 0, c) = c /\ Deref(h, 0, c) = c
      BY <2>1, DerefLaw
    <2>3. OfKind(g)[0] = OfKind(h)[0]
      BY OfKindLaw
    <2> QED
      BY <2>2, <2>3
  <1>2. ASSUME NEW n \in Nat, n \in S
        PROVE  n + 1 \in S
    <2> SUFFICES ASSUME n + 1 <= MaxKind, NEW c \in Inside
                 PROVE  Same(n + 1, c)
      OBVIOUS
    <2>1. /\ n + 1 \in 1..MaxKind /\ n + 1 \in 0..MaxKind
          /\ (n + 1) - 1 = n /\ n + 1 # 0 /\ n <= MaxKind
      BY KindAssumption
    <2>2. c \in Cells
      OBVIOUS
    <2>3. /\ Deref(g, n + 1, c) = IF c \notin Tables THEN c ELSE [k \in Keys |-> Deref(g, n, g[c][k])]
          /\ Deref(h, n + 1, c) = IF c \notin Tables THEN c ELSE [k \in Keys |-> Deref(h, n, h[c][k])]
      <3> DEFINE d == n + 1
      <3>1. d \in 0..MaxKind /\ d # 0 /\ d - 1 = n
        BY <2>1
      <3> HIDE DEF d, Inside
      <3>2. /\ Deref(g, d, c) = IF d = 0 \/ c \notin Tables THEN c
                               ELSE [k \in Keys |-> Deref(g, d - 1, g[c][k])]
            /\ Deref(h, d, c) = IF d = 0 \/ c \notin Tables THEN c
                               ELSE [k \in Keys |-> Deref(h, d - 1, h[c][k])]
        BY <3>1, <2>2, DerefLaw, ZenonT(60)
      <3>3. /\ Deref(g, d, c) = IF c \notin Tables THEN c ELSE [k \in Keys |-> Deref(g, n, g[c][k])]
            /\ Deref(h, d, c) = IF c \notin Tables THEN c ELSE [k \in Keys |-> Deref(h, n, h[c][k])]
        BY <3>1, <3>2
      <3> QED
        BY <3>3 DEF d
    <2>4. /\ OfKind(g)[n + 1] = {t \in Tables : \A k \in Keys : g[t][k] \in OfKind(g)[n] \cup {Absent}}
          /\ OfKind(h)[n + 1] = {t \in Tables : \A k \in Keys : h[t][k] \in OfKind(h)[n] \cup {Absent}}
      BY <2>1, OfKindLaw
    <2>5. CASE c \notin Tables
      BY <2>3, <2>4, <2>5
    <2>6. CASE c \in Tables
      <3>1. c \in C /\ g[c] = h[c]
        BY <2>6
      <3>2. \A k \in Keys : h[c][k] \in Inside
        BY <3>1 DEF HeapType
      <3>3. \A k \in Keys : Same(n, h[c][k])
        BY <1>2, <2>1, <3>2
      <3>4. \A k \in Keys : Deref(g, n, g[c][k]) = Deref(h, n, h[c][k])
        BY <3>1, <3>3
      <3>5. c \in OfKind(h)[n + 1] => c \in OfKind(g)[n + 1]
        BY <2>4, <2>6, <3>1, <3>3
      <3> QED
        BY <2>3, <2>6, <3>4, <3>5
    <2> QED
      BY <2>5, <2>6
  <1> HIDE DEF S, Same, Inside
  <1>3. ASSUME NEW d \in 0..MaxKind, NEW c \in Cells, c \in Tables => c \in C
        PROVE  Same(d, c)
    <2>1. d \in S /\ d <= MaxKind
      <3>1. d \in Nat /\ d <= MaxKind
        OBVIOUS
      <3> QED
        BY <1>1, <1>2, <3>1, SetInduction
    <2> QED
      BY <1>3, <2>1 DEF S, Inside
  <1> QED
    BY <1>3 DEF Same

-----------------------------------------------------------------------------
(* The tables that roots lead to. *)

Closed(h, C) == \A t \in C, k \in Keys : h[t][k] \in Tables => h[t][k] \in C

(* Nothing outside a closed set is reached from inside it. *)
LEMMA ReachedLeast ==
    ASSUME NEW h, NEW R, NEW C \in SUBSET Tables, Closed(h, C), R \cap Tables \subseteq C
    PROVE  Reached(h, R) \subseteq C
  <1>0. PICK from : Spreads(h, R, from)
    BY ReachedLaw
  <1>1. /\ Reached(h, R) = from[MaxKind]
        /\ from[0] = R \cap Tables
        /\ \A n \in 1..MaxKind :
             from[n] = from[n - 1] \cup
                       UNION {{h[t][k] : k \in Keys} \cap Tables : t \in from[n - 1]}
    BY <1>0 DEF Spreads
  <1> DEFINE S == {n \in Nat : n <= MaxKind => from[n] \subseteq C}
  <1>2. 0 \in S
    BY <1>1
  <1>3. ASSUME NEW n \in Nat, n \in S
        PROVE  n + 1 \in S
    <2> SUFFICES ASSUME n + 1 <= MaxKind
                 PROVE  from[n + 1] \subseteq C
      OBVIOUS
    <2>1. n + 1 \in 1..MaxKind /\ (n + 1) - 1 = n /\ n <= MaxKind
      BY KindAssumption
    <2>2. from[n] \subseteq C
      BY <1>3, <2>1
    <2>3. from[n + 1] = from[n] \cup UNION {{h[t][k] : k \in Keys} \cap Tables : t \in from[n]}
      BY <1>1, <2>1
    <2> QED
      BY <2>2, <2>3 DEF Closed
  <1> HIDE DEF S
  <1>4. MaxKind \in S
    BY <1>2, <1>3, SetInduction, KindAssumption
  <1> QED
    BY <1>1, <1>4, KindAssumption DEF S

(* The roots a program has: cells of some kind, and the empty table.        *)
Shallow(h, R) ==
    \A c \in R : c \in Tables => \/ \E d \in 1..MaxKind : c \in OfKind(h)[d]
                                 \/ h[c] = Emp

(* MaxKind levels are enough to reach every table below such roots.         *)
LEMMA ReachedClosed ==
    ASSUME NEW h, NEW R, Shallow(h, R)
    PROVE  /\ Reached(h, R) \subseteq Tables
           /\ R \cap Tables \subseteq Reached(h, R)
           /\ Closed(h, Reached(h, R))
  <1>0. PICK from : Spreads(h, R, from)
    BY ReachedLaw
  <1>1. /\ Reached(h, R) = from[MaxKind]
        /\ from[0] = R \cap Tables
        /\ \A n \in 1..MaxKind :
             from[n] = from[n - 1] \cup
                       UNION {{h[t][k] : k \in Keys} \cap Tables : t \in from[n - 1]}
    BY <1>0 DEF Spreads
  <1> DEFINE Below(n) == {t \in Tables : \/ \E d \in 1..(MaxKind - n) : t \in OfKind(h)[d]
                                         \/ h[t] = Emp}
             Edge(t) == {h[t][k] : k \in Keys} \cap Tables
             Sound(n) == /\ from[n] \subseteq Tables
                         /\ R \cap Tables \subseteq from[n]
                         /\ \A t \in from[n] : Edge(t) \subseteq from[n] \/ t \in Below(n)
             S == {n \in Nat : n <= MaxKind => Sound(n)}
  <1>2. 0 \in S
    <2>1. R \cap Tables \subseteq Below(0)
      BY KindAssumption DEF Shallow
    <2> QED
      BY <1>1, <2>1
  <1>3. ASSUME NEW t, t \in Tables, h[t] = Emp
        PROVE  Edge(t) = {}
    BY <1>3, CellAssumption DEF Emp
  <1>4. ASSUME NEW n \in Nat, n \in S
        PROVE  n + 1 \in S
    <2> SUFFICES ASSUME n + 1 <= MaxKind
                 PROVE  Sound(n + 1)
      OBVIOUS
    <2>1. n + 1 \in 1..MaxKind /\ (n + 1) - 1 = n /\ n <= MaxKind
      BY KindAssumption
    <2>2. Sound(n)
      BY <1>4, <2>1
    <2>3. from[n + 1] = from[n] \cup UNION {Edge(t) : t \in from[n]}
      BY <1>1, <2>1
    <2>4. ASSUME NEW t \in from[n + 1]
          PROVE  Edge(t) \subseteq from[n + 1] \/ t \in Below(n + 1)
      <3>1. CASE t \in from[n]
        BY <2>3, <3>1
      <3>2. CASE t \notin from[n]
        <4>1. PICK p \in from[n] : t \in Edge(p)
          BY <2>3, <3>2
        <4>2. p \in Below(n) /\ p \in Tables
          BY <2>2, <3>2, <4>1
        <4>3. h[p] # Emp
          BY <1>3, <4>1, <4>2
        <4>4. PICK d \in 1..(MaxKind - n) : p \in OfKind(h)[d]
          BY <4>2, <4>3
        <4>5. d \in 1..MaxKind
          BY KindAssumption
        <4>6. PICK k \in Keys : t = h[p][k] /\ t \in Tables
          BY <4>1
        <4>7. t \in OfKind(h)[d - 1]
          BY <4>4, <4>5, <4>6, OfKindLaw, CellAssumption
        <4>8. d - 1 # 0
          BY <4>6, <4>7, OfKindLaw, CellAssumption
        <4>9. d - 1 \in 1..(MaxKind - (n + 1))
          BY <4>8, KindAssumption
        <4> QED
          BY <4>6, <4>7, <4>9
      <3> QED
        BY <3>1, <3>2
    <2> HIDE DEF Below
    <2> QED
      BY <2>2, <2>3, <2>4
  <1> HIDE DEF S, Sound
  <1>5. MaxKind \in S
    BY <1>2, <1>4, SetInduction, KindAssumption
  <1>6. Sound(MaxKind)
    BY <1>5, KindAssumption DEF S
  <1>7. \A t \in from[MaxKind] : Edge(t) \subseteq from[MaxKind]
    <2>1. 1..(MaxKind - MaxKind) = {}
      BY KindAssumption
    <2> QED
      BY <1>3, <1>6, <2>1 DEF Sound
  <1> QED
    BY <1>1, <1>6, <1>7 DEF Closed, Sound

-----------------------------------------------------------------------------
(* The invariant of the heap h with fields fs and locals e. *)

Typed(h, fs, e) ==
    /\ h \in HeapType /\ fs \in [Fields -> Cells] /\ e \in [Vars -> Cells]
    /\ \A f \in Fields : fs[f] \in OfKind(h)[Kind[f]]
    /\ \A x \in Vars : e[x] \in OfKind(h)[Kind[x]] \cup {Absent}
    /\ h[EmpLiteral] = Emp

(* A table of F has one holder: a field, or one entry of a table of F. *)
OneHolder(h, fs, F) ==
    /\ \A f, g \in Fields : fs[f] = fs[g] /\ fs[f] \in Tables => f = g
    /\ \A t, u \in F, k, l \in Keys : h[t][k] = h[u][l] /\ h[t][k] \in Tables => t = u /\ k = l
    /\ \A f \in Fields, t \in F, k \in Keys : fs[f] \in Tables => fs[f] # h[t][k]

(* The fields are made of tables in F, the locals of tables in C. *)
Separated(h, fs, e, F, C) ==
    /\ F \subseteq Tables /\ C \subseteq Tables /\ F \cap C = {}
    /\ Closed(h, F) /\ Closed(h, C)
    /\ \A f \in Fields : fs[f] \in Tables => fs[f] \in F
    /\ \A x \in Vars : e[x] \in Tables => e[x] \in C
    /\ EmpLiteral \in C
    /\ OneHolder(h, fs, F)

Live(h, fs, e) == Reached(h, Roots(fs, e))

Settled(h, fs, e) ==
    /\ Typed(h, fs, e)
    /\ \E F, C : Separated(h, fs, e, F, C)
    /\ \A t \in FreshTables : t \notin Live(h, fs, e) => h[t] = Emp

LEMMA TypedShallow ==
    ASSUME NEW h, NEW fs, NEW e, Typed(h, fs, e)
    PROVE  \A R \in SUBSET Roots(fs, e) : Shallow(h, R)
  <1>1. \A f \in Fields : fs[f] \in Tables => Kind[f] \in 1..MaxKind
    <2>1. \A f \in Fields : Kind[f] \in 0..MaxKind
      BY KindAssumption
    <2>2. \A f \in Fields : fs[f] \in OfKind(h)[Kind[f]]
      BY DEF Typed
    <2> QED
      BY <2>1, <2>2, OfKindLaw, CellAssumption
  <1>2. \A x \in Vars : e[x] \in Tables => Kind[x] \in 1..MaxKind /\ e[x] \in OfKind(h)[Kind[x]]
    <2>1. \A x \in Vars : Kind[x] \in 0..MaxKind
      BY KindAssumption
    <2>2. \A x \in Vars : e[x] \in Tables => e[x] \in OfKind(h)[Kind[x]]
      BY CellAssumption DEF Typed
    <2> QED
      BY <2>1, <2>2, OfKindLaw, CellAssumption
  <1> QED
    BY <1>1, <1>2 DEF Typed, Shallow, Roots

(* The tables that are alive are the fields' and the locals', apart. *)
LEMMA LiveParts ==
    ASSUME NEW h, NEW fs, NEW e, Typed(h, fs, e),
           NEW F, NEW C, Separated(h, fs, e, F, C)
    PROVE  /\ Closed(h, Live(h, fs, e)) /\ Live(h, fs, e) \subseteq F \cup C
           /\ Roots(fs, e) \cap Tables \subseteq Live(h, fs, e)
           /\ Separated(h, fs, e, F \cap Live(h, fs, e), C \cap Live(h, fs, e))
  <1>1. EmpLiteral \in Tables /\ Roots(fs, e) \cap Tables \subseteq F \cup C
    BY DEF Roots, Separated, Tables
  <1>2. Closed(h, F \cup C)
    BY DEF Separated, Closed
  <1>3. Live(h, fs, e) \subseteq F \cup C
    BY <1>1, <1>2, ReachedLeast DEF Live, Separated
  <1>4. /\ Closed(h, Live(h, fs, e))
        /\ Roots(fs, e) \cap Tables \subseteq Live(h, fs, e)
    BY TypedShallow, ReachedClosed DEF Live
  <1>5. Closed(h, F \cap Live(h, fs, e)) /\ Closed(h, C \cap Live(h, fs, e))
    BY <1>4 DEF Separated, Closed
  <1>6. OneHolder(h, fs, F \cap Live(h, fs, e))
    BY DEF Separated, OneHolder
  <1>7. /\ \A f \in Fields : fs[f] \in Roots(fs, e)
        /\ \A x \in Vars : e[x] \in Roots(fs, e)
        /\ EmpLiteral \in Roots(fs, e)
    BY DEF Roots
  <1> QED
    BY <1>1, <1>3, <1>4, <1>5, <1>6, <1>7 DEF Separated

(* Garbage collection forgets nothing that a field or a local denotes. *)
LEMMA Collecting ==
    ASSUME NEW h, NEW fs, NEW e, Typed(h, fs, e),
           NEW F, NEW C, Separated(h, fs, e, F, C)
    PROVE  /\ Settled(Collect(h, fs, e), fs, e)
           /\ \A f \in Fields :
                Deref(Collect(h, fs, e), Kind[f], fs[f]) = Deref(h, Kind[f], fs[f])
           /\ \A x \in Vars :
                Deref(Collect(h, fs, e), Kind[x], e[x]) = Deref(h, Kind[x], e[x])
  <1> DEFINE g == Collect(h, fs, e)
             A == Live(h, fs, e)
             R == Roots(fs, e)
  <1>1. /\ Closed(h, A) /\ A \subseteq F \cup C /\ R \cap Tables \subseteq A
        /\ Separated(h, fs, e, F \cap A, C \cap A)
    BY LiveParts
  <1>2. A \subseteq Tables
    BY <1>1 DEF Separated
  <1>3. h \in HeapType
    BY DEF Typed
  <1>4. g = [t \in Tables |-> IF t \in A THEN h[t] ELSE Emp]
    BY DEF Collect, Live
  <1>5. g \in HeapType
    <2>1. Emp \in [Keys -> Cells]
      BY DEF Emp, Cells
    <2> QED
      BY <1>3, <1>4, <2>1 DEF HeapType
  <1>6. \A t \in A : g[t] = h[t]
    BY <1>2, <1>4
  <1> HIDE DEF g, A
  <1>7. \A d \in 0..MaxKind, c \in Cells : (c \in Tables => c \in A) =>
              /\ Deref(g, d, c) = Deref(h, d, c)
              /\ c \in OfKind(h)[d] => c \in OfKind(g)[d]
    <2>1. \A t \in A : g[t] = h[t] /\ \A k \in Keys : h[t][k] \in Tables => h[t][k] \in A
      BY <1>1, <1>6 DEF Closed
    <2> QED
      BY <1>2, <1>3, <1>5, <2>1, Framed
  <1>8. /\ \A f \in Fields : /\ Kind[f] \in 0..MaxKind /\ fs[f] \in Cells
                             /\ fs[f] \in Tables => fs[f] \in A
        /\ \A x \in Vars : /\ Kind[x] \in 0..MaxKind /\ e[x] \in Cells
                           /\ e[x] \in Tables => e[x] \in A
    BY <1>1, KindAssumption DEF Typed, Roots
  <1>9. g[EmpLiteral] = Emp
    <2>1. EmpLiteral \in A
      BY <1>1 DEF Separated
    <2> QED
      BY <1>6, <2>1 DEF Typed
  <1>10. Typed(g, fs, e)
    BY <1>5, <1>7, <1>8, <1>9 DEF Typed
  <1>11. Separated(g, fs, e, F \cap A, C \cap A)
    BY <1>1, <1>6 DEF Separated, Closed, OneHolder
  <1>12. Live(g, fs, e) = A
    <2> DEFINE B == Live(g, fs, e)
    <2>1. Closed(g, B) /\ B \subseteq (F \cap A) \cup (C \cap A) /\ R \cap Tables \subseteq B
      BY <1>10, <1>11, LiveParts
    <2>2. B \subseteq A
      BY <2>1
    <2>3. Closed(h, B)
      BY <1>6, <2>1, <2>2 DEF Closed
    <2>4. A \subseteq B
      BY <1>2, <2>1, <2>2, <2>3, ReachedLeast DEF Live, A
    <2> QED
      BY <2>2, <2>4
  <1>13. \A t \in FreshTables : t \notin A => g[t] = Emp
    BY <1>4 DEF Tables
  <1>14. Settled(g, fs, e)
    BY <1>10, <1>11, <1>12, <1>13 DEF Settled
  <1> QED
    BY <1>7, <1>8, <1>14 DEF g

-----------------------------------------------------------------------------
(* Reading along a list of keys. *)

LEMMA PathLaw ==
    ASSUME NEW d \in Nat, NEW ks \in Paths(d)
    PROVE  Len(ks) \in 1..d /\ ks \in [1..Len(ks) -> Keys]
  <1>1. PICK n \in 1..d : ks \in [1..n -> Keys]
    BY DEF Paths
  <1>2. ks \in Seq(Keys)
    BY <1>1
  <1>3. Len(ks) = n
    BY <1>1, <1>2, LenProperties
  <1> QED
    BY <1>1, <1>3

(* The cells met on a walk have the kinds left and denote the values met. *)
LEMMA WalkDenotes ==
    ASSUME NEW h \in HeapType, NEW d \in 0..MaxKind, NEW c \in OfKind(h)[d], NEW ks \in Paths(d)
    PROVE  \A j \in 0..Len(ks) :
             /\ Walk(h, c, ks)[j] \in OfKind(h)[d - j] \cup {Absent}
             /\ Walk(h, c, ks)[j] \in Cells
             /\ Deref(h, d - j, Walk(h, c, ks)[j]) = Values!Along(Deref(h, d, c), ks)[j]
             /\ j < Len(ks) /\ Walk(h, c, ks)[j] # Absent => Walk(h, c, ks)[j] \in Tables
  <1> DEFINE w == Walk(h, c, ks)
             a == Values!Along(Deref(h, d, c), ks)
             S == {j \in Nat : j <= Len(ks) =>
                      /\ w[j] \in OfKind(h)[d - j] \cup {Absent}
                      /\ Deref(h, d - j, w[j]) = a[j]}
  <1>1. d \in Nat /\ Len(ks) \in 1..d /\ Len(ks) \in Nat /\ ks \in [1..Len(ks) -> Keys] /\ d <= MaxKind
    BY PathLaw, KindAssumption
  <1>2. /\ w[0] = c /\ a[0] = Deref(h, d, c)
        /\ \A n \in 1..Len(ks) :
             /\ w[n] = IF w[n - 1] = Absent THEN Absent ELSE h[w[n - 1]][ks[n]]
             /\ a[n] = IF a[n - 1] = Absent THEN Absent ELSE a[n - 1][ks[n]]
    BY <1>1, WalkLaw, AlongLaw
  <1> HIDE DEF w, a
  <1>3. \A n \in 0..MaxKind : Absent \in Cells /\ Deref(h, n, Absent) = Absent
    <2>1. Absent \in Cells /\ Absent \notin Tables
      BY CellAssumption DEF Cells
    <2> QED
      BY <2>1, DerefLaw
  <1>4. 0 \in S
    <2>1. d - 0 = d
      BY <1>1
    <2> QED
      BY <1>2, <2>1
  <1>5. ASSUME NEW j \in Nat, j \in S
        PROVE  j + 1 \in S
    <2> SUFFICES ASSUME j + 1 <= Len(ks)
                 PROVE  /\ w[j + 1] \in OfKind(h)[d - (j + 1)] \cup {Absent}
                        /\ Deref(h, d - (j + 1), w[j + 1]) = a[j + 1]
      OBVIOUS
    <2> DEFINE m == d - j
    <2>1. /\ j + 1 \in 1..Len(ks) /\ (j + 1) - 1 = j /\ j <= Len(ks)
          /\ d - (j + 1) = m - 1 /\ m \in 1..MaxKind /\ m - 1 \in 0..MaxKind /\ m \in 0..MaxKind
      BY <1>1, KindAssumption
    <2>2. w[j] \in OfKind(h)[m] \cup {Absent} /\ Deref(h, m, w[j]) = a[j]
      BY <1>5, <2>1
    <2> HIDE DEF m, S
    <2>3. CASE w[j] = Absent
      <3>1. a[j] = Absent
        BY <1>3, <2>1, <2>2, <2>3
      <3>2. w[j + 1] = Absent /\ a[j + 1] = Absent
        BY <1>2, <2>1, <2>3, <3>1
      <3> QED
        BY <1>3, <2>1, <3>2
    <2>4. CASE w[j] # Absent
      <3>1. w[j] \in OfKind(h)[m]
        BY <2>2, <2>4
      <3>2. w[j] \in Cells /\ w[j] \in Tables /\ a[j] # Absent
        BY <2>1, <2>2, <3>1, KindDenotes
      <3>3. ks[j + 1] \in Keys
        BY <1>1, <2>1
      <3>4. w[j + 1] = h[w[j]][ks[j + 1]] /\ a[j + 1] = a[j][ks[j + 1]]
        BY <1>2, <2>1, <2>4, <3>2
      <3>5. h[w[j]][ks[j + 1]] \in OfKind(h)[m - 1] \cup {Absent}
        BY <2>1, <3>1, <3>3, OfKindLaw
      <3>6. Deref(h, m, w[j]) = [k \in Keys |-> Deref(h, m - 1, h[w[j]][k])]
        <4>1. m # 0 /\ m \in 0..MaxKind
          BY <2>1
        <4>2. Deref(h, m, w[j]) = IF m = 0 \/ w[j] \notin Tables THEN w[j]
                                  ELSE [k \in Keys |-> Deref(h, m - 1, h[w[j]][k])]
          BY <4>1, <3>2, DerefLaw, ZenonT(60)
        <4> QED
          BY <4>1, <4>2, <3>2
      <3> QED
        BY <2>1, <2>2, <3>3, <3>4, <3>5, <3>6
    <2> QED
      BY <2>3, <2>4
  <1> HIDE DEF S
  <1>6. ASSUME NEW j \in 0..Len(ks)
        PROVE  /\ w[j] \in OfKind(h)[d - j] \cup {Absent}
               /\ w[j] \in Cells
               /\ Deref(h, d - j, w[j]) = a[j]
               /\ j < Len(ks) /\ w[j] # Absent => w[j] \in Tables
    <2>1. j \in S /\ j <= Len(ks)
      <3>1. j \in Nat /\ j <= Len(ks)
        BY <1>1
      <3> QED
        BY <1>4, <1>5, <3>1, SetInduction
    <2>2. w[j] \in OfKind(h)[d - j] \cup {Absent} /\ Deref(h, d - j, w[j]) = a[j]
      BY <2>1 DEF S
    <2>3. d - j \in 0..MaxKind /\ (j < Len(ks) => d - j # 0)
      BY <1>1, KindAssumption
    <2> DEFINE m == d - j
    <2>4. m \in 0..MaxKind /\ (j < Len(ks) => m # 0) /\ w[j] \in OfKind(h)[m] \cup {Absent}
      BY <2>2, <2>3
    <2> HIDE DEF m
    <2>5. w[j] # Absent => w[j] \in Cells /\ (w[j] \in Tables <=> m # 0)
      BY <2>4, KindDenotes
    <2> QED
      BY <1>3, <2>2, <2>3, <2>4, <2>5
  <1> QED
    BY <1>6 DEF w, a

(* So a fetch from a map yields what the map holds there. *)
LEMMA FetchDenotes ==
    ASSUME NEW h \in HeapType, NEW d \in 0..MaxKind, NEW c \in OfKind(h)[d], NEW ks \in Paths(d)
    PROVE  /\ d - Len(ks) \in 0..MaxKind
           /\ FetchLocal(h, c, ks) \in OfKind(h)[d - Len(ks)] \cup {Absent}
           /\ Deref(h, d - Len(ks), FetchLocal(h, c, ks)) = Values!Get(Deref(h, d, c), ks)
           /\ FetchLocal(h, c, ks) = Absent <=> Values!Get(Deref(h, d, c), ks) = Absent
  <1>1. Len(ks) \in 0..Len(ks) /\ d - Len(ks) \in 0..MaxKind
    BY PathLaw, KindAssumption
  <1>2. /\ FetchLocal(h, c, ks) \in OfKind(h)[d - Len(ks)] \cup {Absent}
        /\ Deref(h, d - Len(ks), FetchLocal(h, c, ks)) = Values!Get(Deref(h, d, c), ks)
    BY <1>1, WalkDenotes DEF FetchLocal, Values!Get
  <1>3. Absent \in Cells /\ Absent \notin Tables
    BY CellAssumption DEF Cells
  <1>4. Deref(h, d - Len(ks), Absent) = Absent
    BY <1>1, <1>3, DerefLaw
  <1>5. \A n \in 0..MaxKind : \A cell \in OfKind(h)[n] : Deref(h, n, cell) # Absent
    BY KindDenotes
  <1> QED
    BY <1>1, <1>2, <1>4, <1>5

-----------------------------------------------------------------------------
(* Writing along a list of keys. *)

(* g is h with the cells `at' along ks linked: new tables where there were  *)
(* none, and w at the end.                                                  *)
Writes(h, fs, e, f, ks, w, new, at, g) ==
    /\ w \in Scalars \cup {Absent} /\ (w \in Scalars => Len(ks) = Kind[f])
    /\ new \in Injection(Missing(h, fs[f], ks), FreshTables \ Live(h, fs, e))
    /\ at = [n \in 0..Len(ks) |->
               IF n = Len(ks) THEN w
               ELSE IF n \in Missing(h, fs[f], ks) THEN new[n] ELSE Walk(h, fs[f], ks)[n]]
    /\ g = Linked(h, at, ks)

(* g is a well-formed heap in which f denotes v, and nothing else changed. *)
Updated(h, g, fs, e, f, v) ==
    /\ Typed(g, fs, e) /\ \E F, C : Separated(g, fs, e, F, C)
    /\ Deref(g, Kind[f], fs[f]) = v
    /\ \A f1 \in Fields \ {f} : Deref(g, Kind[f1], fs[f1]) = Deref(h, Kind[f1], fs[f1])
    /\ \A x \in Vars : Deref(g, Kind[x], e[x]) = Deref(h, Kind[x], e[x])

(* Linking puts w at ks in the field and changes nothing else.              *)
LEMMA Linking ==
    ASSUME NEW h, NEW fs, NEW e, Settled(h, fs, e),
           NEW f \in Fields, NEW ks \in Paths(Kind[f]),
           NEW w, NEW new, NEW at, NEW g, Writes(h, fs, e, f, ks, w, new, at, g)
    PROVE  /\ Updated(h, g, fs, e, f, Values!Put(Deref(h, Kind[f], fs[f]), ks, w))
           /\ \A m \in 1..Len(ks) : \A k \in Keys :
                g[at[m - 1]][k] = IF k = ks[m] THEN at[m] ELSE h[at[m - 1]][k]
           /\ \A t \in Tables : (\A m \in 1..Len(ks) : t # at[m - 1]) => g[t] = h[t]
  <1> DEFINE d == Kind[f]
             n == Len(ks)
             old == Walk(h, fs[f], ks)
             N == Missing(h, fs[f], ks)
             val == Values!Along(Deref(h, d, fs[f]), ks)
  <1>1. /\ d \in Nat /\ d <= MaxKind /\ d \in 0..MaxKind
        /\ n \in Nat /\ 1 <= n /\ n <= d /\ ks \in [1..n -> Keys]
    <2>1. d \in 0..MaxKind /\ d \in Nat /\ d <= MaxKind
      BY KindAssumption
    <2>2. n \in 1..d /\ ks \in [1..n -> Keys]
      BY <2>1, PathLaw
    <2> HIDE DEF d, n
    <2> QED
      BY <2>1, <2>2
  <1>2. Typed(h, fs, e) /\ h \in HeapType
    BY DEF Settled, Typed
  <1>3. \E F, C : Separated(h, fs, e, F, C) /\ F \cup C \subseteq Live(h, fs, e)
    <2>1. PICK F, C : Separated(h, fs, e, F, C)
      BY DEF Settled
    <2>2. Separated(h, fs, e, F \cap Live(h, fs, e), C \cap Live(h, fs, e))
      BY <1>2, <2>1, LiveParts
    <2> QED
      BY <2>2
  <1>4. PICK F, C : Separated(h, fs, e, F, C) /\ F \cup C \subseteq Live(h, fs, e)
    BY <1>3
  <1>40. /\ \A f1, f2 \in Fields : fs[f1] = fs[f2] /\ fs[f1] \in Tables => f1 = f2
         /\ \A t, u \in F : \A k, l \in Keys :
               h[t][k] = h[u][l] /\ h[t][k] \in Tables => t = u /\ k = l
         /\ \A f1 \in Fields : \A t \in F : \A k \in Keys :
               fs[f1] \in Tables => fs[f1] # h[t][k]
    BY <1>4 DEF Separated, OneHolder
  <1>41. F \subseteq Tables /\ C \subseteq Tables /\ F \cap C = {}
    BY <1>4 DEF Separated
  <1>42. /\ \A t \in F : \A k \in Keys : h[t][k] \in Tables => h[t][k] \in F
         /\ \A t \in C : \A k \in Keys : h[t][k] \in Tables => h[t][k] \in C
    BY <1>4 DEF Separated, Closed
  <1>5. /\ old[0] = fs[f]
        /\ \A j \in 1..n : old[j] = IF old[j - 1] = Absent THEN Absent ELSE h[old[j - 1]][ks[j]]
    <2>1. Len(ks) \in Nat
      BY <1>1
    <2>2. /\ Walk(h, fs[f], ks)[0] = fs[f]
          /\ \A j \in 1..Len(ks) :
               Walk(h, fs[f], ks)[j] =
                 IF Walk(h, fs[f], ks)[j - 1] = Absent THEN Absent
                 ELSE h[Walk(h, fs[f], ks)[j - 1]][ks[j]]
      BY <2>1, WalkLaw
    <2> QED
      BY <2>2
  <1>6. \A j \in 0..n :
          /\ old[j] \in OfKind(h)[d - j] \cup {Absent}
          /\ Deref(h, d - j, old[j]) = val[j]
          /\ j < n /\ old[j] # Absent => old[j] \in Tables
    <2>1. fs[f] \in OfKind(h)[d]
      BY <1>2 DEF Typed
    <2> QED
      BY <1>1, <1>2, <2>1, WalkDenotes
  <1>7. N = {j \in 1..(n - 1) : old[j] = Absent}
    BY DEF Missing
  <1>8. \A j \in N : /\ new[j] \in Tables /\ new[j] \notin F \cup C /\ h[new[j]] = Emp
                     /\ \A i \in N : new[i] = new[j] => i = j
    <2>1. new \in [N -> FreshTables \ Live(h, fs, e)]
      BY DEF Writes, N, Injection
    <2>2. \A i, j \in N : new[i] = new[j] => i = j
      BY <2>1 DEF Writes, N, Injection, IsInjective
    <2>3. \A t \in FreshTables \ Live(h, fs, e) : t \in Tables /\ t \notin F \cup C /\ h[t] = Emp
      BY <1>4 DEF Settled, Tables
    <2> QED
      BY <2>1, <2>2, <2>3
  <1>9. /\ at[n] = w
        /\ \A j \in 0..(n - 1) : at[j] = IF j \in N THEN new[j] ELSE old[j]
    <2> HIDE DEF n, N, old
    <2>1. n \in 0..n /\ \A j \in 0..(n - 1) : j \in 0..n /\ j # n
      BY <1>1
    <2>2. at = [j \in 0..n |-> IF j = n THEN w ELSE IF j \in N THEN new[j] ELSE old[j]]
      BY DEF Writes, n, N, old
    <2> QED
      BY <2>1, <2>2
  <1> HIDE DEF d, n, old, N, val
  <1>10. fs[f] \in Tables /\ fs[f] # Absent /\ fs[f] \in F
    <2>1. old[0] \in OfKind(h)[d]
      BY <1>2, <1>5 DEF Typed, d
    <2>2. d # 0
      BY <1>1
    <2> QED
      BY <1>1, <1>2, <1>4, <1>5, <2>1, <2>2, KindDenotes DEF Separated
  (* The tables on the way belong to the field, and are all different. *)
  <1>11. \A j \in Nat : j < n /\ old[j] # Absent => old[j] \in F
    <2> DEFINE S == {j \in Nat : j < n /\ old[j] # Absent => old[j] \in F}
    <2>1. 0 \in S
      BY <1>5, <1>10
    <2>2. ASSUME NEW j \in Nat, j \in S
          PROVE  j + 1 \in S
      <3> SUFFICES ASSUME j + 1 < n, old[j + 1] # Absent
                   PROVE  old[j + 1] \in F
        OBVIOUS
      <3>1. j + 1 \in 1..n /\ (j + 1) - 1 = j /\ j < n /\ j + 1 \in 0..n
        BY <1>1
      <3>2. old[j] # Absent /\ old[j + 1] = h[old[j]][ks[j + 1]] /\ ks[j + 1] \in Keys
        BY <1>1, <1>5, <3>1
      <3>3. old[j] \in F
        BY <2>2, <3>1, <3>2
      <3>4. old[j + 1] \in Tables
        BY <1>6, <3>1
      <3> QED
        BY <1>4, <3>2, <3>3, <3>4 DEF Separated, Closed
    <2> HIDE DEF S
    <2>3. Nat \subseteq S
      BY <2>1, <2>2, SetInduction
    <2> QED
      BY <2>3 DEF S
  <1>12. \A i \in Nat : \A j \in Nat : i < j /\ j < n /\ old[i] # Absent => old[i] # old[j]
    <2> DEFINE S == {i \in Nat : \A j \in Nat : i < j /\ j < n /\ old[i] # Absent => old[i] # old[j]}
    <2>0. ASSUME NEW j \in Nat, 0 < j, j < n, old[j] # Absent
          PROVE  /\ j - 1 \in Nat /\ old[j - 1] # Absent /\ old[j - 1] \in F
                 /\ ks[j] \in Keys /\ old[j] = h[old[j - 1]][ks[j]] /\ old[j] \in Tables
      <3>1. j \in 1..n /\ j \in 0..n /\ j - 1 \in Nat /\ j - 1 < n
        BY <1>1, <2>0
      <3>2. old[j - 1] # Absent /\ old[j] = h[old[j - 1]][ks[j]] /\ ks[j] \in Keys
        BY <1>1, <1>5, <2>0, <3>1
      <3>3. old[j - 1] \in F
        BY <1>11, <3>1, <3>2
      <3>4. old[j] \in Tables
        BY <1>6, <2>0, <3>1
      <3> QED
        BY <3>1, <3>2, <3>3, <3>4
    <2>1. 0 \in S
      <3> SUFFICES ASSUME NEW j \in Nat, 0 < j, j < n, old[0] # Absent, old[0] = old[j]
                   PROVE  FALSE
        OBVIOUS
      <3>1. old[j - 1] \in F /\ ks[j] \in Keys /\ old[j] = h[old[j - 1]][ks[j]]
        BY <2>0
      <3> QED
        <4>1. fs[f] = h[old[j - 1]][ks[j]] /\ fs[f] \in Tables
          BY <1>5, <1>10, <3>1
        <4>2. fs[f] # h[old[j - 1]][ks[j]]
          BY <1>40, <3>1, <4>1
        <4> QED
          BY <4>1, <4>2
    <2>2. ASSUME NEW i \in Nat, i \in S
          PROVE  i + 1 \in S
      <3> SUFFICES ASSUME NEW j \in Nat, i + 1 < j, j < n, old[i + 1] # Absent,
                          old[i + 1] = old[j]
                   PROVE  FALSE
        OBVIOUS
      <3>1. i + 1 \in Nat /\ 0 < i + 1 /\ i + 1 < n /\ (i + 1) - 1 = i /\ 0 < j /\ i < j - 1 /\ j - 1 < n
        BY <1>1
      <3>2. /\ old[i] # Absent /\ old[i] \in F
            /\ ks[i + 1] \in Keys /\ old[i + 1] = h[old[i]][ks[i + 1]] /\ old[i + 1] \in Tables
        <4>1. /\ old[(i + 1) - 1] # Absent /\ old[(i + 1) - 1] \in F
              /\ ks[i + 1] \in Keys /\ old[i + 1] = h[old[(i + 1) - 1]][ks[i + 1]] /\ old[i + 1] \in Tables
          BY <2>0, <3>1
        <4> QED
          BY <3>1, <4>1
      <3>3. /\ j - 1 \in Nat /\ old[j - 1] \in F
            /\ ks[j] \in Keys /\ old[j] = h[old[j - 1]][ks[j]]
        BY <2>0, <3>1
      <3>4. old[i] = old[j - 1]
        <4>1. h[old[i]][ks[i + 1]] = h[old[j - 1]][ks[j]] /\ h[old[i]][ks[i + 1]] \in Tables
          BY <3>2, <3>3
        <4> QED
          BY <1>40, <3>2, <3>3, <4>1
      <3> QED
        BY <2>2, <3>1, <3>2, <3>3, <3>4
    <2> HIDE DEF S
    <2>3. Nat \subseteq S
      BY <2>1, <2>2, SetInduction
    <2> QED
      BY <2>3 DEF S
  <1>13. /\ at[0] = fs[f]
         /\ \A j \in 0..(n - 1) :
              /\ at[j] \in Tables
              /\ j \in N => at[j] = new[j]
              /\ j \notin N => at[j] = old[j] /\ old[j] # Absent /\ old[j] \in F
    <2>1. 0 \in 0..(n - 1) /\ 0 \notin N
      BY <1>1, <1>7
    <2>2. at[0] = fs[f]
      BY <1>5, <1>9, <2>1
    <2>3. ASSUME NEW j \in 0..(n - 1), j \notin N
          PROVE  old[j] # Absent
      <3>1. CASE j = 0
        BY <1>5, <1>10, <3>1
      <3>2. CASE j # 0
        BY <1>1, <1>7, <2>3, <3>2
      <3> QED
        BY <3>1, <3>2
    <2>4. ASSUME NEW j \in 0..(n - 1), j \notin N
          PROVE  at[j] = old[j] /\ old[j] # Absent /\ old[j] \in F /\ at[j] \in Tables
      <3>1. j \in Nat /\ j < n
        BY <1>1
      <3>2. old[j] # Absent /\ at[j] = old[j]
        BY <1>9, <2>3, <2>4
      <3>3. old[j] \in F
        BY <1>11, <3>1, <3>2
      <3> QED
        BY <1>4, <3>2, <3>3 DEF Separated
    <2>5. ASSUME NEW j \in 0..(n - 1), j \in N
          PROVE  at[j] = new[j] /\ at[j] \in Tables
      BY <1>8, <1>9, <2>5
    <2> QED
      BY <2>2, <2>4, <2>5
  <1>14. \A i, j \in 0..(n - 1) : at[i] = at[j] => i = j
    <2> SUFFICES ASSUME NEW i \in 0..(n - 1), NEW j \in 0..(n - 1), at[i] = at[j]
                 PROVE  i = j
      OBVIOUS
    <2>0. /\ i \in N => at[i] = new[i]
          /\ i \notin N => at[i] = old[i] /\ old[i] # Absent /\ old[i] \in F
          /\ j \in N => at[j] = new[j]
          /\ j \notin N => at[j] = old[j] /\ old[j] # Absent /\ old[j] \in F
      BY <1>13
    <2>1. CASE i \in N \/ j \in N
      BY <1>8, <2>0, <2>1
    <2>2. CASE i \notin N /\ j \notin N
      <3>1. old[i] = old[j] /\ old[i] # Absent /\ i \in Nat /\ j \in Nat /\ i < n /\ j < n
        BY <1>1, <2>0, <2>2
      <3>2. ~(i < j) /\ ~(j < i)
        BY <1>12, <3>1
      <3> QED
        BY <3>1, <3>2
    <2> QED
      BY <2>1, <2>2
  (* Linking changes one entry of each of them. *)
  <1>15. \A m \in 1..n : \A k \in Keys :
           g[at[m - 1]][k] = IF k = ks[m] THEN at[m] ELSE h[at[m - 1]][k]
    <2> SUFFICES ASSUME NEW m \in 1..n, NEW k \in Keys
                 PROVE  g[at[m - 1]][k] = IF k = ks[m] THEN at[m] ELSE h[at[m - 1]][k]
      OBVIOUS
    <2> DEFINE on == {i \in 1..n : at[i - 1] = at[m - 1] /\ ks[i] = k}
    <2>0. n \in Nat
      BY <1>1
    <2>1. m - 1 \in 0..(n - 1) /\ \A i \in 1..n : i - 1 \in 0..(n - 1)
      <3>1. \A i \in 1..n : i - 1 \in 0..(n - 1)
        BY <2>0, Predecessors, ZenonT(60)
      <3> QED
        BY <3>1
    <2>2. g[at[m - 1]][k] = IF on = {} THEN h[at[m - 1]][k] ELSE at[CHOOSE i \in on : TRUE]
      <3>1. at[m - 1] \in Tables
        BY <1>13, <2>1
      <3> QED
        BY <3>1 DEF Writes, Linked, n
    <2>3. \A i \in on : i = m /\ k = ks[m]
      <3> TAKE i \in on
      <3>1. i - 1 = m - 1
        BY <1>14, <2>1
      <3>2. i = m
        BY <3>1
      <3> QED
        BY <3>2
    <2>4. CASE k = ks[m]
      <3>1. on = {m}
        BY <2>3, <2>4
      <3> HIDE DEF on
      <3> QED
        BY <2>2, <2>4, <3>1
    <2>5. CASE k # ks[m]
      <3>1. on = {}
        BY <2>3, <2>5
      <3> HIDE DEF on
      <3> QED
        BY <2>2, <2>5, <3>1
    <2> QED
      BY <2>4, <2>5
  <1>16. \A t \in Tables : (\A m \in 1..n : t # at[m - 1]) => g[t] = h[t]
    <2> SUFFICES ASSUME NEW t \in Tables, \A m \in 1..n : t # at[m - 1]
                 PROVE  g[t] = h[t]
      OBVIOUS
    <2>1. g[t] = [k \in Keys |-> h[t][k]]
      BY DEF Writes, Linked, n
    <2>2. h[t] \in [Keys -> Cells]
      BY <1>2 DEF HeapType
    <2> QED
      BY <2>1, <2>2
  <1>17. g \in HeapType
    <2>1. \A m \in 0..n : at[m] \in Cells
      <3>1. at[n] \in Cells
        BY <1>9 DEF Writes, Cells
      <3>2. \A m \in 0..(n - 1) : at[m] \in Cells
        BY <1>13 DEF Cells
      <3> QED
        BY <1>1, <3>1, <3>2
    <2>2. \A t \in Tables : \A k \in Keys : g[t][k] \in Cells
      <3> SUFFICES ASSUME NEW t \in Tables, NEW k \in Keys
                   PROVE  g[t][k] \in Cells
        OBVIOUS
      <3>1. h[t][k] \in Cells
        BY <1>2 DEF HeapType
      <3>2. CASE \E m \in 1..n : t = at[m - 1]
        <4>1. PICK m \in 1..n : t = at[m - 1]
          BY <3>2
        <4>2. m \in 0..n
          BY <1>1
        <4>3. g[at[m - 1]][k] = IF k = ks[m] THEN at[m] ELSE h[at[m - 1]][k]
          BY <1>15
        <4> QED
          BY <2>1, <3>1, <4>1, <4>2, <4>3
      <3>3. CASE \A m \in 1..n : t # at[m - 1]
        BY <1>16, <3>1, <3>3
      <3> QED
        BY <3>2, <3>3
    <2>3. g = [t \in Tables |-> [k \in Keys |-> g[t][k]]]
      BY DEF Writes, Linked
    <2> QED
      BY <2>2, <2>3 DEF HeapType
  (* All other live tables are untouched, and lead nowhere else. *)
  <1> DEFINE B == {t \in F \cup C : \A m \in 1..n : t # at[m - 1]}
  <1>18. /\ B \subseteq Tables
         /\ \A t \in B : \A k \in Keys : h[t][k] \in Tables => h[t][k] \in B
    <2>9. \A t \in F \cup C : \A k \in Keys : h[t][k] \in Tables => h[t][k] \in F \cup C
      BY <1>42
    <2> SUFFICES ASSUME NEW t \in B, NEW k \in Keys, h[t][k] \in Tables,
                        NEW m \in 1..n, h[t][k] = at[m - 1]
                 PROVE  FALSE
      <3>1. B \subseteq Tables
        BY <1>41
      <3> QED
        BY <2>9, <3>1
    <2>1. m - 1 \in 0..(n - 1) /\ m - 1 \in Nat /\ m - 1 < n
      BY <1>1
    <2>2. h[t][k] \in F \cup C
      BY <2>9
    <2>3. m - 1 \notin N
      BY <1>8, <1>13, <2>1, <2>2
    <2>4. at[m - 1] = old[m - 1] /\ old[m - 1] \in F /\ old[m - 1] # Absent
      BY <1>13, <2>1, <2>3
    <2>5. t \in F
      <3>1. h[t][k] \in F /\ t \in F \cup C
        BY <2>4
      <3> HIDE DEF B
      <3> QED
        BY <1>41, <1>42, <3>1
    <2>6. CASE m = 1
      <3>1. at[m - 1] = fs[f]
        BY <1>13, <2>6
      <3> QED
        BY <1>10, <1>40, <2>5, <3>1
    <2>7. CASE m # 1
      <3> DEFINE i == m - 1
      <3>1. i \in 1..n /\ i - 1 \in 0..(n - 1) /\ i - 1 \in Nat /\ i - 1 < n
        BY <1>1, <2>7
      <3>2. old[i - 1] # Absent /\ old[i] = h[old[i - 1]][ks[i]] /\ ks[i] \in Keys
        BY <1>1, <1>5, <2>4, <3>1
      <3>3. old[i - 1] \in F
        BY <1>11, <3>1, <3>2
      <3>4. t = old[i - 1]
        <4>1. h[t][k] = h[old[i - 1]][ks[i]]
          BY <2>4, <3>2
        <4> HIDE DEF i, B
        <4> QED
          BY <1>40, <2>5, <3>2, <3>3, <4>1
      <3>5. i - 1 \notin N
        BY <1>7, <3>2
      <3>6. at[i - 1] = t
        BY <1>13, <3>1, <3>4, <3>5
      <3> QED
        BY <3>1, <3>6
    <2> QED
      BY <2>6, <2>7
  <1>19. ASSUME NEW m \in 1..n, NEW k \in Keys, k # ks[m], h[at[m - 1]][k] \in Tables
         PROVE  /\ h[at[m - 1]][k] \in B /\ h[at[m - 1]][k] \in F
                /\ m - 1 \notin N /\ at[m - 1] \in F
    <2>1. m - 1 \in 0..(n - 1) /\ m - 1 \in Nat /\ m - 1 < n
      BY <1>1
    <2>2. m - 1 \notin N
      <3> SUFFICES ASSUME m - 1 \in N
                   PROVE  FALSE
        OBVIOUS
      <3>1. at[m - 1] = new[m - 1]
        BY <1>13, <2>1
      <3>2. h[at[m - 1]] = Emp
        BY <1>8, <3>1
      <3>3. Emp[k] = Absent
        BY DEF Emp
      <3> QED
        BY <1>19, <3>2, <3>3, CellAssumption
    <2>3. at[m - 1] = old[m - 1] /\ old[m - 1] \in F /\ old[m - 1] # Absent
      BY <1>13, <2>1, <2>2
    <2>4. h[at[m - 1]][k] \in F
      <3>1. \A t \in F : h[t][k] \in Tables => h[t][k] \in F
        BY <1>42
      <3>2. at[m - 1] \in F
        BY <2>3
      <3> QED
        BY <1>19, <3>1, <3>2
    <2>5. ASSUME NEW i \in 1..n, h[at[m - 1]][k] = at[i - 1]
          PROVE  FALSE
      <3>1. i - 1 \in 0..(n - 1) /\ i - 1 \in Nat /\ i - 1 < n
        BY <1>1
      <3>2. i - 1 \notin N
        BY <1>8, <1>13, <2>4, <2>5, <3>1
      <3>3. at[i - 1] = old[i - 1] /\ old[i - 1] \in F /\ old[i - 1] # Absent
        BY <1>13, <3>1, <3>2
      <3>4. CASE i = 1
        <4>1. at[i - 1] = fs[f]
          BY <1>13, <3>4
        <4> QED
          BY <1>10, <1>40, <2>3, <2>5, <4>1
      <3>5. CASE i # 1
        <4> DEFINE p == i - 1
        <4>1. p \in 1..n /\ p - 1 \in 0..(n - 1) /\ p - 1 \in Nat /\ p - 1 < n
          BY <1>1, <3>5
        <4>2. old[p - 1] # Absent /\ old[p] = h[old[p - 1]][ks[p]] /\ ks[p] \in Keys
          BY <1>1, <1>5, <3>3, <4>1
        <4>3. old[p - 1] \in F
          BY <1>11, <4>1, <4>2
        <4>4. h[old[m - 1]][k] = h[old[p - 1]][ks[p]] /\ h[old[m - 1]][k] \in Tables
          BY <1>19, <2>3, <2>5, <3>3, <4>2
        <4>5. old[m - 1] = old[p - 1] /\ k = ks[p]
          <5> HIDE DEF p
          <5> QED
            BY <1>40, <2>3, <4>2, <4>3, <4>4
        <4>6. p - 1 \notin N
          BY <1>7, <4>2
        <4>7. at[p - 1] = at[m - 1]
          BY <1>13, <2>3, <4>1, <4>5, <4>6
        <4>8. p - 1 = m - 1
          BY <1>14, <2>1, <4>1, <4>7
        <4> QED
          BY <1>19, <4>5, <4>8
      <3> QED
        BY <3>4, <3>5
    <2> QED
      BY <2>2, <2>3, <2>4, <2>5
  <1>20. \A t \in B : t \in Tables /\ g[t] = h[t]
    BY <1>16, <1>18
  <1>21. ASSUME NEW l \in 0..MaxKind, NEW c \in Cells, c \in Tables => c \in B
         PROVE  Deref(g, l, c) = Deref(h, l, c) /\ (c \in OfKind(h)[l] => c \in OfKind(g)[l])
    <2> HIDE DEF B
    <2>1. \A t \in B : g[t] = h[t] /\ \A k \in Keys : h[t][k] \in Tables => h[t][k] \in B
      BY <1>18, <1>20
    <2>2. B \in SUBSET Tables
      BY <1>18
    <2>3. \A l1 \in 0..MaxKind, c1 \in Cells : (c1 \in Tables => c1 \in B) =>
              /\ Deref(g, l1, c1) = Deref(h, l1, c1)
              /\ c1 \in OfKind(h)[l1] => c1 \in OfKind(g)[l1]
      BY <1>2, <1>17, <2>1, <2>2, Framed
    <2> QED
      BY <1>21, <2>3
  <1> HIDE DEF B
  (* From the end of the walk back to the field: its value with w at ks. *)
  <1>22. PICK put : Rebuilds(Deref(h, d, fs[f]), ks, w, put)
    <2>1. Len(ks) \in Nat
      BY <1>1 DEF n
    <2> QED
      BY <2>1, PutLaw
  <1>23. /\ Values!Put(Deref(h, d, fs[f]), ks, w) = put[n]
         /\ put[0] = w
         /\ \A j \in 1..n :
              put[j] = [(IF val[n - j] = Absent THEN Emp ELSE val[n - j])
                          EXCEPT ![ks[n - j + 1]] = put[j - 1]]
    BY <1>22 DEF Rebuilds, n, val
  <1> DEFINE Done(j) == /\ at[n - j] \in OfKind(g)[d - (n - j)] \cup {Absent}
                        /\ Deref(g, d - (n - j), at[n - j]) = put[j]
             S == {j \in Nat : j <= n => Done(j)}
  <1>24. 0 \in S
    <2>1. n - 0 = n /\ d - n \in 0..MaxKind
      BY <1>1, KindAssumption
    <2>4. w \in Scalars \cup {Absent}
      BY DEF Writes
    <2>2. Deref(g, d - n, w) = w
      BY <2>1, <2>4, DerefOther
    <2>3. w \in OfKind(g)[d - n] \cup {Absent}
      <3>1. CASE w \in Scalars
        <4>1. d - n = 0
          <5>1. n = d
            BY <3>1 DEF Writes, d, n
          <5> QED
            BY <1>1, <5>1
        <4> QED
          BY <3>1, <4>1, OfKindLaw
      <3>2. CASE w = Absent
        BY <3>2
      <3> QED
        BY <2>4, <3>1, <3>2
    <2> QED
      BY <1>9, <1>23, <2>1, <2>2, <2>3
  <1>25. ASSUME NEW j \in Nat, j \in S
         PROVE  j + 1 \in S
    <2> SUFFICES ASSUME j + 1 <= n
                 PROVE  Done(j + 1)
      OBVIOUS
    <2> DEFINE m == n - j
               l == d - m
    <2>1. /\ m \in 1..n /\ m - 1 \in 0..(n - 1) /\ n - (j + 1) = m - 1
          /\ l \in 0..MaxKind /\ d - (m - 1) = l + 1 /\ l + 1 \in 1..MaxKind /\ (l + 1) - 1 = l
          /\ j + 1 \in 1..n /\ (j + 1) - 1 = j /\ m - 1 \in 0..n /\ (m - 1) + 1 = m
          /\ l \in Nat /\ l + 1 <= MaxKind
      BY <1>1, KindAssumption
    <2>2. at[m] \in OfKind(g)[l] \cup {Absent} /\ Deref(g, l, at[m]) = put[j]
      <3>1. j <= n
        BY <1>1
      <3> QED
        BY <1>25, <3>1
    <2>3. put[j + 1] = [(IF val[m - 1] = Absent THEN Emp ELSE val[m - 1]) EXCEPT ![ks[m]] = put[j]]
      <3> DEFINE i == j + 1
      <3>1. i \in 1..n /\ n - i = m - 1 /\ n - i + 1 = m /\ i - 1 = j
        BY <1>1
      <3> HIDE DEF m, S, Done, i
      <3>2. put[i] = [(IF val[n - i] = Absent THEN Emp ELSE val[n - i]) EXCEPT ![ks[n - i + 1]] = put[i - 1]]
        BY <1>23, <3>1
      <3>3. put[i] = [(IF val[m - 1] = Absent THEN Emp ELSE val[m - 1]) EXCEPT ![ks[m]] = put[j]]
        BY <3>1, <3>2
      <3> QED
        BY <3>3 DEF i
    <2> HIDE DEF S, m, l
    <2>4. at[m - 1] \in Tables
      BY <1>13, <2>1
    <2> DEFINE t == at[m - 1]
               M == IF val[m - 1] = Absent THEN Emp ELSE val[m - 1]
    <2>11. t \in Tables /\ l \in Nat /\ l + 1 <= MaxKind
      BY <2>1, <2>4
    <2>12. /\ Deref(h, l + 1, t) = [k \in Keys |-> Deref(h, l, h[t][k])]
           /\ Deref(g, l + 1, t) = [k \in Keys |-> Deref(g, l, g[t][k])]
      <3> DEFINE i == l + 1
      <3>1. i \in 1..MaxKind /\ i - 1 = l
        BY <2>1
      <3> HIDE DEF t, i
      <3>4. t \in Tables
        BY <2>11
      <3>5. Deref(h, i, t) = [k \in Keys |-> Deref(h, i - 1, h[t][k])]
        BY <3>1, <3>4, DerefTable
      <3>6. Deref(g, i, t) = [k \in Keys |-> Deref(g, i - 1, g[t][k])]
        BY <3>1, <3>4, DerefTable
      <3>3. /\ Deref(h, i, t) = [k \in Keys |-> Deref(h, l, h[t][k])]
            /\ Deref(g, i, t) = [k \in Keys |-> Deref(g, l, g[t][k])]
        BY <3>1, <3>5, <3>6
      <3> QED
        BY <3>3 DEF i
    <2>13. OfKind(g)[l + 1] = {u \in Tables : \A k \in Keys : g[u][k] \in OfKind(g)[l] \cup {Absent}}
      <3> DEFINE i == l + 1
      <3>1. i \in 1..MaxKind /\ i - 1 = l
        BY <2>1
      <3> HIDE DEF i
      <3>2. OfKind(g)[i] = {u \in Tables : \A k \in Keys : g[u][k] \in OfKind(g)[i - 1] \cup {Absent}}
        BY <3>1, OfKindLaw
      <3>3. OfKind(g)[i] = {u \in Tables : \A k \in Keys : g[u][k] \in OfKind(g)[l] \cup {Absent}}
        BY <3>1, <3>2
      <3> QED
        BY <3>3 DEF i
    <2>5. \A k \in Keys : h[t][k] \in OfKind(h)[l] \cup {Absent}
      <3>1. CASE m - 1 \in N
        <4>0. t = new[m - 1]
          BY <1>13, <2>1, <3>1
        <4>1. h[t] = Emp
          BY <1>8, <3>1, <4>0
        <4> QED
          BY <4>1 DEF Emp
      <3>2. CASE m - 1 \notin N
        <4>1. t = old[m - 1] /\ old[m - 1] # Absent
          BY <1>13, <2>1, <3>2
        <4>2. t \in OfKind(h)[l + 1]
          BY <1>6, <2>1, <4>1
        <4> QED
          BY <2>1, <4>2, OfKindLaw
      <3> QED
        BY <3>1, <3>2
    <2>6. M = [k \in Keys |-> Deref(h, l, h[t][k])]
      <3>1. CASE m - 1 \in N
        <4>0. t = new[m - 1]
          BY <1>13, <2>1, <3>1
        <4>1. h[t] = Emp /\ old[m - 1] = Absent
          BY <1>7, <1>8, <3>1, <4>0
        <4>2. Deref(h, d - (m - 1), old[m - 1]) = val[m - 1]
          BY <1>6, <2>1
        <4>3. val[m - 1] = Absent
          BY <2>1, <4>1, <4>2, DerefOther
        <4>4. Deref(h, l, Absent) = Absent
          BY <2>1, DerefOther
        <4> QED
          BY <4>1, <4>3, <4>4 DEF Emp
      <3>2. CASE m - 1 \notin N
        <4>1. t = old[m - 1] /\ old[m - 1] # Absent
          BY <1>13, <2>1, <3>2
        <4>2. t \in OfKind(h)[l + 1] /\ val[m - 1] = Deref(h, l + 1, t)
          BY <1>6, <2>1, <4>1
        <4>3. l + 1 \in 0..MaxKind
          BY <2>1
        <4>4. val[m - 1] # Absent
          BY <1>2, <4>2, <4>3, KindDenotes
        <4>5. val[m - 1] = [k \in Keys |-> Deref(h, l, h[t][k])]
          BY <2>12, <4>2
        <4> QED
          BY <4>4, <4>5
      <3> QED
        BY <3>1, <3>2
    <2>7. \A k \in Keys : /\ g[t][k] \in OfKind(g)[l] \cup {Absent}
                          /\ Deref(g, l, g[t][k]) = IF k = ks[m] THEN put[j] ELSE Deref(h, l, h[t][k])
      <3> SUFFICES ASSUME NEW k \in Keys
                   PROVE  /\ g[t][k] \in OfKind(g)[l] \cup {Absent}
                          /\ Deref(g, l, g[t][k]) = IF k = ks[m] THEN put[j] ELSE Deref(h, l, h[t][k])
        OBVIOUS
      <3>1. g[t][k] = IF k = ks[m] THEN at[m] ELSE h[t][k]
        BY <1>15, <2>1
      <3>2. CASE k = ks[m]
        BY <2>2, <3>1, <3>2
      <3>3. CASE k # ks[m]
        <4>1. h[t][k] \in Cells
          BY <1>2, <2>4 DEF HeapType
        <4>2. h[t][k] \in Tables => h[t][k] \in B
          BY <1>19, <2>1, <3>3
        <4>3. /\ Deref(g, l, h[t][k]) = Deref(h, l, h[t][k])
              /\ h[t][k] \in OfKind(h)[l] => h[t][k] \in OfKind(g)[l]
          BY <1>21, <2>1, <4>1, <4>2
        <4> QED
          BY <2>5, <3>1, <3>3, <4>3
      <3> QED
        BY <3>2, <3>3
    <2>8. t \in OfKind(g)[l + 1]
      <3>1. \A k \in Keys : g[t][k] \in OfKind(g)[l] \cup {Absent}
        BY <2>7
      <3> HIDE DEF t
      <3> QED
        BY <2>11, <2>13, <3>1
    <2>9. Deref(g, l + 1, t) = [k \in Keys |-> Deref(g, l, g[t][k])]
      BY <2>12
    <2>10. put[j + 1] = Deref(g, l + 1, t)
      <3>1. put[j + 1] = [[k \in Keys |-> Deref(h, l, h[t][k])] EXCEPT ![ks[m]] = put[j]]
        BY <2>3, <2>6
      <3>2. put[j + 1] = [k \in Keys |-> IF k = ks[m] THEN put[j] ELSE Deref(h, l, h[t][k])]
        BY <3>1
      <3>3. Deref(g, l + 1, t) = [k \in Keys |-> IF k = ks[m] THEN put[j] ELSE Deref(h, l, h[t][k])]
        BY <2>7, <2>9
      <3> QED
        BY <3>2, <3>3
    <2> QED
      BY <2>1, <2>8, <2>10
  <1>26. Done(n)
    <2> HIDE DEF S, Done
    <2>1. n \in S
      BY <1>1, <1>24, <1>25, SetInduction
    <2> QED
      BY <1>1, <2>1 DEF S
  <1>27. /\ fs[f] \in OfKind(g)[d]
         /\ Deref(g, d, fs[f]) = Values!Put(Deref(h, d, fs[f]), ks, w)
    <2>1. n - n = 0 /\ d - 0 = d
      BY <1>1
    <2> QED
      BY <1>10, <1>13, <1>23, <1>26, <2>1
  (* The other fields and the locals stay out of the way. *)
  <1>28. \A m \in 1..n : m - 1 \in 0..(n - 1) /\ (m # 1 => m - 1 \in 1..(n - 1) /\ m - 2 \in 0..(n - 1))
    BY <1>1
  <1>29. ASSUME NEW f1 \in Fields, NEW m \in 1..n, fs[f1] \in Tables, fs[f1] = at[m - 1]
         PROVE  f1 = f /\ m = 1
    <2>1. fs[f1] \in F
      BY <1>4, <1>29 DEF Separated
    <2>2. m - 1 \notin N
      BY <1>8, <1>13, <1>28, <1>29, <2>1
    <2>3. at[m - 1] = old[m - 1]
      BY <1>13, <1>28, <2>2
    <2>4. CASE m = 1
      BY <1>13, <1>29, <1>40, <2>4
    <2>5. CASE m # 1
      <3> DEFINE p == m - 1
      <3>1. p \in 1..n /\ p - 1 \in 0..(n - 1) /\ p - 1 \in Nat /\ p - 1 < n
        BY <1>1, <2>5
      <3>2. old[p] # Absent
        BY <1>29, <2>3, CellAssumption
      <3>3. old[p - 1] # Absent /\ old[p] = h[old[p - 1]][ks[p]] /\ ks[p] \in Keys
        BY <1>1, <1>5, <3>1, <3>2
      <3>4. old[p - 1] \in F
        BY <1>11, <3>1, <3>3
      <3>5. fs[f1] = h[old[p - 1]][ks[p]]
        BY <1>29, <2>3, <3>3
      <3> HIDE DEF p
      <3> QED
        BY <1>29, <1>40, <3>3, <3>4, <3>5
    <2> QED
      BY <2>4, <2>5
  <1>30. \A f1 \in Fields \ {f} : fs[f1] \in Tables => fs[f1] \in B
    <2>1. \A f1 \in Fields : fs[f1] \in Tables => fs[f1] \in F
      BY <1>4 DEF Separated
    <2> QED
      BY <1>29, <2>1 DEF B
  <1>31. C \subseteq B
    <2> SUFFICES ASSUME NEW t \in C, NEW m \in 1..n, t = at[m - 1]
                 PROVE  FALSE
      BY DEF B
    <2>1. t \notin F
      BY <1>41
    <2>2. m - 1 \in N => t = new[m - 1]
      BY <1>13, <1>28
    <2>3. m - 1 \notin N => t \in F
      BY <1>13, <1>28
    <2> QED
      BY <1>8, <2>1, <2>2, <2>3
  <1>32. /\ \A f1 \in Fields : fs[f1] \in Cells /\ Kind[f1] \in 0..MaxKind
                               /\ fs[f1] \in OfKind(h)[Kind[f1]]
         /\ \A x \in Vars : /\ e[x] \in Cells /\ Kind[x] \in 0..MaxKind
                            /\ e[x] \in OfKind(h)[Kind[x]] \cup {Absent}
                            /\ e[x] \in Tables => e[x] \in B
         /\ fs \in [Fields -> Cells] /\ e \in [Vars -> Cells]
    <2>1. \A x \in Vars : e[x] \in Tables => e[x] \in C
      BY <1>4 DEF Separated
    <2> QED
      BY <1>2, <1>31, <2>1, KindAssumption DEF Typed
  <1>33. \A f1 \in Fields \ {f} : /\ Deref(g, Kind[f1], fs[f1]) = Deref(h, Kind[f1], fs[f1])
                                  /\ fs[f1] \in OfKind(g)[Kind[f1]]
    BY <1>21, <1>30, <1>32
  <1>34. \A x \in Vars : /\ Deref(g, Kind[x], e[x]) = Deref(h, Kind[x], e[x])
                         /\ e[x] \in OfKind(g)[Kind[x]] \cup {Absent}
    BY <1>21, <1>32
  <1>35. Typed(g, fs, e)
    <2>1. g[EmpLiteral] = Emp
      <3>1. EmpLiteral \in B
        BY <1>4, <1>31 DEF Separated
      <3> QED
        BY <1>2, <1>20, <3>1 DEF Typed
    <2> QED
      BY <1>17, <1>27, <1>32, <1>33, <1>34, <2>1 DEF Typed, d
  (* A table of the field still has one holder. *)
  <1> DEFINE A == {at[m - 1] : m \in 1..n}
             OnWay(t, k, c) == \E m \in 1..(n - 1) : t = at[m - 1] /\ k = ks[m] /\ c = at[m]
             Kept(t, k, c) == t \in F /\ c = h[t][k] /\ c \in F /\ c \in B
  <1>36. A \subseteq Tables
    BY <1>13, <1>28
  <1>37. ASSUME NEW t \in F \cup A, NEW k \in Keys, g[t][k] \in Tables
         PROVE  OnWay(t, k, g[t][k]) \/ Kept(t, k, g[t][k])
    <2>1. CASE t \in A
      <3>1. PICK m \in 1..n : t = at[m - 1]
        BY <2>1
      <3>2. g[t][k] = IF k = ks[m] THEN at[m] ELSE h[t][k]
        BY <1>15, <3>1
      <3>3. CASE k = ks[m]
        <4>1. m # n
          <5>1. w \notin Tables
            BY CellAssumption DEF Writes
          <5> QED
            BY <1>9, <1>37, <3>2, <3>3, <5>1
        <4>2. m \in 1..(n - 1)
          BY <1>1, <4>1
        <4> QED
          BY <3>1, <3>2, <3>3, <4>2
      <3>4. CASE k # ks[m]
        <4>1. h[at[m - 1]][k] \in Tables
          BY <1>37, <3>1, <3>2, <3>4
        <4> QED
          BY <1>19, <3>1, <3>2, <3>4, <4>1
      <3> QED
        BY <3>3, <3>4
    <2>2. CASE t \notin A
      <3>1. t \in F /\ t \in B
        BY <2>2 DEF B
      <3>2. g[t] = h[t]
        BY <1>20, <3>1
      <3>3. h[t][k] \in F /\ h[t][k] \in B
        BY <1>18, <1>37, <1>42, <3>1, <3>2
      <3> QED
        BY <3>1, <3>2, <3>3
    <2> QED
      BY <2>1, <2>2
  <1>38. \A m \in 1..(n - 1) : /\ m \in 0..(n - 1) /\ m - 1 \in 0..(n - 1) /\ m + 1 \in 1..n
                               /\ (m + 1) - 1 = m
    BY <1>1
  <1>39. \A m \in 1..(n - 1) : at[m] \in A /\ at[m] \notin B
    <2> TAKE m \in 1..(n - 1)
    <2>1. m + 1 \in 1..n /\ at[m] = at[(m + 1) - 1]
      BY <1>38
    <2> QED
      BY <2>1 DEF B
  <1>43. Closed(g, F \cup A)
    BY <1>37, <1>39 DEF Closed
  <1>44. Closed(g, C)
    <2>1. \A t \in C : g[t] = h[t]
      BY <1>20, <1>31
    <2> QED
      BY <1>42, <2>1 DEF Closed
  <1>45. OneHolder(g, fs, F \cup A)
    <2>1. ASSUME NEW t \in F \cup A, NEW u \in F \cup A, NEW k \in Keys, NEW l \in Keys,
                 g[t][k] = g[u][l], g[t][k] \in Tables
          PROVE  t = u /\ k = l
      <3>1. /\ OnWay(t, k, g[t][k]) \/ Kept(t, k, g[t][k])
            /\ OnWay(u, l, g[t][k]) \/ Kept(u, l, g[t][k])
        BY <1>37, <2>1
      <3>2. CASE OnWay(t, k, g[t][k]) /\ OnWay(u, l, g[t][k])
        <4>1. PICK m \in 1..(n - 1) : t = at[m - 1] /\ k = ks[m] /\ g[t][k] = at[m]
          BY <3>2
        <4>2. PICK i \in 1..(n - 1) : u = at[i - 1] /\ l = ks[i] /\ g[t][k] = at[i]
          BY <3>2
        <4>3. m = i
          BY <1>14, <1>38, <4>1, <4>2
        <4> QED
          BY <4>1, <4>2, <4>3
      <3>3. CASE Kept(t, k, g[t][k]) /\ Kept(u, l, g[t][k])
        <4>1. t \in F /\ u \in F /\ h[t][k] = h[u][l] /\ h[t][k] \in Tables
          BY <2>1, <3>3
        <4> QED
          BY <1>40, <4>1
      <3>4. OnWay(t, k, g[t][k]) => g[t][k] \notin B
        BY <1>39
      <3>5. OnWay(u, l, g[t][k]) => g[t][k] \notin B
        BY <1>39
      <3> QED
        BY <3>1, <3>2, <3>3, <3>4, <3>5
    <2>2. ASSUME NEW f1 \in Fields, NEW t \in F \cup A, NEW k \in Keys,
                 fs[f1] \in Tables, fs[f1] = g[t][k]
          PROVE  FALSE
      <3>1. OnWay(t, k, g[t][k]) \/ Kept(t, k, g[t][k])
        BY <1>37, <2>2
      <3>2. CASE OnWay(t, k, g[t][k])
        <4>1. PICK m \in 1..(n - 1) : g[t][k] = at[m]
          BY <3>2
        <4>2. m + 1 \in 1..n /\ fs[f1] = at[(m + 1) - 1] /\ m + 1 # 1
          BY <1>38, <2>2, <4>1
        <4> QED
          BY <1>29, <2>2, <4>2
      <3>3. CASE Kept(t, k, g[t][k])
        BY <1>40, <2>2, <3>3
      <3> QED
        BY <3>1, <3>2, <3>3
    <2> HIDE DEF A
    <2> QED
      BY <1>40, <2>1, <2>2 DEF OneHolder
  <1>46. Separated(g, fs, e, F \cup A, C)
    <2>1. A \cap C = {}
      <3>1. \A t \in A : t \notin B
        BY DEF B
      <3> QED
        BY <1>31, <3>1
    <2> HIDE DEF A
    <2> QED
      BY <1>4, <1>36, <1>41, <1>43, <1>44, <1>45, <2>1 DEF Separated
  <1> HIDE DEF A
  <1> QED
    BY <1>15, <1>16, <1>27, <1>33, <1>34, <1>35, <1>46 DEF d, n, Updated

(* update_local with Some v, for a v that is not a map. *)
LEMMA SetDenotes ==
    ASSUME Settled(heap, fields, env), NEW f \in Fields, NEW ks \in Paths(Kind[f]),
           NEW x \in Vars, Kind[x] = 0, Kind[f] = Len(ks),
           env[x] # Absent, HasRoom(heap, fields[f], ks, env[x])
    PROVE  Updated(heap, UpdateLocal(heap, fields[f], ks, env[x]), fields, env, f,
                   Values!Put(Deref(heap, Kind[f], fields[f]), ks, env[x]))
  <1> DEFINE w == env[x]
             t == fields[f]
             new == CHOOSE g \in NewTables(heap, t, ks, w) : TRUE
             at == [n \in 0..Len(ks) |->
                      IF n = Len(ks) THEN w
                      ELSE IF n \in Missing(heap, t, ks) THEN new[n] ELSE Walk(heap, t, ks)[n]]
             g == Linked(heap, at, ks)
  <1>1. w \in Scalars
    <2>1. env[x] \in OfKind(heap)[Kind[x]] \cup {Absent}
      BY DEF Settled, Typed
    <2> QED
      BY <2>1, OfKindLaw
  <1>2. Roots(fields, env) \cup {w} = Roots(fields, env)
    BY DEF Roots
  <1>3. NewTables(heap, t, ks, w) =
          Injection(Missing(heap, t, ks), FreshTables \ Live(heap, fields, env))
    BY <1>2 DEF NewTables, Free, Live
  <1>4. new \in NewTables(heap, t, ks, w)
    BY DEF HasRoom
  <1>5. g = UpdateLocal(heap, t, ks, w)
    BY DEF UpdateLocal
  <1>6. Writes(heap, fields, env, f, ks, w, new, at, g)
    <2> HIDE DEF new
    <2> QED
      BY <1>1, <1>3, <1>4 DEF Writes
  <1> HIDE DEF w, new, at, g
  <1>7. Updated(heap, g, fields, env, f, Values!Put(Deref(heap, Kind[f], fields[f]), ks, w))
    BY <1>6, Linking
  <1> QED
    BY <1>5, <1>7 DEF w

(* A walk along the front of a list of keys is the front of the walk. *)
LEMMA WalkFront ==
    ASSUME NEW h, NEW c, NEW ks \in Seq(Keys), ks # <<>>
    PROVE  /\ FetchLocal(h, c, Front(ks)) = Walk(h, c, ks)[Len(ks) - 1]
           /\ Walk(h, c, ks)[Len(ks) - 1] # Absent =>
                \A j \in 0..(Len(ks) - 1) : Walk(h, c, ks)[j] # Absent
  <1> DEFINE n == Len(ks)
             fr == Front(ks)
             w == Walk(h, c, ks)
             v == Walk(h, c, fr)
  <1>1. n \in Nat /\ 1 <= n
    <2>1. n \in Nat
      BY LenProperties
    <2>2. n # 0
      BY EmptySeq
    <2> QED
      BY <2>1, <2>2
  <1>2. Len(fr) = n - 1 /\ \A j \in 1..(n - 1) : fr[j] = ks[j]
    <2>1. fr = SubSeq(ks, 1, n - 1)
      BY DEF Front
    <2>2. 1 \in 1..(n + 1) /\ n - 1 \in 0..n /\ n - 1 - 1 + 1 = n - 1
      BY <1>1
    <2> HIDE DEF fr
    <2> QED
      BY <1>1, <2>1, <2>2, SubSeqProperties
  <1>3. /\ w[0] = c
        /\ \A j \in 1..n : w[j] = IF w[j - 1] = Absent THEN Absent ELSE h[w[j - 1]][ks[j]]
    BY <1>1, WalkLaw
  <1>4. /\ v[0] = c
        /\ \A j \in 1..(n - 1) : v[j] = IF v[j - 1] = Absent THEN Absent ELSE h[v[j - 1]][fr[j]]
    <2>1. Len(fr) \in Nat
      BY <1>1, <1>2
    <2>2. /\ v[0] = c
          /\ \A j \in 1..Len(fr) : v[j] = IF v[j - 1] = Absent THEN Absent ELSE h[v[j - 1]][fr[j]]
      BY <2>1, WalkLaw
    <2> HIDE DEF fr, v, n
    <2> QED
      BY <1>2, <2>2
  <1>5. FetchLocal(h, c, fr) = v[n - 1]
    BY <1>2 DEF FetchLocal
  <1> HIDE DEF n, fr, w, v
  <1> DEFINE S == {j \in Nat : j <= n - 1 => v[j] = w[j]}
  <1>6. 0 \in S
    BY <1>3, <1>4
  <1>7. ASSUME NEW j \in Nat, j \in S
        PROVE  j + 1 \in S
    <2> SUFFICES ASSUME j + 1 <= n - 1
                 PROVE  v[j + 1] = w[j + 1]
      OBVIOUS
    <2>1. j + 1 \in 1..(n - 1) /\ j + 1 \in 1..n /\ (j + 1) - 1 = j /\ j <= n - 1
      BY <1>1
    <2>2. v[j] = w[j] /\ fr[j + 1] = ks[j + 1]
      BY <1>2, <1>7, <2>1
    <2> QED
      BY <1>3, <1>4, <2>1, <2>2
  <1>8. v[n - 1] = w[n - 1]
    <2> HIDE DEF S
    <2>1. n - 1 \in S
      BY <1>1, <1>6, <1>7, SetInduction
    <2> QED
      BY <1>1, <2>1 DEF S
  <1>9. ASSUME w[n - 1] # Absent, NEW i \in 0..(n - 1)
        PROVE  w[i] # Absent
    <2> DEFINE T == {j \in Nat : i + j <= n - 1 => w[i + j] = Absent}
    <2> SUFFICES ASSUME w[i] = Absent
                 PROVE  FALSE
      OBVIOUS
    <2>1. 0 \in T
      BY <1>1
    <2>2. ASSUME NEW j \in Nat, j \in T
          PROVE  j + 1 \in T
      <3> SUFFICES ASSUME i + (j + 1) <= n - 1
                   PROVE  w[i + (j + 1)] = Absent
        OBVIOUS
      <3>1. i + (j + 1) \in 1..n /\ i + (j + 1) - 1 = i + j /\ i + j <= n - 1
        BY <1>1
      <3>2. w[i + j] = Absent
        BY <2>2, <3>1
      <3> QED
        BY <1>3, <3>1, <3>2
    <2> HIDE DEF T
    <2>3. (n - 1) - i \in T
      BY <1>1, <2>1, <2>2, SetInduction
    <2>4. i + ((n - 1) - i) = n - 1
      BY <1>1
    <2> QED
      BY <1>1, <1>9, <2>3, <2>4 DEF T
  <1> QED
    BY <1>5, <1>8, <1>9 DEF n, fr, w

LEMMA PathSeq ==
    ASSUME NEW d \in Nat, NEW ks \in Paths(d)
    PROVE  ks \in Seq(Keys) /\ ks # <<>> /\ Last(ks) \in Keys /\ Last(ks) = ks[Len(ks)]
  <1>1. Len(ks) \in 1..d /\ ks \in [1..Len(ks) -> Keys]
    BY PathLaw
  <1>2. ks \in Seq(Keys)
    BY <1>1
  <1>3. ks # <<>>
    BY <1>1, EmptySeq
  <1>4. Len(ks) \in 1..Len(ks)
    BY <1>1
  <1> QED
    BY <1>1, <1>2, <1>3, <1>4 DEF Last

(* update_local with None. *)
LEMMA RemoveDenotes ==
    ASSUME NEW h, NEW fs, NEW e, Settled(h, fs, e),
           NEW f \in Fields, NEW ks \in Paths(Kind[f])
    PROVE  Updated(h, RemoveLocal(h, fs[f], ks), fs, e, f,
                   Values!Cut(Deref(h, Kind[f], fs[f]), ks))
  <1> DEFINE n == Len(ks)
             d == Kind[f]
             old == Walk(h, fs[f], ks)
             last == FetchLocal(h, fs[f], Front(ks))
             K == Last(ks)
             v == Deref(h, d, fs[f])
  <1>1. /\ Typed(h, fs, e) /\ h \in HeapType /\ fs[f] \in OfKind(h)[d]
        /\ \E F, C : Separated(h, fs, e, F, C)
    BY DEF Settled, Typed
  <1>2. d \in 0..MaxKind /\ d \in Nat
    BY KindAssumption
  <1>3. /\ n \in Nat /\ 1 <= n /\ n <= d /\ K \in Keys /\ K = ks[n]
        /\ ks \in Seq(Keys) /\ ks # <<>>
    <2>1. n \in 1..d
      BY <1>2, PathLaw
    <2>2. ks \in Seq(Keys) /\ ks # <<>> /\ K \in Keys /\ K = ks[n]
      BY <1>2, PathSeq
    <2> HIDE DEF n, d, K
    <2> QED
      BY <1>2, <2>1, <2>2
  <1>4. last = old[n - 1] /\ (last # Absent => \A j \in 0..(n - 1) : old[j] # Absent)
    <2>1. /\ FetchLocal(h, fs[f], Front(ks)) = Walk(h, fs[f], ks)[Len(ks) - 1]
          /\ Walk(h, fs[f], ks)[Len(ks) - 1] # Absent =>
               \A j \in 0..(Len(ks) - 1) : Walk(h, fs[f], ks)[j] # Absent
      BY <1>3, WalkFront
    <2> QED
      BY <2>1
  <1>5. old[n] = IF last = Absent THEN Absent ELSE h[last][K]
    <2>1. Len(ks) \in Nat /\ Len(ks) \in 1..Len(ks)
      BY <1>3
    <2>2. Walk(h, fs[f], ks)[Len(ks)] =
            IF Walk(h, fs[f], ks)[Len(ks) - 1] = Absent THEN Absent
            ELSE h[Walk(h, fs[f], ks)[Len(ks) - 1]][ks[Len(ks)]]
      BY <2>1, WalkLaw
    <2> QED
      BY <1>3, <1>4, <2>2
  <1>6. FetchLocal(h, fs[f], ks) = old[n]
    BY DEF FetchLocal
  <1>7. old[n] = Absent <=> Values!Get(v, ks) = Absent
    BY <1>1, <1>2, <1>6, FetchDenotes
  <1>8. ASSUME last # Absent
        PROVE  last \in Tables
    <2>1. n - 1 \in 0..n /\ n - 1 < n
      BY <1>3
    <2>2. \A j \in 0..Len(ks) : j < Len(ks) /\ Walk(h, fs[f], ks)[j] # Absent =>
                                  Walk(h, fs[f], ks)[j] \in Tables
      BY <1>1, <1>2, WalkDenotes
    <2> QED
      BY <1>4, <1>8, <2>1, <2>2
  <1>9. RemoveLocal(h, fs[f], ks) = IF last = Absent THEN h ELSE [h EXCEPT ![last][K] = Absent]
    BY DEF RemoveLocal
  <1> HIDE DEF n, d, old, last, K
  <1>10. CASE old[n] = Absent
    <2>1. RemoveLocal(h, fs[f], ks) = h
      <3>1. CASE last = Absent
        BY <1>9, <3>1
      <3>2. CASE last # Absent
        <4>1. h[last][K] = Absent
          BY <1>5, <1>10, <3>2
        <4>2. [h EXCEPT ![last][K] = Absent] = h
          <5>1. h[last] \in [Keys -> Cells] /\ last \in Tables /\ h \in [Tables -> [Keys -> Cells]]
            BY <1>1, <1>8, <3>2 DEF HeapType
          <5>2. [h[last] EXCEPT ![K] = Absent] = h[last]
            BY <4>1, <5>1
          <5> QED
            BY <5>1, <5>2
        <4> QED
          BY <1>9, <3>2, <4>2
      <3> QED
        BY <3>1, <3>2
    <2>2. Values!Cut(v, ks) = v
      BY <1>7, <1>10 DEF Values!Cut
    <2>3. Updated(h, h, fs, e, f, v)
      BY <1>1 DEF Updated, d
    <2> QED
      BY <2>1, <2>2, <2>3 DEF d
  <1>11. CASE old[n] # Absent
    <2> DEFINE new == [j \in {} |-> Absent]
               at == [j \in 0..Len(ks) |->
                        IF j = Len(ks) THEN Absent
                        ELSE IF j \in Missing(h, fs[f], ks) THEN new[j] ELSE Walk(h, fs[f], ks)[j]]
               g == Linked(h, at, ks)
    <2>1. last # Absent /\ last \in Tables
      BY <1>5, <1>8, <1>11
    <2>2. Missing(h, fs[f], ks) = {}
      <3>1. \A j \in 1..(n - 1) : j \in 0..(n - 1)
        BY <1>3
      <3>2. \A j \in 1..(n - 1) : old[j] # Absent
        BY <1>4, <2>1, <3>1
      <3> QED
        BY <3>2 DEF Missing, n, old
    <2>3. Writes(h, fs, e, f, ks, Absent, new, at, g)
      <3>1. new \in Injection({}, FreshTables \ Live(h, fs, e))
        BY DEF Injection, IsInjective
      <3> HIDE DEF new
      <3> QED
        BY <2>2, <3>1, KindAssumption DEF Writes
    <2>4. /\ at[n] = Absent
          /\ \A j \in 0..(n - 1) : at[j] = old[j]
      <3>1. n \in 0..n /\ \A j \in 0..(n - 1) : j \in 0..n /\ j # n
        BY <1>3
      <3>2. at = [j \in 0..n |-> IF j = n THEN Absent ELSE old[j]]
        BY <2>2 DEF n, old
      <3> HIDE DEF at
      <3> QED
        BY <3>1, <3>2
    <2>5. g = [t \in Tables |-> [k \in Keys |-> g[t][k]]]
      <3> HIDE DEF at
      <3> QED
        BY DEF Linked
    <2> HIDE DEF new, at, g
    <2>6. /\ Updated(h, g, fs, e, f, Values!Put(v, ks, Absent))
          /\ \A m \in 1..n : \A k \in Keys :
               g[at[m - 1]][k] = IF k = ks[m] THEN at[m] ELSE h[at[m - 1]][k]
          /\ \A t \in Tables : (\A m \in 1..n : t # at[m - 1]) => g[t] = h[t]
      BY <2>3, Linking DEF n, d
    <2>7. \A m \in 1..n : old[m] = IF old[m - 1] = Absent THEN Absent ELSE h[old[m - 1]][ks[m]]
      <3>1. Len(ks) \in Nat
        BY <1>3 DEF n
      <3> QED
        BY <3>1, WalkLaw DEF n, old
    <2>8. ASSUME NEW t \in Tables, NEW k \in Keys
          PROVE  g[t][k] = IF t = last /\ k = K THEN Absent ELSE h[t][k]
      <3>1. CASE t = last
        <4>1. n \in 1..n /\ n - 1 \in 0..(n - 1)
          BY <1>3
        <4>2. t = at[n - 1]
          BY <1>4, <2>4, <3>1, <4>1
        <4>3. g[at[n - 1]][k] = IF k = ks[n] THEN at[n] ELSE h[at[n - 1]][k]
          BY <2>6, <4>1
        <4> QED
          BY <1>3, <2>4, <3>1, <4>2, <4>3
      <3>2. CASE t # last /\ \E m \in 1..n : t = at[m - 1]
        <4>1. PICK m \in 1..n : t = at[m - 1]
          BY <3>2
        <4>2. m - 1 \in 0..(n - 1)
          BY <1>3
        <4>3. t = old[m - 1]
          BY <2>4, <4>1, <4>2
        <4>4. m # n
          BY <1>4, <3>2, <4>3
        <4>5. m \in 0..(n - 1)
          BY <1>3, <4>4
        <4>6. at[m] = old[m]
          BY <2>4, <4>5
        <4>7. g[t][k] = IF k = ks[m] THEN at[m] ELSE h[t][k]
          BY <2>6, <4>1
        <4>8. old[m] = h[t][ks[m]]
          BY <2>7, <4>3, CellAssumption
        <4> QED
          BY <3>2, <4>6, <4>7, <4>8
      <3>3. CASE \A m \in 1..n : t # at[m - 1]
        <4>1. n \in 1..n /\ n - 1 \in 0..(n - 1)
          BY <1>3
        <4>2. t # last
          BY <1>4, <2>4, <3>3, <4>1
        <4> QED
          BY <2>6, <3>3, <4>2
      <3> QED
        BY <3>1, <3>2, <3>3
    <2>9. g = [h EXCEPT ![last][K] = Absent]
      <3>1. h \in [Tables -> [Keys -> Cells]]
        BY <1>1 DEF HeapType
      <3>2. [h EXCEPT ![last][K] = Absent] =
              [t \in Tables |-> [k \in Keys |-> IF t = last /\ k = K THEN Absent ELSE h[t][k]]]
        <4>1. \A t \in Tables : h[t] = [k \in Keys |-> h[t][k]]
          BY <3>1
        <4> QED
          BY <2>1, <3>1, <4>1
      <3>3. g = [t \in Tables |-> [k \in Keys |-> IF t = last /\ k = K THEN Absent ELSE h[t][k]]]
        BY <2>5, <2>8
      <3> QED
        BY <3>2, <3>3
    <2>10. Values!Cut(v, ks) = Values!Put(v, ks, Absent)
      BY <1>7, <1>11 DEF Values!Cut
    <2> QED
      BY <1>9, <2>1, <2>6, <2>9, <2>10 DEF d
  <1> QED
    BY <1>10, <1>11

-----------------------------------------------------------------------------
(* Steps. *)

Inv == Settled(heap, fields, env)

LEMMA Becoming ==
    ASSUME NEW h, NEW fs, NEW e, Become(h, fs, e), Typed(h, fs, e),
           \E F, C : Separated(h, fs, e, F, C)
    PROVE  /\ Inv'
           /\ FieldValues' = [f \in Fields |-> Deref(h, Kind[f], fs[f])]
           /\ EnvValues' = [x \in Vars |-> Deref(h, Kind[x], e[x])]
  <1>1. heap' = Collect(h, fs, e) /\ fields' = fs /\ env' = e
    BY DEF Become
  <1>2. PICK F, C : Separated(h, fs, e, F, C)
    OBVIOUS
  <1>3. /\ Settled(Collect(h, fs, e), fs, e)
        /\ \A f \in Fields :
             Deref(Collect(h, fs, e), Kind[f], fs[f]) = Deref(h, Kind[f], fs[f])
        /\ \A x \in Vars :
             Deref(Collect(h, fs, e), Kind[x], e[x]) = Deref(h, Kind[x], e[x])
    BY <1>2, Collecting
  <1>4. Inv'
    BY <1>1, <1>3 DEF Inv
  <1>5. FieldValues' = [f \in Fields |-> Deref(h, Kind[f], fs[f])]
    BY <1>1, <1>3 DEF FieldValues, FieldsIn
  <1>6. EnvValues' = [x \in Vars |-> Deref(h, Kind[x], e[x])]
    BY <1>1, <1>3 DEF EnvValues, LocalsIn
  <1> QED
    BY <1>4, <1>5, <1>6

(* A statement that writes a field and no local. *)
LEMMA Writing ==
    ASSUME Inv, NEW f \in Fields, NEW g, NEW v,
           Updated(heap, g, fields, env, f, v), Become(g, fields, env)
    PROVE  /\ Inv' /\ FieldValues' = [FieldValues EXCEPT ![f] = v]
           /\ EnvValues' = EnvValues
  <1>1. /\ Inv'
        /\ FieldValues' = [f1 \in Fields |-> Deref(g, Kind[f1], fields[f1])]
        /\ EnvValues' = [x \in Vars |-> Deref(g, Kind[x], env[x])]
    BY Becoming DEF Updated
  <1>2. FieldValues' = [FieldValues EXCEPT ![f] = v]
    BY <1>1 DEF Updated, FieldValues, FieldsIn
  <1>3. EnvValues' = EnvValues
    BY <1>1 DEF Updated, EnvValues, LocalsIn
  <1> QED
    BY <1>1, <1>2, <1>3

(* A statement that binds a local: to a cell c of its kind, in a heap g     *)
(* that keeps every table and in which c is apart from the fields.          *)
LEMMA Binding ==
    ASSUME Inv, NEW x \in Vars, NEW c, NEW g,
           NEW F, NEW C, Separated(g, fields, env, F, C), Typed(g, fields, env),
           c \in OfKind(g)[Kind[x]] \cup {Absent}, c \in Tables => c \in C,
           \A f \in Fields : Deref(g, Kind[f], fields[f]) = Deref(heap, Kind[f], fields[f]),
           \A y \in Vars : Deref(g, Kind[y], env[y]) = Deref(heap, Kind[y], env[y]),
           BindTo(x, c, g)
    PROVE  /\ Inv' /\ FieldValues' = FieldValues
           /\ EnvValues' = [EnvValues EXCEPT ![x] = Deref(g, Kind[x], c)]
  <1> DEFINE e == [env EXCEPT ![x] = c]
  <1>1. c \in Cells /\ Kind[x] \in 0..MaxKind
    <2>1. Kind[x] \in 0..MaxKind
      BY KindAssumption
    <2>2. Absent \in Cells
      BY DEF Cells
    <2>3. g \in HeapType
      BY DEF Typed
    <2> QED
      BY <2>1, <2>2, <2>3, KindDenotes
  <1>2. e \in [Vars -> Cells] /\ e[x] = c /\ \A y \in Vars \ {x} : e[y] = env[y]
    BY <1>1 DEF Typed
  <1> HIDE DEF e
  <1>3. Typed(g, fields, e)
    BY <1>2 DEF Typed
  <1>4. Separated(g, fields, e, F, C)
    BY <1>2 DEF Separated
  <1>5. Become(g, fields, e)
    BY DEF BindTo, e
  <1>6. /\ Inv'
        /\ FieldValues' = [f \in Fields |-> Deref(g, Kind[f], fields[f])]
        /\ EnvValues' = [y \in Vars |-> Deref(g, Kind[y], e[y])]
    BY <1>3, <1>4, <1>5, Becoming
  <1>7. FieldValues' = FieldValues
    BY <1>6 DEF FieldValues, FieldsIn
  <1>8. EnvValues' = [EnvValues EXCEPT ![x] = Deref(g, Kind[x], c)]
    BY <1>2, <1>6 DEF EnvValues, LocalsIn
  <1> QED
    BY <1>6, <1>7, <1>8

(* What fields and locals denote has their kind; only an unbound local      *)
(* denotes nothing.                                                         *)
LEMMA Denoting ==
    ASSUME Inv
    PROVE  /\ \A f \in Fields : /\ Kind[f] \in 0..MaxKind /\ fields[f] \in OfKind(heap)[Kind[f]]
                                /\ FieldValues[f] = Deref(heap, Kind[f], fields[f])
                                /\ FieldValues[f] \in Values!Value[Kind[f]]
           /\ \A x \in Vars : /\ Kind[x] \in 0..MaxKind
                              /\ env[x] \in OfKind(heap)[Kind[x]] \cup {Absent}
                              /\ EnvValues[x] = Deref(heap, Kind[x], env[x])
                              /\ EnvValues[x] \in Values!Value[Kind[x]] \cup {Absent}
                              /\ EnvValues[x] = Absent <=> env[x] = Absent
           /\ heap \in HeapType /\ Typed(heap, fields, env)
  <1>1. heap \in HeapType /\ Typed(heap, fields, env)
    BY DEF Inv, Settled, Typed
  <1>2. ASSUME NEW f \in Fields
        PROVE  /\ Kind[f] \in 0..MaxKind /\ fields[f] \in OfKind(heap)[Kind[f]]
               /\ FieldValues[f] = Deref(heap, Kind[f], fields[f])
               /\ FieldValues[f] \in Values!Value[Kind[f]]
    <2>1. Kind[f] \in 0..MaxKind /\ fields[f] \in OfKind(heap)[Kind[f]]
      BY <1>1, KindAssumption DEF Typed
    <2>2. FieldValues[f] = Deref(heap, Kind[f], fields[f])
      BY DEF FieldValues, FieldsIn
    <2> QED
      BY <1>1, <2>1, <2>2, KindDenotes
  <1>3. ASSUME NEW x \in Vars
        PROVE  /\ Kind[x] \in 0..MaxKind /\ env[x] \in OfKind(heap)[Kind[x]] \cup {Absent}
               /\ EnvValues[x] = Deref(heap, Kind[x], env[x])
               /\ EnvValues[x] \in Values!Value[Kind[x]] \cup {Absent}
               /\ EnvValues[x] = Absent <=> env[x] = Absent
    <2>1. Kind[x] \in 0..MaxKind /\ env[x] \in OfKind(heap)[Kind[x]] \cup {Absent}
      BY <1>1, KindAssumption DEF Typed
    <2>2. EnvValues[x] = Deref(heap, Kind[x], env[x])
      BY DEF EnvValues, LocalsIn
    <2>3. CASE env[x] = Absent
      BY <2>1, <2>2, <2>3, DerefOther
    <2>4. CASE env[x] # Absent
      BY <1>1, <2>1, <2>2, <2>4, KindDenotes
    <2> QED
      BY <2>1, <2>2, <2>3, <2>4
  <1> QED
    BY <1>1, <1>2, <1>3

(* Binding a cell found in the heap as it is. *)
LEMMA BindingHere ==
    ASSUME Inv, NEW x \in Vars, NEW c, BindTo(x, c, heap),
           NEW F, NEW C, Separated(heap, fields, env, F, C),
           c \in OfKind(heap)[Kind[x]] \cup {Absent}, c \in Tables => c \in C
    PROVE  /\ Inv' /\ FieldValues' = FieldValues
           /\ EnvValues' = [EnvValues EXCEPT ![x] = Deref(heap, Kind[x], c)]
  BY Binding, Denoting, ZenonT(60)

LEMMA BindingScalar ==
    ASSUME Inv, NEW x \in Vars, Kind[x] = 0, NEW c \in Scalars \cup {Absent}, BindTo(x, c, heap)
    PROVE  /\ Inv' /\ FieldValues' = FieldValues
           /\ EnvValues' = [EnvValues EXCEPT ![x] = c]
  <1>1. PICK F, C : Separated(heap, fields, env, F, C)
    BY DEF Inv, Settled
  <1>2. c \in OfKind(heap)[Kind[x]] \cup {Absent} /\ c \notin Tables
    BY OfKindLaw, CellAssumption
  <1>3. Deref(heap, Kind[x], c) = c
    BY DerefOther, KindAssumption
  <1> QED
    BY <1>1, <1>2, <1>3, BindingHere

LEMMA Apart ==
    ASSUME Inv
    PROVE  \E F, C : /\ Separated(heap, fields, env, F, C)
                     /\ F \cup C \subseteq Live(heap, fields, env)
  <1>1. PICK F, C : Separated(heap, fields, env, F, C)
    BY DEF Inv, Settled
  <1>2. Separated(heap, fields, env, F \cap Live(heap, fields, env), C \cap Live(heap, fields, env))
    BY <1>1, LiveParts DEF Inv, Settled
  <1> QED
    BY <1>2

(* In g, new holds the entries of t, with u at k. *)
Copies(h, t, k, u, new, g) == g = [h EXCEPT ![new] = [h[t] EXCEPT ![k] = u]]

(* put and remove: the copy of a local's table with another entry at k.     *)
LEMMA Copying ==
    ASSUME Inv, NEW x \in Vars, NEW m \in Vars, NEW k \in Keys,
           Kind[m] > 0, Kind[x] = Kind[m], env[m] # Absent,
           NEW new \in Free(heap, {}),
           NEW F, NEW C, Separated(heap, fields, env, F, C),
           F \cup C \subseteq Live(heap, fields, env),
           NEW u, u \in OfKind(heap)[Kind[m] - 1] \cup {Absent}, u \in Tables => u \in C,
           NEW g, Copies(heap, env[m], k, u, new, g), BindTo(x, new, g)
    PROVE  /\ Inv' /\ FieldValues' = FieldValues
           /\ EnvValues' = [EnvValues EXCEPT ![x] =
                              [EnvValues[m] EXCEPT ![k] = Deref(heap, Kind[m] - 1, u)]]
  <1> DEFINE t == env[m]
             d == Kind[m]
             A == Live(heap, fields, env)
  <1>1. /\ heap \in HeapType /\ Typed(heap, fields, env)
        /\ d \in 1..MaxKind /\ d \in 0..MaxKind /\ d - 1 \in 0..MaxKind
        /\ t \in OfKind(heap)[d]
    BY Denoting, KindAssumption
  <1>2. /\ Closed(heap, A) /\ A \subseteq F \cup C
        /\ Roots(fields, env) \cap Tables \subseteq A
        /\ Separated(heap, fields, env, F \cap A, C \cap A)
    BY <1>1, LiveParts
  <1>3. new \in FreshTables /\ new \in Tables /\ new \notin A /\ heap[new] = Emp
    <2>1. Roots(fields, env) \cup {} = Roots(fields, env)
      OBVIOUS
    <2>2. new \in FreshTables /\ new \notin A
      BY <2>1 DEF Free, Live
    <2> QED
      BY <2>2 DEF Inv, Settled, Tables
  <1>4. t \in Tables /\ t \in A /\ t \in C
    <2>1. t \in Tables
      BY <1>1, OfKindLaw
    <2> QED
      BY <1>2, <2>1 DEF Roots, Separated
  <1>5. u \in Cells
    BY <1>1, KindDenotes DEF Cells
  <1>6. /\ g \in HeapType
        /\ \A s \in Tables : s # new => g[s] = heap[s]
        /\ \A l \in Keys : g[new][l] = IF l = k THEN u ELSE heap[t][l]
    BY <1>1, <1>3, <1>4, <1>5 DEF HeapType, Copies
  <1> HIDE DEF t, d, A
  <1>7. A \in SUBSET Tables /\ \A s \in A : s # new
    BY <1>2, <1>3 DEF Separated
  <1>8. \A l \in 0..MaxKind, c \in Cells : (c \in Tables => c \in A) =>
              /\ Deref(g, l, c) = Deref(heap, l, c)
              /\ c \in OfKind(heap)[l] => c \in OfKind(g)[l]
    <2>1. \A s \in A : g[s] = heap[s] /\ \A l \in Keys : heap[s][l] \in Tables => heap[s][l] \in A
      BY <1>2, <1>6, <1>7 DEF Closed
    <2> QED
      BY <1>1, <1>6, <1>7, <2>1, Framed
  <1>9. /\ \A f \in Fields : /\ Kind[f] \in 0..MaxKind /\ fields[f] \in Cells
                             /\ fields[f] \in Tables => fields[f] \in A
        /\ \A y \in Vars : /\ Kind[y] \in 0..MaxKind /\ env[y] \in Cells
                           /\ env[y] \in Tables => env[y] \in A
    BY <1>1, <1>2, KindAssumption DEF Typed, Roots
  <1>10. EmpLiteral \in A /\ EmpLiteral \in Tables
    BY <1>2 DEF Roots, Tables
  <1>11. Typed(g, fields, env)
    <2>1. g[EmpLiteral] = Emp
      BY <1>1, <1>6, <1>7, <1>10 DEF Typed
    <2> QED
      BY <1>1, <1>6, <1>8, <1>9, <2>1 DEF Typed
  <1>12. \A l \in Keys : /\ heap[t][l] \in OfKind(heap)[d - 1] \cup {Absent}
                         /\ heap[t][l] \in Cells
                         /\ heap[t][l] \in Tables => heap[t][l] \in A
    BY <1>1, <1>2, <1>4, OfKindLaw DEF Closed, HeapType
  <1>13. u \in Tables => u \in A
    BY DEF A
  <1>14. \A l \in Keys : /\ g[new][l] \in OfKind(g)[d - 1] \cup {Absent}
                         /\ Deref(g, d - 1, g[new][l]) =
                              IF l = k THEN Deref(heap, d - 1, u) ELSE Deref(heap, d - 1, heap[t][l])
    <2> SUFFICES ASSUME NEW l \in Keys
                 PROVE  /\ g[new][l] \in OfKind(g)[d - 1] \cup {Absent}
                        /\ Deref(g, d - 1, g[new][l]) =
                             IF l = k THEN Deref(heap, d - 1, u) ELSE Deref(heap, d - 1, heap[t][l])
      OBVIOUS
    <2>1. CASE l = k
      <3>1. g[new][l] = u /\ u \in OfKind(heap)[d - 1] \cup {Absent}
        BY <1>6, <2>1 DEF d
      <3>2. /\ Deref(g, d - 1, u) = Deref(heap, d - 1, u)
            /\ u \in OfKind(heap)[d - 1] => u \in OfKind(g)[d - 1]
        BY <1>1, <1>5, <1>8, <1>13
      <3> QED
        BY <2>1, <3>1, <3>2
    <2>2. CASE l # k
      <3> DEFINE c == heap[t][l]
      <3>1. g[new][l] = c /\ c \in OfKind(heap)[d - 1] \cup {Absent} /\ c \in Cells /\ (c \in Tables => c \in A)
        BY <1>6, <1>12, <2>2
      <3> HIDE DEF c
      <3>2. /\ Deref(g, d - 1, c) = Deref(heap, d - 1, c)
            /\ c \in OfKind(heap)[d - 1] => c \in OfKind(g)[d - 1]
        BY <1>1, <1>8, <3>1
      <3>3. /\ g[new][l] \in OfKind(g)[d - 1] \cup {Absent}
            /\ Deref(g, d - 1, g[new][l]) = Deref(heap, d - 1, c)
        BY <3>1, <3>2
      <3> QED
        BY <2>2, <3>3 DEF c
    <2> QED
      BY <2>1, <2>2
  <1>15. new \in OfKind(g)[d]
    BY <1>1, <1>3, <1>14, OfKindLaw
  <1>16. Deref(g, d, new) = [Deref(heap, d, t) EXCEPT ![k] = Deref(heap, d - 1, u)]
    <2>1. Deref(g, d, new) = [l \in Keys |-> Deref(g, d - 1, g[new][l])]
      <3>1. d \in 1..MaxKind /\ new \in Tables
        BY <1>1, <1>3
      <3> QED
        BY <3>1, DerefTable
    <2>2. Deref(heap, d, t) = [l \in Keys |-> Deref(heap, d - 1, heap[t][l])]
      <3>1. d \in 1..MaxKind /\ t \in Tables
        BY <1>1, <1>4
      <3> QED
        BY <3>1, DerefTable
    <2>3. Deref(g, d, new) = [l \in Keys |-> IF l = k THEN Deref(heap, d - 1, u)
                                             ELSE Deref(heap, d - 1, heap[t][l])]
      BY <1>14, <2>1
    <2> QED
      BY <2>2, <2>3
  <1>17. Separated(g, fields, env, F, C \cup {new})
    <2>1. new \notin F /\ new \notin C /\ F \subseteq Tables /\ C \subseteq Tables
      BY <1>3 DEF A, Separated
    <2>2. \A s \in F \cup C : g[s] = heap[s]
      BY <1>6, <2>1
    <2>3. /\ \A s \in F : \A l \in Keys : heap[s][l] \in Tables => heap[s][l] \in F
          /\ \A s \in C : \A l \in Keys : heap[s][l] \in Tables => heap[s][l] \in C
      BY DEF Separated, Closed
    <2>4. \A l \in Keys : g[new][l] \in Tables => g[new][l] \in C
      BY <1>4, <1>6, <2>3
    <2>5. Closed(g, F) /\ Closed(g, C \cup {new})
      BY <2>2, <2>3, <2>4 DEF Closed
    <2>6. OneHolder(g, fields, F)
      BY <2>2 DEF Separated, OneHolder
    <2> QED
      BY <1>3, <2>1, <2>5, <2>6 DEF Separated
  <1>19. /\ Inv' /\ FieldValues' = FieldValues
         /\ EnvValues' = [EnvValues EXCEPT ![x] = Deref(g, Kind[x], new)]
    <2>1. /\ \A f \in Fields : Deref(g, Kind[f], fields[f]) = Deref(heap, Kind[f], fields[f])
          /\ \A y \in Vars : Deref(g, Kind[y], env[y]) = Deref(heap, Kind[y], env[y])
      BY <1>8, <1>9
    <2>2. new \in OfKind(g)[Kind[x]] \cup {Absent} /\ new \in C \cup {new}
      BY <1>15 DEF d
    <2> QED
      BY <1>11, <1>17, <2>1, <2>2, Binding
  <1>20. EnvValues[m] = Deref(heap, d, t)
    BY Denoting DEF d, t
  <1> QED
    BY <1>16, <1>19, <1>20 DEF d

(* Every statement takes the step FieldStore takes on the values; what      *)
(* keeps tables apart is that no map moves between a field and a local.     *)

LEMMA LoadStep ==
    ASSUME Inv, InPlaceOnly, NEW x \in Vars, NEW f \in Fields, Load(x, f)
    PROVE  /\ Inv' /\ FieldValues' = FieldValues
           /\ Kind[x] = Kind[f] /\ Values!Load(x, f)
  <1>1. Kind[x] = 0 /\ Kind[x] = Kind[f] /\ BindTo(x, fields[f], heap)
    BY DEF Load, Moves
  <1>2. fields[f] \in Scalars /\ FieldValues[f] = Deref(heap, 0, fields[f])
    BY <1>1, Denoting, OfKindLaw
  <1>3. FieldValues[f] = fields[f]
    BY <1>2, DerefOther, KindAssumption
  <1>4. /\ Inv' /\ FieldValues' = FieldValues
        /\ EnvValues' = [EnvValues EXCEPT ![x] = fields[f]]
    BY <1>1, <1>2, BindingScalar
  <1> QED
    BY <1>1, <1>3, <1>4 DEF Values!Load, Values!BindTo

LEMMA StoreStep ==
    ASSUME Inv, InPlaceOnly, NEW x \in Vars, NEW f \in Fields, Store(f, x)
    PROVE  /\ Inv' /\ EnvValues' = EnvValues
           /\ Kind[x] = Kind[f] /\ Values!Store(f, x)
  <1> DEFINE fs == [fields EXCEPT ![f] = env[x]]
  <1>1. Kind[x] = 0 /\ Kind[x] = Kind[f] /\ env[x] # Absent /\ Become(heap, fs, env)
    BY DEF Store, Moves
  <1>2. env[x] \in Scalars /\ EnvValues[x] = Deref(heap, 0, env[x]) /\ EnvValues[x] # Absent
    BY <1>1, Denoting, OfKindLaw
  <1>3. EnvValues[x] = env[x] /\ env[x] \in Cells /\ env[x] \notin Tables
    BY <1>2, DerefOther, KindAssumption, CellAssumption DEF Cells
  <1>4. /\ fs \in [Fields -> Cells] /\ fs[f] = env[x]
        /\ \A f1 \in Fields \ {f} : fs[f1] = fields[f1]
    BY <1>3, Denoting DEF Typed
  <1> HIDE DEF fs
  <1>5. Typed(heap, fs, env)
    <2>1. fs[f] \in OfKind(heap)[Kind[f]]
      BY <1>1, <1>2, <1>4, OfKindLaw
    <2> QED
      BY <1>4, <2>1, Denoting DEF Typed
  <1>6. \E F, C : Separated(heap, fs, env, F, C)
    <2>1. PICK F, C : Separated(heap, fields, env, F, C)
      BY DEF Inv, Settled
    <2>2. Separated(heap, fs, env, F, C)
      BY <1>3, <1>4, <2>1 DEF Separated, OneHolder
    <2> QED
      BY <2>2
  <1>7. /\ Inv'
        /\ FieldValues' = [f1 \in Fields |-> Deref(heap, Kind[f1], fs[f1])]
        /\ EnvValues' = [y \in Vars |-> Deref(heap, Kind[y], env[y])]
    BY <1>1, <1>5, <1>6, Becoming
  <1>8. EnvValues' = EnvValues
    BY <1>7 DEF EnvValues, LocalsIn
  <1>9. FieldValues' = [FieldValues EXCEPT ![f] = EnvValues[x]]
    BY <1>1, <1>2, <1>4, <1>7 DEF FieldValues, FieldsIn
  <1> QED
    BY <1>1, <1>2, <1>7, <1>8, <1>9 DEF Values!Store, Values!SetTo

(* The arithmetic of the kinds that a statement on f[ks] relates. *)
LEMMA Inside ==
    ASSUME NEW f \in Fields, NEW ks \in Paths(Kind[f]), Kind[f] - Len(ks) = 0
    PROVE  Kind[f] = Len(ks)
  <1>1. Kind[f] \in Nat
    BY KindAssumption
  <1>2. Len(ks) \in Nat
    BY <1>1, PathLaw
  <1> DEFINE n == Len(ks)
             d == Kind[f]
  <1>3. n \in Nat /\ d \in Nat /\ d - n = 0
    BY <1>1, <1>2
  <1> HIDE DEF n, d
  <1>4. d = n
    BY <1>3
  <1> QED
    BY <1>4 DEF n, d

LEMMA MapSetStep ==
    ASSUME Inv, InPlaceOnly, NEW x \in Vars, NEW f \in Fields, NEW ks \in Paths(Kind[f]),
           MapSet(f, ks, x)
    PROVE  /\ Inv' /\ EnvValues' = EnvValues
           /\ Kind[x] = Kind[f] - Len(ks) /\ Values!MapSet(f, ks, x)
  <1> DEFINE g == UpdateLocal(heap, fields[f], ks, env[x])
             v == Values!Put(Deref(heap, Kind[f], fields[f]), ks, env[x])
  <1>1. /\ Kind[x] = 0 /\ Kind[x] = Kind[f] - Len(ks) /\ env[x] # Absent
        /\ HasRoom(heap, fields[f], ks, env[x]) /\ Become(g, fields, env)
    BY DEF MapSet, Moves
  <1>2. Kind[f] = Len(ks)
    BY <1>1, Inside
  <1>3. Updated(heap, g, fields, env, f, v)
    BY <1>1, <1>2, SetDenotes DEF Inv
  <1>4. FieldValues[f] = Deref(heap, Kind[f], fields[f])
    BY Denoting
  <1>5. EnvValues[x] = env[x] /\ EnvValues[x] # Absent
    <2>1. env[x] \in Scalars /\ EnvValues[x] = Deref(heap, 0, env[x])
      BY <1>1, Denoting, OfKindLaw
    <2> QED
      BY <1>1, <2>1, DerefOther, KindAssumption
  <1> HIDE DEF g, v
  <1>6. Inv' /\ FieldValues' = [FieldValues EXCEPT ![f] = v] /\ EnvValues' = EnvValues
    BY <1>1, <1>3, Writing
  <1> QED
    BY <1>1, <1>4, <1>5, <1>6 DEF v, Values!MapSet, Values!SetTo

LEMMA MapDeleteStep ==
    ASSUME Inv, NEW f \in Fields, NEW ks \in Paths(Kind[f]), MapDelete(f, ks)
    PROVE  Inv' /\ EnvValues' = EnvValues /\ Values!MapDelete(f, ks)
  <1> DEFINE g == RemoveLocal(heap, fields[f], ks)
             v == Values!Cut(Deref(heap, Kind[f], fields[f]), ks)
  <1>1. Updated(heap, g, fields, env, f, v)
    BY RemoveDenotes DEF Inv
  <1>2. Become(g, fields, env)
    BY DEF MapDelete
  <1>3. FieldValues[f] = Deref(heap, Kind[f], fields[f])
    BY Denoting
  <1> HIDE DEF g, v
  <1>4. Inv' /\ FieldValues' = [FieldValues EXCEPT ![f] = v] /\ EnvValues' = EnvValues
    BY <1>1, <1>2, Writing
  <1> QED
    BY <1>3, <1>4 DEF v, Values!MapDelete, Values!SetTo

LEMMA MapFetchStep ==
    ASSUME Inv, InPlaceOnly, NEW x \in Vars, NEW f \in Fields, NEW ks \in Paths(Kind[f]),
           MapFetch(x, f, ks)
    PROVE  /\ Inv' /\ FieldValues' = FieldValues
           /\ Kind[x] = Kind[f] - Len(ks) /\ Values!MapFetch(x, f, ks)
  <1> DEFINE c == FetchLocal(heap, fields[f], ks)
  <1>1. Kind[x] = 0 /\ Kind[x] = Kind[f] - Len(ks) /\ BindTo(x, c, heap)
    BY DEF MapFetch, Moves
  <1>2. Kind[f] \in 0..MaxKind /\ fields[f] \in OfKind(heap)[Kind[f]] /\ heap \in HeapType
    BY Denoting
  <1>3. /\ c \in OfKind(heap)[Kind[x]] \cup {Absent}
        /\ Deref(heap, Kind[x], c) = Values!Get(Deref(heap, Kind[f], fields[f]), ks)
    BY <1>1, <1>2, FetchDenotes
  <1>4. FieldValues[f] = Deref(heap, Kind[f], fields[f])
    BY Denoting
  <1> HIDE DEF c
  <1>5. c \in Scalars \cup {Absent}
    BY <1>1, <1>3, OfKindLaw
  <1>6. Deref(heap, Kind[x], c) = c
    BY <1>1, <1>5, DerefOther, KindAssumption
  <1>7. /\ Inv' /\ FieldValues' = FieldValues
        /\ EnvValues' = [EnvValues EXCEPT ![x] = c]
    BY <1>1, <1>5, BindingScalar
  <1> QED
    BY <1>1, <1>3, <1>4, <1>6, <1>7 DEF Values!MapFetch, Values!BindTo

LEMMA MapExistsStep ==
    ASSUME Inv, NEW x \in Vars, NEW f \in Fields, NEW ks \in Paths(Kind[f]), MapExists(x, f, ks)
    PROVE  /\ Inv' /\ FieldValues' = FieldValues
           /\ Kind[x] = 0 /\ Values!MapExists(x, f, ks)
  <1> DEFINE c == IF FetchLocal(heap, fields[f], ks) = Absent THEN No ELSE Yes
  <1>1. Kind[x] = 0 /\ BindTo(x, c, heap)
    BY DEF MapExists
  <1>2. Kind[f] \in 0..MaxKind /\ fields[f] \in OfKind(heap)[Kind[f]] /\ heap \in HeapType
    BY Denoting
  <1>3. c = IF Values!Get(Deref(heap, Kind[f], fields[f]), ks) = Absent THEN No ELSE Yes
    BY <1>2, FetchDenotes
  <1>4. FieldValues[f] = Deref(heap, Kind[f], fields[f])
    BY Denoting
  <1>5. c \in Scalars \cup {Absent}
    BY KindAssumption
  <1> HIDE DEF c
  <1>6. /\ Inv' /\ FieldValues' = FieldValues
        /\ EnvValues' = [EnvValues EXCEPT ![x] = c]
    BY <1>1, <1>5, BindingScalar
  <1> QED
    BY <1>1, <1>3, <1>4, <1>6 DEF Values!MapExists, Values!BindTo

LEMMA BindScalarStep ==
    ASSUME Inv, NEW x \in Vars, NEW s \in Scalars, BindScalar(x, s)
    PROVE  /\ Inv' /\ FieldValues' = FieldValues
           /\ Kind[x] = 0 /\ Values!BindLiteral(x, s)
  <1>1. Kind[x] = 0 /\ BindTo(x, s, heap)
    BY DEF BindScalar
  <1>2. /\ Inv' /\ FieldValues' = FieldValues
        /\ EnvValues' = [EnvValues EXCEPT ![x] = s]
    BY <1>1, BindingScalar
  <1> QED
    BY <1>1, <1>2 DEF Values!BindLiteral, Values!BindTo

LEMMA BindEmpStep ==
    ASSUME Inv, NEW x \in Vars, BindEmp(x)
    PROVE  /\ Inv' /\ FieldValues' = FieldValues
           /\ Kind[x] > 0 /\ Values!BindLiteral(x, Emp)
  <1> DEFINE d == Kind[x]
  <1>1. d > 0 /\ BindTo(x, EmpLiteral, heap)
    BY DEF BindEmp
  <1>2. d \in 1..MaxKind /\ d - 1 \in 0..MaxKind
    BY <1>1, KindAssumption
  <1>3. EmpLiteral \in Tables /\ heap[EmpLiteral] = Emp /\ \A k \in Keys : Emp[k] = Absent
    BY DEF Inv, Settled, Typed, Tables, Emp
  <1>4. PICK F, C : Separated(heap, fields, env, F, C)
    BY DEF Inv, Settled
  <1>5. EmpLiteral \in C
    BY <1>4 DEF Separated
  <1> HIDE DEF d
  <1>6. EmpLiteral \in OfKind(heap)[d]
    BY <1>2, <1>3, OfKindLaw
  <1>7. Deref(heap, d, EmpLiteral) = Emp
    <2>1. Deref(heap, d, EmpLiteral) = [k \in Keys |-> Deref(heap, d - 1, heap[EmpLiteral][k])]
      BY <1>2, <1>3, DerefTable
    <2>2. Deref(heap, d - 1, Absent) = Absent
      BY <1>2, DerefOther
    <2> QED
      BY <1>3, <2>1, <2>2 DEF Emp
  <1>8. /\ Inv' /\ FieldValues' = FieldValues
        /\ EnvValues' = [EnvValues EXCEPT ![x] = Emp]
    <2>1. EmpLiteral \in OfKind(heap)[Kind[x]] \cup {Absent}
      BY <1>6 DEF d
    <2>2. /\ Inv' /\ FieldValues' = FieldValues
          /\ EnvValues' = [EnvValues EXCEPT ![x] = Deref(heap, Kind[x], EmpLiteral)]
      BY <1>1, <1>4, <1>5, <2>1, BindingHere
    <2> QED
      BY <1>7, <2>2 DEF d
  <1> QED
    BY <1>1, <1>8 DEF d, Values!BindLiteral, Values!BindTo

(* What a local map holds at a key. *)
LEMMA Entry ==
    ASSUME Inv, NEW m \in Vars, NEW k \in Keys, Kind[m] > 0, env[m] # Absent,
           NEW F, NEW C, Separated(heap, fields, env, F, C)
    PROVE  /\ Kind[m] \in 1..MaxKind /\ Kind[m] - 1 \in 0..MaxKind
           /\ heap[env[m]][k] \in OfKind(heap)[Kind[m] - 1] \cup {Absent}
           /\ heap[env[m]][k] \in Tables => heap[env[m]][k] \in C
           /\ EnvValues[m][k] = Deref(heap, Kind[m] - 1, heap[env[m]][k])
  <1> DEFINE d == Kind[m]
             t == env[m]
  <1>1. d \in 1..MaxKind /\ d - 1 \in 0..MaxKind
    BY KindAssumption
  <1>2. t \in OfKind(heap)[d] /\ EnvValues[m] = Deref(heap, d, t)
    BY Denoting
  <1> HIDE DEF d, t
  <1>3. t \in Tables /\ heap[t][k] \in OfKind(heap)[d - 1] \cup {Absent}
    BY <1>1, <1>2, OfKindLaw
  <1>4. t \in C
    BY <1>3 DEF Separated, t
  <1>5. heap[t][k] \in Tables => heap[t][k] \in C
    BY <1>4 DEF Separated, Closed
  <1>6. Deref(heap, d, t) = [l \in Keys |-> Deref(heap, d - 1, heap[t][l])]
    BY <1>1, <1>3, DerefTable
  <1>7. EnvValues[m][k] = Deref(heap, d - 1, heap[t][k])
    BY <1>2, <1>6
  <1> QED
    BY <1>1, <1>3, <1>5, <1>7 DEF d, t

LEMMA BuiltinGetStep ==
    ASSUME Inv, NEW x \in Vars, NEW m \in Vars, NEW k \in Keys, BuiltinGet(x, m, k)
    PROVE  /\ Inv' /\ FieldValues' = FieldValues
           /\ Kind[m] > 0 /\ Kind[x] = Kind[m] - 1 /\ Values!BuiltinGet(x, m, k)
  <1> DEFINE c == heap[env[m]][k]
  <1>1. Kind[m] > 0 /\ Kind[x] = Kind[m] - 1 /\ env[m] # Absent /\ BindTo(x, c, heap)
    BY DEF BuiltinGet
  <1>2. PICK F, C : Separated(heap, fields, env, F, C)
    BY DEF Inv, Settled
  <1>3. /\ c \in OfKind(heap)[Kind[x]] \cup {Absent} /\ (c \in Tables => c \in C)
        /\ EnvValues[m][k] = Deref(heap, Kind[x], c)
    BY <1>1, <1>2, Entry
  <1>4. EnvValues[m] # Absent
    BY <1>1, Denoting
  <1> HIDE DEF c
  <1>5. /\ Inv' /\ FieldValues' = FieldValues
        /\ EnvValues' = [EnvValues EXCEPT ![x] = Deref(heap, Kind[x], c)]
    BY <1>1, <1>2, <1>3, BindingHere
  <1> QED
    BY <1>1, <1>3, <1>4, <1>5 DEF Values!BuiltinGet, Values!BindTo

LEMMA BuiltinPutStep ==
    ASSUME Inv, NEW x \in Vars, NEW m \in Vars, NEW k \in Keys, NEW v \in Vars,
           BuiltinPut(x, m, k, v)
    PROVE  /\ Inv' /\ FieldValues' = FieldValues
           /\ Kind[m] > 0 /\ Kind[x] = Kind[m] /\ Kind[v] = Kind[m] - 1
           /\ Values!BuiltinPut(x, m, k, v)
  <1> DEFINE new == CHOOSE t \in Free(heap, {}) : TRUE
             u == env[v]
             g == [heap EXCEPT ![new] = [heap[env[m]] EXCEPT ![k] = u]]
  <1>1. /\ Kind[m] > 0 /\ Kind[x] = Kind[m] /\ Kind[v] = Kind[m] - 1
        /\ env[m] # Absent /\ u # Absent /\ new \in Free(heap, {})
        /\ BindTo(x, new, g)
    BY DEF BuiltinPut
  <1> HIDE DEF new
  <1>2. PICK F, C : /\ Separated(heap, fields, env, F, C)
                    /\ F \cup C \subseteq Live(heap, fields, env)
    BY Apart
  <1>3. /\ u \in OfKind(heap)[Kind[m] - 1] \cup {Absent}
        /\ EnvValues[v] = Deref(heap, Kind[m] - 1, u)
        /\ EnvValues[m] # Absent /\ EnvValues[v] # Absent
    BY <1>1, Denoting
  <1>4. u \in Tables => u \in C
    BY <1>2 DEF Separated
  <1>6. Copies(heap, env[m], k, u, new, g)
    BY DEF Copies
  <1> HIDE DEF u, g
  <1>5. /\ Inv' /\ FieldValues' = FieldValues
        /\ EnvValues' = [EnvValues EXCEPT ![x] =
                           [EnvValues[m] EXCEPT ![k] = Deref(heap, Kind[m] - 1, u)]]
    BY <1>1, <1>2, <1>3, <1>4, <1>6, Copying
  <1> QED
    BY <1>1, <1>3, <1>5 DEF Values!BuiltinPut, Values!BindTo

LEMMA BuiltinRemoveStep ==
    ASSUME Inv, NEW x \in Vars, NEW m \in Vars, NEW k \in Keys, BuiltinRemove(x, m, k)
    PROVE  /\ Inv' /\ FieldValues' = FieldValues
           /\ Kind[m] > 0 /\ Kind[x] = Kind[m] /\ Values!BuiltinRemove(x, m, k)
  <1> DEFINE new == CHOOSE t \in Free(heap, {}) : TRUE
             g == [heap EXCEPT ![new] = [heap[env[m]] EXCEPT ![k] = Absent]]
  <1>1. /\ Kind[m] > 0 /\ Kind[x] = Kind[m]
        /\ env[m] # Absent /\ new \in Free(heap, {})
        /\ BindTo(x, new, g)
    BY DEF BuiltinRemove
  <1> HIDE DEF new
  <1>2. PICK F, C : /\ Separated(heap, fields, env, F, C)
                    /\ F \cup C \subseteq Live(heap, fields, env)
    BY Apart
  <1>3. EnvValues[m] # Absent
    BY <1>1, Denoting
  <1>4. Deref(heap, Kind[m] - 1, Absent) = Absent
    <2>1. Kind[m] - 1 \in 0..MaxKind
      BY <1>1, KindAssumption
    <2> QED
      BY <2>1, DerefOther
  <1>6. Copies(heap, env[m], k, Absent, new, g)
    BY DEF Copies
  <1> HIDE DEF g
  <1>5. /\ Inv' /\ FieldValues' = FieldValues
        /\ EnvValues' = [EnvValues EXCEPT ![x] =
                           [EnvValues[m] EXCEPT ![k] = Deref(heap, Kind[m] - 1, Absent)]]
    BY <1>1, <1>2, <1>6, CellAssumption, Copying
  <1> QED
    BY <1>1, <1>3, <1>4, <1>5 DEF Values!BuiltinRemove, Values!BindTo

-----------------------------------------------------------------------------
(* The tables of a state file that was just parsed. *)

Names == Fields \cup Keys

LEMMA ParsedName ==
    ASSUME NEW t \in ParsedTables
    PROVE  /\ t \in Seq(Names) /\ t # <<>> /\ t[1] \in Fields
           /\ Kind[t[1]] \in 1..MaxKind /\ Kind[t[1]] \in Nat
           /\ Len(t) \in 1..Kind[t[1]]
           /\ Tail(t) \in Seq(Keys) /\ Len(Tail(t)) = Len(t) - 1
           /\ t = <<t[1]>> \o Tail(t)
  <1>0. \E f \in Fields : Kind[f] > 0 /\ \E ks \in BoundedSeq(Keys, Kind[f] - 1) : t = <<f>> \o ks
    BY DEF ParsedTables
  <1>a. PICK f \in Fields : Kind[f] > 0 /\ \E ks \in BoundedSeq(Keys, Kind[f] - 1) : t = <<f>> \o ks
    BY <1>0
  <1>b. PICK ks \in BoundedSeq(Keys, Kind[f] - 1) : t = <<f>> \o ks
    BY <1>a
  <1>1. Kind[f] > 0 /\ ks \in BoundedSeq(Keys, Kind[f] - 1) /\ t = <<f>> \o ks
    BY <1>a, <1>b
  <1> DEFINE d == Kind[f]
  <1>2. d \in 1..MaxKind /\ d \in Nat
    BY <1>1, KindAssumption
  <1>3. PICK n \in 0..(d - 1) : ks \in [1..n -> Keys]
    BY <1>1 DEF BoundedSeq, SeqOf
  <1> HIDE DEF d
  <1>4. ks \in Seq(Keys) /\ n \in Nat
    BY <1>2, <1>3
  <1>5. Len(ks) = n
    BY <1>3, <1>4, LenProperties
  <1>6. <<f>> \in Seq(Names) /\ ks \in Seq(Names) /\ Len(<<f>>) = 1 /\ <<f>>[1] = f
    BY <1>4, SeqMonotonic DEF Names
  <1>7. /\ t \in Seq(Names) /\ Len(t) = 1 + n
        /\ \A i \in 1..(1 + n) : t[i] = IF i <= 1 THEN <<f>>[i] ELSE ks[i - 1]
    BY <1>1, <1>5, <1>6, ConcatProperties
  <1>8. t # <<>>
    BY <1>4, <1>7, EmptySeq
  <1>9. t[1] = f
    BY <1>4, <1>6, <1>7
  <1>10. /\ Tail(t) \in Seq(Names) /\ Len(Tail(t)) = n
         /\ \A i \in 1..n : Tail(t)[i] = t[i + 1]
    BY <1>4, <1>7, <1>8, HeadTailProperties
  <1>11. Tail(t) = ks
    <2>1. \A i \in 1..n : Tail(t)[i] = ks[i]
      <3> TAKE i \in 1..n
      <3>1. i + 1 \in 1..(1 + n) /\ ~(i + 1 <= 1) /\ (i + 1) - 1 = i
        BY <1>4
      <3> QED
        BY <1>7, <1>10, <3>1
    <2> QED
      BY <1>5, <1>6, <1>10, <2>1, SeqEqual
  <1>12. Len(t) \in 1..d /\ Len(Tail(t)) = Len(t) - 1
    BY <1>2, <1>7, <1>10
  <1>13. d = Kind[t[1]]
    BY <1>9 DEF d
  <1> QED
    BY <1>1, <1>2, <1>4, <1>7, <1>8, <1>9, <1>11, <1>12, <1>13

LEMMA ParsedMade ==
    ASSUME NEW f \in Fields, NEW ks \in Seq(Keys), Len(ks) < Kind[f]
    PROVE  /\ <<f>> \o ks \in ParsedTables /\ (<<f>> \o ks)[1] = f
           /\ Tail(<<f>> \o ks) = ks /\ Len(<<f>> \o ks) = Len(ks) + 1
  <1> DEFINE d == Kind[f]
             n == Len(ks)
             t == <<f>> \o ks
  <1>1. d \in Nat /\ n \in Nat /\ n < d /\ ks \in [1..n -> Keys]
    BY KindAssumption, LenProperties
  <1> HIDE DEF d, n
  <1>2. n \in 0..(d - 1) /\ d > 0
    BY <1>1
  <1>3. ks \in BoundedSeq(Keys, d - 1)
    BY <1>1, <1>2 DEF BoundedSeq, SeqOf
  <1>4. t \in ParsedTables
    BY <1>2, <1>3 DEF ParsedTables, d
  <1>5. <<f>> \in Seq(Names) /\ ks \in Seq(Names) /\ Len(<<f>>) = 1 /\ <<f>>[1] = f
    BY SeqMonotonic DEF Names
  <1>6. /\ t \in Seq(Names) /\ Len(t) = 1 + n
        /\ \A i \in 1..(1 + n) : t[i] = IF i <= 1 THEN <<f>>[i] ELSE ks[i - 1]
    BY <1>5, ConcatProperties DEF n
  <1>7. t # <<>>
    BY <1>1, <1>6, EmptySeq
  <1>8. t[1] = f
    BY <1>1, <1>5, <1>6
  <1>9. /\ Tail(t) \in Seq(Names) /\ Len(Tail(t)) = n
        /\ \A i \in 1..n : Tail(t)[i] = t[i + 1]
    BY <1>1, <1>6, <1>7, HeadTailProperties
  <1>10. Tail(t) = ks
    <2>1. \A i \in 1..n : Tail(t)[i] = ks[i]
      <3> TAKE i \in 1..n
      <3>1. i + 1 \in 1..(1 + n) /\ ~(i + 1 <= 1) /\ (i + 1) - 1 = i
        BY <1>1
      <3> QED
        BY <1>6, <1>9, <3>1
    <2> QED
      BY <1>5, <1>9, <2>1, SeqEqual DEF n
  <1> QED
    BY <1>1, <1>4, <1>6, <1>8, <1>10 DEF n

LEMMA ParsedChild ==
    ASSUME NEW t \in ParsedTables, NEW k \in Keys, Len(t) < Kind[t[1]]
    PROVE  /\ Append(t, k) \in ParsedTables /\ Append(t, k)[1] = t[1]
           /\ Tail(Append(t, k)) = Append(Tail(t), k) /\ Len(Append(t, k)) = Len(t) + 1
  <1> DEFINE f == t[1]
             ks == Tail(t)
             js == Append(ks, k)
  <1>1. /\ f \in Fields /\ ks \in Seq(Keys) /\ Len(ks) = Len(t) - 1 /\ Len(t) \in Nat
        /\ t = <<f>> \o ks /\ t \in Seq(Names)
    BY ParsedName
  <1>2. js \in Seq(Keys) /\ Len(js) = Len(ks) + 1 /\ js = ks \o <<k>>
    BY <1>1, AppendProperties, AppendIsConcat
  <1> HIDE DEF f, ks, js
  <1>3. Len(js) < Kind[f] /\ Len(js) = Len(t)
    BY <1>1, <1>2 DEF f
  <1>4. /\ <<f>> \o js \in ParsedTables /\ (<<f>> \o js)[1] = f
        /\ Tail(<<f>> \o js) = js /\ Len(<<f>> \o js) = Len(js) + 1
    BY <1>1, <1>2, <1>3, ParsedMade
  <1>5. Append(t, k) = <<f>> \o js
    <2>1. <<f>> \in Seq(Names) /\ ks \in Seq(Names) /\ <<k>> \in Seq(Names)
      BY <1>1, SeqMonotonic DEF Names
    <2>2. (<<f>> \o ks) \o <<k>> = <<f>> \o (ks \o <<k>>)
      BY <2>1, ConcatAssociative
    <2>3. Append(t, k) = t \o <<k>>
      BY <1>1, AppendIsConcat DEF Names
    <2> QED
      BY <1>1, <1>2, <2>2, <2>3
  <1> QED
    BY <1>3, <1>4, <1>5 DEF f, ks, js

LEMMA GetAppend ==
    ASSUME NEW v, NEW ks \in Seq(Keys), NEW k \in Keys
    PROVE  Values!Get(v, Append(ks, k)) =
             IF Values!Get(v, ks) = Absent THEN Absent ELSE Values!Get(v, ks)[k]
  <1> DEFINE n == Len(ks)
             js == Append(ks, k)
             a == Values!Along(v, ks)
             b == Values!Along(v, js)
  <1>1. n \in Nat /\ Len(js) = n + 1 /\ (\A i \in 1..n : js[i] = ks[i]) /\ js[n + 1] = k
    BY LenProperties, AppendProperties
  <1>2. a[0] = v /\ \A i \in 1..n : a[i] = IF a[i - 1] = Absent THEN Absent ELSE a[i - 1][ks[i]]
    BY <1>1, AlongLaw
  <1>3. /\ b[0] = v
        /\ \A i \in 1..(n + 1) : b[i] = IF b[i - 1] = Absent THEN Absent ELSE b[i - 1][js[i]]
    <2>1. Len(js) \in Nat
      BY <1>1
    <2> HIDE DEF js
    <2>2. /\ b[0] = v
          /\ \A i \in 1..Len(js) : b[i] = IF b[i - 1] = Absent THEN Absent ELSE b[i - 1][js[i]]
      BY <2>1, AlongLaw
    <2> HIDE DEF n, b
    <2> QED
      BY <1>1, <2>2
  <1>4. Values!Get(v, ks) = a[n] /\ Values!Get(v, js) = b[n + 1]
    BY <1>1 DEF Values!Get
  <1> HIDE DEF n, js, a, b
  <1> DEFINE S == {i \in Nat : i <= n => a[i] = b[i]}
  <1>5. 0 \in S
    BY <1>2, <1>3
  <1>6. ASSUME NEW i \in Nat, i \in S
        PROVE  i + 1 \in S
    <2> SUFFICES ASSUME i + 1 <= n
                 PROVE  a[i + 1] = b[i + 1]
      OBVIOUS
    <2>1. i + 1 \in 1..n /\ i + 1 \in 1..(n + 1) /\ (i + 1) - 1 = i /\ i <= n
      BY <1>1
    <2>2. a[i] = b[i] /\ js[i + 1] = ks[i + 1]
      BY <1>1, <1>6, <2>1
    <2> QED
      BY <1>2, <1>3, <2>1, <2>2
  <1>7. a[n] = b[n]
    <2> HIDE DEF S
    <2>1. n \in S
      BY <1>1, <1>5, <1>6, SetInduction
    <2> QED
      BY <1>1, <2>1 DEF S
  <1>8. n + 1 \in 1..(n + 1) /\ (n + 1) - 1 = n
    BY <1>1
  <1>9. b[n + 1] = IF b[n] = Absent THEN Absent ELSE b[n][k]
    BY <1>1, <1>3, <1>8
  <1> QED
    BY <1>4, <1>7, <1>9 DEF js

LEMMA GetKind ==
    ASSUME NEW d \in 0..MaxKind, NEW v \in Values!Value[d], NEW ks \in Seq(Keys), Len(ks) <= d
    PROVE  /\ Values!Get(v, ks) \in Values!Value[d - Len(ks)] \cup {Absent}
           /\ Values!Get(v, <<>>) = v
  <1> DEFINE n == Len(ks)
             a == Values!Along(v, ks)
             S == {i \in Nat : i <= n => a[i] \in Values!Value[d - i] \cup {Absent}}
  <1>1. n \in Nat /\ n <= d /\ d \in Nat /\ d <= MaxKind /\ \A i \in 1..n : ks[i] \in Keys
    BY LenProperties, KindAssumption
  <1>2. a[0] = v /\ \A i \in 1..n : a[i] = IF a[i - 1] = Absent THEN Absent ELSE a[i - 1][ks[i]]
    BY <1>1, AlongLaw
  <1>3. Values!Get(v, ks) = a[n]
    BY DEF Values!Get
  <1>4. Values!Get(v, <<>>) = v
    <2>1. Len(<<>>) = 0 /\ 0 \in Nat
      BY EmptySeq
    <2>2. Values!Along(v, <<>>)[0] = v
      BY <2>1, AlongLaw
    <2> QED
      BY <2>1, <2>2 DEF Values!Get
  <1> HIDE DEF n, a
  <1>5. 0 \in S
    <2>1. d - 0 = d
      BY <1>1
    <2> QED
      BY <1>2, <2>1
  <1>6. ASSUME NEW i \in Nat, i \in S
        PROVE  i + 1 \in S
    <2> SUFFICES ASSUME i + 1 <= n
                 PROVE  a[i + 1] \in Values!Value[d - (i + 1)] \cup {Absent}
      OBVIOUS
    <2> DEFINE m == d - i
    <2>1. /\ i + 1 \in 1..n /\ (i + 1) - 1 = i /\ i <= n
          /\ m \in 1..MaxKind /\ d - (i + 1) = m - 1
      BY <1>1, KindAssumption
    <2>2. a[i] \in Values!Value[m] \cup {Absent} /\ ks[i + 1] \in Keys
      BY <1>1, <1>6, <2>1
    <2>3. a[i + 1] = IF a[i] = Absent THEN Absent ELSE a[i][ks[i + 1]]
      BY <1>2, <2>1
    <2> HIDE DEF m, S
    <2>4. Values!Value[m] = [Keys -> Values!Value[m - 1] \cup {Absent}]
      BY <2>1, ValueLaw
    <2>5. a[i + 1] \in Values!Value[m - 1] \cup {Absent}
      BY <2>2, <2>3, <2>4
    <2> QED
      BY <2>1, <2>5
  <1>7. a[n] \in Values!Value[d - n] \cup {Absent}
    <2> HIDE DEF S
    <2>1. n \in S
      BY <1>1, <1>5, <1>6, SetInduction
    <2> QED
      BY <1>1, <2>1 DEF S
  <1> QED
    BY <1>3, <1>4, <1>7 DEF n

(* What the table named t holds when the values v were parsed. *)
Written(v, t) == Values!Get(v[t[1]], Tail(t))
Left(t) == Kind[t[1]] - Len(t)

LEMMA WrittenLaw ==
    ASSUME NEW v, \A f \in Fields : v[f] \in Values!Value[Kind[f]],
           NEW t \in ParsedTables
    PROVE  /\ Left(t) \in Nat /\ Left(t) + 1 \in 1..MaxKind
           /\ Written(v, t) \in Values!Value[Left(t) + 1] \cup {Absent}
           /\ Written(v, t) # Absent =>
                \A k \in Keys : Written(v, t)[k] \in Values!Value[Left(t)] \cup {Absent}
           /\ \A k \in Keys : Left(t) # 0 =>
                /\ Append(t, k) \in ParsedTables
                /\ Left(Append(t, k)) = Left(t) - 1
                /\ Written(v, t) # Absent => Written(v, Append(t, k)) = Written(v, t)[k]
  <1> DEFINE f == t[1]
             d == Kind[f]
             ks == Tail(t)
             n == Len(t)
             l == Left(t)
  <1>1. /\ f \in Fields /\ d \in 1..MaxKind /\ d \in Nat /\ n \in 1..d
        /\ ks \in Seq(Keys) /\ Len(ks) = n - 1 /\ l = d - n
    BY ParsedName DEF Left
  <1>2. v[f] \in Values!Value[d]
    BY <1>1
  <1>3. Written(v, t) = Values!Get(v[f], ks)
    BY DEF Written
  <1>4. ASSUME NEW k \in Keys, l # 0
        PROVE  /\ Append(t, k) \in ParsedTables
               /\ Left(Append(t, k)) = l - 1
               /\ Written(v, t) # Absent => Written(v, Append(t, k)) = Written(v, t)[k]
    <2>1. Len(t) < Kind[t[1]]
      <3> HIDE DEF n, d, l
      <3>1. n < d
        BY <1>1, <1>4
      <3> QED
        BY <3>1 DEF n, d
    <2>2. /\ Append(t, k) \in ParsedTables /\ Append(t, k)[1] = f
          /\ Tail(Append(t, k)) = Append(ks, k) /\ Len(Append(t, k)) = n + 1
      BY <2>1, ParsedChild
    <2>3. Written(v, Append(t, k)) = Values!Get(v[f], Append(ks, k))
      BY <2>2 DEF Written
    <2>4. Left(Append(t, k)) = d - (n + 1)
      BY <2>2 DEF Left
    <2> HIDE DEF f, d, ks, n, l
    <2>5. Left(Append(t, k)) = l - 1
      BY <1>1, <2>4
    <2>6. Values!Get(v[f], Append(ks, k)) =
            IF Values!Get(v[f], ks) = Absent THEN Absent ELSE Values!Get(v[f], ks)[k]
      BY <1>1, GetAppend
    <2> QED
      BY <1>3, <2>2, <2>3, <2>5, <2>6
  <1> HIDE DEF f, d, ks, n, l
  <1>5. /\ l \in Nat /\ l + 1 \in 1..MaxKind /\ d \in 0..MaxKind
        /\ Len(ks) <= d /\ d - Len(ks) = l + 1
    BY <1>1, KindAssumption
  <1>6. Written(v, t) \in Values!Value[l + 1] \cup {Absent}
    <2>1. Values!Get(v[f], ks) \in Values!Value[d - Len(ks)] \cup {Absent}
      BY <1>1, <1>2, <1>5, GetKind
    <2> QED
      BY <1>3, <1>5, <2>1
  <1>7. Values!Value[l + 1] = [Keys -> Values!Value[l] \cup {Absent}]
    <2> DEFINE m == l + 1
    <2>1. m \in 1..MaxKind /\ m - 1 = l
      BY <1>5
    <2> HIDE DEF m
    <2>2. Values!Value[m] = [Keys -> Values!Value[m - 1] \cup {Absent}]
      BY <2>1, ValueLaw
    <2>3. Values!Value[m] = [Keys -> Values!Value[l] \cup {Absent}]
      BY <2>1, <2>2
    <2> QED
      BY <2>3 DEF m
  <1>8. Written(v, t) # Absent =>
          \A k \in Keys : Written(v, t)[k] \in Values!Value[l] \cup {Absent}
    BY <1>6, <1>7
  <1> QED
    BY <1>4, <1>5, <1>6, <1>8 DEF l

LEMMA ParsedEntries ==
    ASSUME NEW v, \A f \in Fields : v[f] \in Values!Value[Kind[f]],
           NEW t \in ParsedTables
    PROVE  IF Written(v, t) = Absent THEN ParsedHeap(v)[t] = Emp
           ELSE \A k \in Keys :
                  ParsedHeap(v)[t][k] = IF Written(v, t)[k] = Absent \/ Left(t) = 0
                                        THEN Written(v, t)[k] ELSE Append(t, k)
  <1>1. t \in Tables
    BY DEF Tables
  <1>2. Len(t) = Kind[t[1]] <=> Left(t) = 0
    <2> DEFINE n == Len(t)
               d == Kind[t[1]]
    <2>1. d \in Nat /\ n \in 1..d
      BY ParsedName
    <2>2. Left(t) = d - n
      BY DEF Left
    <2> HIDE DEF n, d
    <2>3. n = d <=> Left(t) = 0
      BY <2>1, <2>2
    <2> QED
      BY <2>3 DEF n, d
  <1>3. ParsedHeap(v)[t] =
          IF Written(v, t) = Absent THEN Emp
          ELSE [k \in Keys |-> IF Written(v, t)[k] = Absent \/ Len(t) = Kind[t[1]]
                               THEN Written(v, t)[k] ELSE Append(t, k)]
    BY <1>1 DEF ParsedHeap, Written
  <1> QED
    BY <1>2, <1>3

(* What was written is read back, into tables that nothing shares.          *)
LEMMA Parsing ==
    ASSUME NEW v, \A f \in Fields : v[f] \in Values!Value[Kind[f]]
    PROVE  /\ Settled(ParsedHeap(v), ParsedFields(v), NoLocals)
           /\ \A f \in Fields : Deref(ParsedHeap(v), Kind[f], ParsedFields(v)[f]) = v[f]
           /\ \A x \in Vars : Deref(ParsedHeap(v), Kind[x], NoLocals[x]) = Absent
  <1> DEFINE p == ParsedHeap(v)
             fs == ParsedFields(v)
  (* An entry is a child, or what was written there. *)
  <1>1. ASSUME NEW t \in ParsedTables, NEW k \in Keys
        PROVE  \/ /\ Left(t) # 0 /\ Written(v, t) # Absent /\ Written(v, t)[k] # Absent
                  /\ p[t][k] = Append(t, k)
               \/ Left(t) = 0 /\ Written(v, t) # Absent /\ p[t][k] = Written(v, t)[k]
               \/ p[t][k] = Absent
    BY ParsedEntries DEF Emp
  <1>2. ASSUME NEW t \in Tables
        PROVE  /\ t \notin ParsedTables => p[t] = Emp
               /\ p[t] = [k \in Keys |-> p[t][k]]
    <2>1. t \notin ParsedTables => p[t] = Emp
      BY DEF ParsedHeap
    <2>2. p[t] = Emp => p[t] = [k \in Keys |-> p[t][k]]
      BY DEF Emp
    <2>3. CASE t \in ParsedTables
      <3>1. p[t] = IF Written(v, t) = Absent THEN Emp
                   ELSE [k \in Keys |-> IF Written(v, t)[k] = Absent \/ Len(t) = Kind[t[1]]
                                        THEN Written(v, t)[k] ELSE Append(t, k)]
        BY <2>3 DEF ParsedHeap, Written
      <3> HIDE DEF p
      <3> DEFINE q == [k \in Keys |-> IF Written(v, t)[k] = Absent \/ Len(t) = Kind[t[1]]
                                      THEN Written(v, t)[k] ELSE Append(t, k)]
      <3>2. q = [k \in Keys |-> q[k]]
        OBVIOUS
      <3>3. p[t] = Emp \/ p[t] = q
        BY <3>1
      <3> HIDE DEF q
      <3>4. p[t] = q => p[t] = [k \in Keys |-> p[t][k]]
        BY <3>2
      <3> QED
        BY <2>1, <2>2, <3>3, <3>4
    <2> QED
      BY <2>1, <2>2, <2>3
  <1>3. p = [t \in Tables |-> p[t]]
    BY DEF ParsedHeap
  <1>4. ASSUME NEW f \in Fields, Kind[f] # 0
        PROVE  /\ fs[f] = <<f>> /\ <<f>> \in ParsedTables /\ Left(<<f>>) + 1 = Kind[f]
               /\ Written(v, <<f>>) = v[f] /\ Len(<<f>>) = 1 /\ <<f>>[1] = f
    <2>1. <<>> \in Seq(Keys) /\ Len(<<>>) = 0
      BY EmptySeq
    <2>2. Kind[f] \in 1..MaxKind /\ Len(<<>>) < Kind[f] /\ Kind[f] \in 0..MaxKind
      BY <1>4, <2>1, KindAssumption
    <2>3. <<f>> \o <<>> = <<f>>
      <3>1. <<f>> \in Seq(Fields)
        OBVIOUS
      <3> QED
        BY <3>1, ConcatEmptySeq
    <2>4. /\ <<f>> \in ParsedTables /\ <<f>>[1] = f
          /\ Tail(<<f>>) = <<>> /\ Len(<<f>>) = 1
      BY <2>1, <2>2, <2>3, ParsedMade
    <2>5. Left(<<f>>) + 1 = Kind[f]
      <3>1. Left(<<f>>) = Kind[f] - 1
        BY <2>4 DEF Left
      <3> QED
        BY <2>2, <3>1, KindAssumption
    <2>6. Written(v, <<f>>) = v[f]
      <3>1. v[f] \in Values!Value[Kind[f]] /\ Len(<<>>) <= Kind[f]
        BY <2>1, <2>2, KindAssumption
      <3>2. Values!Get(v[f], <<>>) = v[f]
        BY <2>1, <2>2, <3>1, GetKind
      <3> QED
        BY <2>4, <3>2 DEF Written
    <2>7. fs[f] = <<f>>
      BY <1>4 DEF ParsedFields
    <2> QED
      BY <2>4, <2>5, <2>6, <2>7
  <1>5. \A f \in Fields : Kind[f] = 0 => fs[f] = v[f] /\ v[f] \in Scalars /\ fs[f] \notin Tables
    BY ValueLaw, CellAssumption DEF ParsedFields
  <1>6. fs = [f \in Fields |-> fs[f]] /\ NoLocals = [x \in Vars |-> Absent]
    BY DEF ParsedFields, NoLocals
  <1> HIDE DEF p, fs
  <1>7. p \in HeapType
    <2>1. ASSUME NEW t \in ParsedTables, NEW k \in Keys
          PROVE  p[t][k] \in Cells
      <3>1. p[t][k] = Append(t, k) /\ Left(t) # 0 => p[t][k] \in Cells
        BY WrittenLaw DEF Cells, Tables
      <3>2. Left(t) = 0 /\ Written(v, t) # Absent => Written(v, t)[k] \in Cells
        BY ValueLaw, WrittenLaw DEF Cells
      <3>3. Absent \in Cells
        BY DEF Cells
      <3> QED
        BY <1>1, <3>1, <3>2, <3>3
    <2>2. \A k \in Keys : Emp[k] \in Cells
      BY DEF Emp, Cells
    <2>3. \A t \in Tables : \A k \in Keys : p[t][k] \in Cells
      BY <1>2, <2>1, <2>2
    <2>4. \A t \in Tables : p[t] \in [Keys -> Cells]
      BY <1>2, <2>3
    <2> QED
      BY <1>3, <2>4 DEF HeapType
  (* By the levels left below it, a table denotes what was written. *)
  <1> DEFINE S == {n \in Nat : \A t \in ParsedTables : Left(t) + 1 = n =>
                      /\ t \in OfKind(p)[n]
                      /\ Written(v, t) # Absent => Deref(p, n, t) = Written(v, t)}
  <1>8. 0 \in S
    <2>1. \A t \in ParsedTables : Left(t) + 1 # 0
      BY WrittenLaw
    <2> QED
      BY <2>1
  <1>9. ASSUME NEW n \in Nat, n \in S
        PROVE  n + 1 \in S
    <2> SUFFICES ASSUME NEW t \in ParsedTables, Left(t) + 1 = n + 1
                 PROVE  /\ t \in OfKind(p)[n + 1]
                        /\ Written(v, t) # Absent => Deref(p, n + 1, t) = Written(v, t)
      OBVIOUS
    <2>1. Left(t) = n /\ n + 1 \in 1..MaxKind /\ n \in 0..MaxKind /\ t \in Tables
      BY WrittenLaw, KindAssumption DEF Tables
    <2>2. ASSUME NEW k \in Keys
          PROVE  /\ p[t][k] \in OfKind(p)[n] \cup {Absent}
                 /\ Written(v, t) # Absent => Deref(p, n, p[t][k]) = Written(v, t)[k]
      <3>1. CASE Written(v, t) = Absent
        BY <1>1, <3>1
      <3>2. CASE Written(v, t) # Absent /\ Written(v, t)[k] = Absent
        <4>1. p[t][k] = Absent
          BY <3>2, ParsedEntries DEF p
        <4> QED
          BY <2>1, <3>2, <4>1, DerefOther
      <3>3. CASE Written(v, t) # Absent /\ Written(v, t)[k] # Absent /\ n = 0
        <4>1. p[t][k] = Written(v, t)[k]
          <5>1. Left(t) = 0
            BY <2>1, <3>3
          <5>2. IF Written(v, t) = Absent THEN p[t] = Emp
                ELSE \A j \in Keys : p[t][j] = IF Written(v, t)[j] = Absent \/ Left(t) = 0
                                              THEN Written(v, t)[j] ELSE Append(t, j)
            BY ParsedEntries DEF p
          <5> QED
            BY <3>3, <5>1, <5>2
        <4>2. Written(v, t)[k] \in Scalars
          <5>1. Written(v, t)[k] \in Values!Value[Left(t)] \cup {Absent}
            BY <3>3, WrittenLaw
          <5>2. Values!Value[Left(t)] = Scalars
            BY <2>1, <3>3, ValueLaw
          <5> QED
            BY <3>3, <5>1, <5>2
        <4> QED
          BY <2>1, <3>3, <4>1, <4>2, DerefOther, OfKindLaw
      <3>4. CASE Written(v, t) # Absent /\ Written(v, t)[k] # Absent /\ n # 0
        <4> DEFINE c == Append(t, k)
        <4>1. p[t][k] = c
          BY <2>1, <3>4, ParsedEntries DEF p
        <4>2. c \in ParsedTables /\ Left(c) = n - 1 /\ Written(v, c) = Written(v, t)[k]
          BY <2>1, <3>4, WrittenLaw
        <4> HIDE DEF c
        <4>3. Left(c) + 1 = n
          BY <4>2
        <4>4. /\ c \in OfKind(p)[n]
              /\ Written(v, c) # Absent => Deref(p, n, c) = Written(v, c)
          BY <1>9, <4>2, <4>3
        <4> QED
          BY <3>4, <4>1, <4>2, <4>4
      <3> QED
        BY <3>1, <3>2, <3>3, <3>4
    <2> HIDE DEF S
    <2> DEFINE m == n + 1
    <2>3. m \in 1..MaxKind /\ m - 1 = n
      BY <2>1
    <2> HIDE DEF m
    <2>4. t \in OfKind(p)[m]
      BY <2>1, <2>2, <2>3, OfKindLaw
    <2>5. Deref(p, m, t) = [k \in Keys |-> Deref(p, n, p[t][k])]
      <3>1. t \in Tables
        BY <2>1
      <3>2. Deref(p, m, t) = [k \in Keys |-> Deref(p, m - 1, p[t][k])]
        BY <2>3, <3>1, DerefTable
      <3> QED
        BY <2>3, <3>2
    <2>6. Written(v, t) # Absent => Deref(p, m, t) = Written(v, t)
      <3> SUFFICES ASSUME Written(v, t) # Absent
                   PROVE  Deref(p, m, t) = Written(v, t)
        OBVIOUS
      <3>1. Written(v, t) \in Values!Value[Left(t) + 1]
        BY WrittenLaw
      <3>2. Left(t) + 1 = m
        BY <2>1 DEF m
      <3>3. Values!Value[m] = [Keys -> Values!Value[m - 1] \cup {Absent}]
        BY <2>3, ValueLaw
      <3>4. Written(v, t) = [k \in Keys |-> Written(v, t)[k]]
        BY <3>1, <3>2, <3>3
      <3> QED
        BY <2>2, <2>5, <3>4
    <2> QED
      BY <2>4, <2>6 DEF m
  <1>10. ASSUME NEW t \in ParsedTables
         PROVE  /\ t \in OfKind(p)[Left(t) + 1]
                /\ Written(v, t) # Absent => Deref(p, Left(t) + 1, t) = Written(v, t)
    <2> HIDE DEF S
    <2>1. Left(t) + 1 \in Nat
      BY WrittenLaw
    <2>2. Left(t) + 1 \in S
      BY <1>8, <1>9, <2>1, SetInduction
    <2> QED
      BY <2>2 DEF S
  <1> HIDE DEF S
  <1>11. ASSUME NEW f \in Fields
         PROVE  fs[f] \in OfKind(p)[Kind[f]] /\ Deref(p, Kind[f], fs[f]) = v[f]
    <2>1. CASE Kind[f] = 0
      <3>1. 0 \in 0..MaxKind
        BY KindAssumption
      <3> QED
        BY <1>5, <2>1, <3>1, OfKindLaw, DerefOther
    <2>2. CASE Kind[f] # 0
      <3>1. Kind[f] \in 1..MaxKind
        BY <2>2, KindAssumption
      <3>2. v[f] # Absent
        BY <3>1, CellAssumption
      <3>3. /\ fs[f] = <<f>> /\ <<f>> \in ParsedTables /\ Left(<<f>>) + 1 = Kind[f]
            /\ Written(v, <<f>>) = v[f]
        BY <1>4, <2>2
      <3>4. /\ <<f>> \in OfKind(p)[Left(<<f>>) + 1]
            /\ Written(v, <<f>>) # Absent => Deref(p, Left(<<f>>) + 1, <<f>>) = Written(v, <<f>>)
        BY <1>10, <3>3
      <3> DEFINE t == <<f>>
      <3> HIDE DEF t
      <3> QED
        BY <3>2, <3>3, <3>4 DEF t
    <2> QED
      BY <2>1, <2>2
  <1>12. \A x \in Vars : Deref(p, Kind[x], NoLocals[x]) = Absent
    BY <1>6, DerefOther, KindAssumption
  <1>13. EmpLiteral \in Tables /\ EmpLiteral \notin ParsedTables /\ p[EmpLiteral] = Emp
    BY <1>2, CellAssumption DEF Tables
  <1>14. Typed(p, fs, NoLocals)
    <2>1. \A f \in Fields : fs[f] \in Cells
      BY <1>4, <1>5 DEF Cells, Tables
    <2>2. Absent \in Cells
      BY DEF Cells
    <2> QED
      BY <1>6, <1>7, <1>11, <1>13, <2>1, <2>2 DEF Typed
  <1>15. ASSUME NEW t \in ParsedTables, NEW k \in Keys, p[t][k] \in Tables
         PROVE  /\ p[t][k] = Append(t, k) /\ p[t][k] \in ParsedTables
                /\ t \in Seq(Names) /\ k \in Names /\ Len(t) >= 1 /\ Len(t) \in Nat
    <2>1. ~(Left(t) = 0 /\ Written(v, t) # Absent /\ p[t][k] = Written(v, t)[k])
      BY <1>15, WrittenLaw, ValueLaw, CellAssumption
    <2>2. Left(t) # 0 /\ p[t][k] = Append(t, k)
      BY <1>1, <1>15, <2>1, CellAssumption
    <2>3. Append(t, k) \in ParsedTables
      BY <2>2, WrittenLaw
    <2>4. t \in Seq(Names) /\ k \in Names /\ Len(t) \in 1..Kind[t[1]] /\ Kind[t[1]] \in Nat
      BY ParsedName DEF Names
    <2>5. Len(t) >= 1 /\ Len(t) \in Nat
      BY <2>4
    <2> QED
      BY <2>2, <2>3, <2>4, <2>5
  <1>16. ASSUME NEW f \in Fields, fs[f] \in Tables
         PROVE  fs[f] = <<f>> /\ <<f>> \in ParsedTables /\ Len(<<f>>) = 1 /\ <<f>>[1] = f
    BY <1>4, <1>5, <1>16
  <1>17. OneHolder(p, fs, ParsedTables)
    <2>1. ASSUME NEW f \in Fields, NEW g \in Fields, fs[f] = fs[g], fs[f] \in Tables
          PROVE  f = g
      BY <1>16, <2>1
    <2>2. ASSUME NEW t \in ParsedTables, NEW u \in ParsedTables, NEW k \in Keys, NEW l \in Keys,
                 p[t][k] = p[u][l], p[t][k] \in Tables
          PROVE  t = u /\ k = l
      <3>1. Append(t, k) = Append(u, l)
        <4>1. p[t][k] = Append(t, k)
          BY <1>15, <2>2
        <4>2. p[u][l] = Append(u, l)
          BY <1>15, <2>2
        <4> QED
          BY <2>2, <4>1, <4>2
      <3>2. t \in Seq(Names) /\ u \in Seq(Names) /\ k \in Names /\ l \in Names
        BY <1>15, <2>2
      <3> QED
        BY <3>1, <3>2, AppendInjective
    <2>3. ASSUME NEW f \in Fields, NEW t \in ParsedTables, NEW k \in Keys, fs[f] \in Tables,
                 fs[f] = p[t][k]
          PROVE  FALSE
      <3>1. <<f>> = Append(t, k) /\ Len(t) >= 1 /\ Len(t) \in Nat /\ t \in Seq(Names) /\ k \in Names
        BY <1>15, <1>16, <2>3
      <3>2. Len(Append(t, k)) = Len(t) + 1
        BY <3>1, AppendProperties
      <3>3. Len(<<f>>) = 1
        BY <1>16, <2>3
      <3> QED
        BY <3>1, <3>2, <3>3
    <2> QED
      BY <2>1, <2>2, <2>3 DEF OneHolder
  <1>18. Separated(p, fs, NoLocals, ParsedTables, {EmpLiteral})
    <2>1. Closed(p, ParsedTables)
      BY <1>15 DEF Closed
    <2>2. Closed(p, {EmpLiteral})
      BY <1>13, CellAssumption DEF Closed, Emp
    <2>3. \A x \in Vars : NoLocals[x] \notin Tables
      BY <1>6, CellAssumption
    <2>4. ParsedTables \subseteq Tables
      BY DEF Tables
    <2>5. \A f \in Fields : fs[f] \in Tables => fs[f] \in ParsedTables
      BY <1>16
    <2>6. ParsedTables \cap {EmpLiteral} = {}
      BY CellAssumption
    <2>7. {EmpLiteral} \subseteq Tables /\ EmpLiteral \in {EmpLiteral}
      BY <1>13
    <2> QED
      BY <1>17, <2>1, <2>2, <2>3, <2>4, <2>5, <2>6, <2>7 DEF Separated
  <1>19. \A t \in FreshTables : p[t] = Emp
    BY <1>2, CellAssumption DEF Tables
  <1> QED
    BY <1>11, <1>12, <1>14, <1>18, <1>19 DEF Settled, p, fs

(* A field's value is one of the values of its kind. *)
LEMMA FieldValueSetsLaw ==
    ASSUME NEW v, \A f \in Fields : v[f] \in Values!Value[Kind[f]], v = [f \in Fields |-> v[f]]
    PROVE  v \in [Fields -> UNION {Values!Value[d] : d \in 0..MaxKind}]
  <1>1. \A f \in Fields : Kind[f] \in 0..MaxKind
    BY KindAssumption
  <1>2. \A f \in Fields : v[f] \in UNION {Values!Value[d] : d \in 0..MaxKind}
    BY <1>1
  <1> QED
    BY <1>2

LEMMA StartStep ==
    ASSUME NEW v \in FieldValueSets, Start(v)
    PROVE  Inv /\ Values!Init
  <1>1. /\ v = [f \in Fields |-> v[f]]
        /\ \A f \in Fields : v[f] \in Values!Value[Kind[f]]
    BY DEF FieldValueSets
  <1>2. fields = ParsedFields(v) /\ env = NoLocals /\ heap = ParsedHeap(v)
    BY DEF Start
  <1>3. /\ Settled(ParsedHeap(v), ParsedFields(v), NoLocals)
        /\ \A f \in Fields : Deref(ParsedHeap(v), Kind[f], ParsedFields(v)[f]) = v[f]
        /\ \A x \in Vars : Deref(ParsedHeap(v), Kind[x], NoLocals[x]) = Absent
    BY <1>1, Parsing
  <1>4. Inv
    BY <1>2, <1>3 DEF Inv
  <1>5. FieldValues = v
    <2>1. FieldValues = [f \in Fields |-> v[f]]
      BY <1>2, <1>3 DEF FieldValues, FieldsIn
    <2> QED
      BY <1>1, <2>1
  <1>6. EnvValues = [x \in Vars |-> Absent]
    BY <1>2, <1>3 DEF EnvValues, LocalsIn
  <1>7. FieldValues \in [Fields -> UNION {Values!Value[d] : d \in 0..MaxKind}]
    BY <1>1, <1>5, FieldValueSetsLaw
  <1>8. \A f \in Fields : FieldValues[f] \in Values!Value[Kind[f]]
    BY <1>1, <1>5
  <1>9. Values!Init
    BY <1>6, <1>7, <1>8 DEF Values!Init
  <1> QED
    BY <1>4, <1>9

LEMMA InitStep ==
    ASSUME Init
    PROVE  Inv /\ Values!Init
  BY StartStep DEF Init

LEMMA NextMessageStep ==
    ASSUME Inv, NextMessage
    PROVE  Inv' /\ FieldValues' = FieldValues /\ Values!NextMessage
  <1> DEFINE v == FieldValues
  <1>1. v = [f \in Fields |-> v[f]]
    BY DEF FieldValues, FieldsIn
  <1>2. \A f \in Fields : v[f] \in Values!Value[Kind[f]]
    BY Denoting
  <1>3. fields' = ParsedFields(v) /\ env' = NoLocals /\ heap' = ParsedHeap(v)
    BY DEF NextMessage
  <1> HIDE DEF v
  <1>4. /\ Settled(ParsedHeap(v), ParsedFields(v), NoLocals)
        /\ \A f \in Fields : Deref(ParsedHeap(v), Kind[f], ParsedFields(v)[f]) = v[f]
        /\ \A x \in Vars : Deref(ParsedHeap(v), Kind[x], NoLocals[x]) = Absent
    BY <1>2, Parsing
  <1>5. Inv'
    BY <1>3, <1>4 DEF Inv
  <1>6. FieldValues' = v
    <2>1. FieldValues' = [f \in Fields |-> v[f]]
      BY <1>3, <1>4 DEF FieldValues, FieldsIn
    <2> QED
      BY <1>1, <2>1
  <1>7. EnvValues' = [x \in Vars |-> Absent]
    BY <1>3, <1>4 DEF EnvValues, LocalsIn
  <1> QED
    BY <1>5, <1>6, <1>7 DEF v, Values!NextMessage

(* A statement that writes a field, and one that binds a name, is a step of *)
(* FieldStore.                                                              *)
Wrote(f) == EnvValues' = EnvValues /\ Values!Write(f)
Bound(x) == FieldValues' = FieldValues /\ (Values!Read(x) \/ Values!Evaluate(x))

LEMMA StatementStep ==
    ASSUME Inv, InPlaceOnly, Next
    PROVE  /\ Inv'
           /\ \/ \E f \in Fields : Wrote(f)
              \/ \E x \in Vars : Bound(x)
              \/ FieldValues' = FieldValues /\ Values!NextMessage
  <1> DEFINE Goal == /\ Inv'
                     /\ \/ \E f \in Fields : Wrote(f)
                        \/ \E x \in Vars : Bound(x)
                        \/ FieldValues' = FieldValues /\ Values!NextMessage
  <1>0. \A d : Values!Paths(d) = Paths(d)
    BY DEF Paths, Values!Paths
  <1>1. ASSUME NEW x \in Vars, NEW f \in Fields, Load(x, f)
        PROVE  Goal
    <2>1. Inv' /\ FieldValues' = FieldValues /\ Kind[x] = Kind[f] /\ Values!Load(x, f)
      BY <1>1, LoadStep
    <2>2. Values!Read(x)
      BY <2>1 DEF Values!Read
    <2> QED
      BY <2>1, <2>2 DEF Bound
  <1>2. ASSUME NEW x \in Vars, NEW f \in Fields, Store(f, x)
        PROVE  Goal
    <2>1. Inv' /\ EnvValues' = EnvValues /\ Kind[x] = Kind[f] /\ Values!Store(f, x)
      BY <1>2, StoreStep
    <2>2. Values!Write(f)
      BY <2>1 DEF Values!Write
    <2> QED
      BY <2>1, <2>2 DEF Wrote
  <1>3. ASSUME NEW f \in Fields, NEW ks \in Paths(Kind[f]), MapDelete(f, ks)
        PROVE  Goal
    <2>1. Inv' /\ EnvValues' = EnvValues /\ Values!MapDelete(f, ks)
      BY <1>3, MapDeleteStep
    <2>2. Values!Write(f)
      BY <1>0, <2>1 DEF Values!Write
    <2> QED
      BY <2>1, <2>2 DEF Wrote
  <1>4. ASSUME NEW f \in Fields, NEW ks \in Paths(Kind[f]), NEW x \in Vars, MapSet(f, ks, x)
        PROVE  Goal
    <2>1. /\ Inv' /\ EnvValues' = EnvValues
          /\ Kind[x] = Kind[f] - Len(ks) /\ Values!MapSet(f, ks, x)
      BY <1>4, MapSetStep
    <2>2. Values!Write(f)
      BY <1>0, <2>1 DEF Values!Write
    <2> QED
      BY <2>1, <2>2 DEF Wrote
  <1>5. ASSUME NEW f \in Fields, NEW ks \in Paths(Kind[f]), NEW x \in Vars, MapFetch(x, f, ks)
        PROVE  Goal
    <2>1. /\ Inv' /\ FieldValues' = FieldValues
          /\ Kind[x] = Kind[f] - Len(ks) /\ Values!MapFetch(x, f, ks)
      BY <1>5, MapFetchStep
    <2>2. Values!Read(x)
      BY <1>0, <2>1 DEF Values!Read
    <2> QED
      BY <2>1, <2>2 DEF Bound
  <1>6. ASSUME NEW f \in Fields, NEW ks \in Paths(Kind[f]), NEW x \in Vars, MapExists(x, f, ks)
        PROVE  Goal
    <2>1. Inv' /\ FieldValues' = FieldValues /\ Kind[x] = 0 /\ Values!MapExists(x, f, ks)
      BY <1>6, MapExistsStep
    <2>2. Values!Read(x)
      BY <1>0, <2>1 DEF Values!Read
    <2> QED
      BY <2>1, <2>2 DEF Bound
  <1>7. ASSUME NEW x \in Vars, BindEmp(x)
        PROVE  Goal
    <2>1. Inv' /\ FieldValues' = FieldValues /\ Kind[x] > 0 /\ Values!BindLiteral(x, Emp)
      BY <1>7, BindEmpStep
    <2>2. Emp = Values!Emp
      BY DEF Emp, Values!Emp
    <2>3. Values!Evaluate(x)
      BY <2>1, <2>2 DEF Values!Evaluate
    <2> QED
      BY <2>1, <2>3 DEF Bound
  <1>8. ASSUME NEW x \in Vars, NEW s \in Scalars, BindScalar(x, s)
        PROVE  Goal
    <2>1. Inv' /\ FieldValues' = FieldValues /\ Kind[x] = 0 /\ Values!BindLiteral(x, s)
      BY <1>8, BindScalarStep
    <2>2. Values!Evaluate(x)
      BY <2>1 DEF Values!Evaluate
    <2> QED
      BY <2>1, <2>2 DEF Bound
  <1>9. ASSUME NEW x \in Vars, NEW m \in Vars, NEW k \in Keys, BuiltinRemove(x, m, k)
        PROVE  Goal
    <2>1. /\ Inv' /\ FieldValues' = FieldValues
          /\ Kind[m] > 0 /\ Kind[x] = Kind[m] /\ Values!BuiltinRemove(x, m, k)
      BY <1>9, BuiltinRemoveStep
    <2>2. Values!Evaluate(x)
      BY <2>1 DEF Values!Evaluate
    <2> QED
      BY <2>1, <2>2 DEF Bound
  <1>10. ASSUME NEW x \in Vars, NEW m \in Vars, NEW k \in Keys, BuiltinGet(x, m, k)
         PROVE  Goal
    <2>1. /\ Inv' /\ FieldValues' = FieldValues
          /\ Kind[m] > 0 /\ Kind[x] = Kind[m] - 1 /\ Values!BuiltinGet(x, m, k)
      BY <1>10, BuiltinGetStep
    <2>2. Values!Evaluate(x)
      BY <2>1 DEF Values!Evaluate
    <2> QED
      BY <2>1, <2>2 DEF Bound
  <1>11. ASSUME NEW x \in Vars, NEW m \in Vars, NEW k \in Keys, NEW v \in Vars,
                BuiltinPut(x, m, k, v)
         PROVE  Goal
    <2>1. /\ Inv' /\ FieldValues' = FieldValues
          /\ Kind[m] > 0 /\ Kind[x] = Kind[m] /\ Kind[v] = Kind[m] - 1
          /\ Values!BuiltinPut(x, m, k, v)
      BY <1>11, BuiltinPutStep
    <2>2. Values!Evaluate(x)
      BY <2>1 DEF Values!Evaluate
    <2> QED
      BY <2>1, <2>2 DEF Bound
  <1>12. ASSUME NextMessage
         PROVE  Goal
    BY <1>12, NextMessageStep
  <1> HIDE DEF Goal
  <1>13. Goal
    BY <1>1, <1>2, <1>3, <1>4, <1>5, <1>6, <1>7, <1>8, <1>9, <1>10, <1>11, <1>12 DEF Next
  <1> QED
    BY <1>13 DEF Goal

LEMMA Step ==
    ASSUME Inv, InPlaceOnly, [Next]_vars
    PROVE  Inv' /\ [Values!Next]_(Values!vars)
  <1>1. CASE Next
    <2>1. /\ Inv'
          /\ \/ \E f \in Fields : Wrote(f)
             \/ \E x \in Vars : Bound(x)
             \/ FieldValues' = FieldValues /\ Values!NextMessage
      BY <1>1, StatementStep
    <2>2. Values!Next
      BY <2>1 DEF Wrote, Bound, Values!Next
    <2> QED
      BY <2>1, <2>2
  <1>2. CASE UNCHANGED vars
    <2>1. fields' = fields /\ env' = env /\ heap' = heap
      BY <1>2 DEF vars
    <2>2. Inv'
      BY <2>1 DEF Inv
    <2>3. FieldValues' = FieldValues /\ EnvValues' = EnvValues
      BY <2>1 DEF FieldValues, EnvValues, FieldsIn, LocalsIn
    <2>4. UNCHANGED Values!vars
      BY <2>3 DEF Values!vars
    <2> QED
      BY <2>2, <2>4
  <1> QED
    BY <1>1, <1>2

-----------------------------------------------------------------------------
(* Theorems.  InPlaceOnly is a hypothesis: without it the properties are    *)
(* false (a load or a store of a map shares its table).                     *)

(* In every state the tables a field is made of have one holder each and    *)
(* none of them is reached from a local (what update_local relies on).      *)
THEOREM Invariance ==
    ASSUME InPlaceOnly
    PROVE  Spec => []Inv
  <1>1. Init => Inv
    BY InitStep
  <1>2. Inv /\ [Next]_vars => Inv'
    BY Step
  <1> QED
    BY <1>1, <1>2, PTL DEF Spec

(* While the contract raises no map_load_store warning, the hash tables     *)
(* shared by reference implement fields and locals that hold values.        *)
THEOREM HashTablesHoldValues ==
    ASSUME InPlaceOnly
    PROVE  Spec => ImplementsValues
  <1>1. Init => Values!Init
    BY InitStep
  <1>2. Inv /\ [Next]_vars => [Values!Next]_(Values!vars)
    BY Step
  <1> QED
    BY <1>1, <1>2, Invariance, PTL DEF Spec, ImplementsValues, Values!Spec

(* Every field and local holds a value of its type, whatever tables share.  *)
THEOREM TypeCorrect ==
    ASSUME InPlaceOnly
    PROVE  Spec => []TypeOK
  <1>1. ASSUME Inv
        PROVE  TypeOK
    <2>1. Typed(heap, fields, env)
      BY <1>1, Denoting
    <2>2. /\ fields \in [Fields -> Cells] /\ env \in [Vars -> Cells]
          /\ heap \in [Tables -> [Keys -> Cells]]
      BY <2>1 DEF Typed, HeapType
    <2> QED
      BY <1>1, <2>2, Denoting DEF TypeOK
  <1>2. Inv => TypeOK
    BY <1>1
  <1> QED
    BY <1>2, Invariance, PTL

(* One holder in the sense of OneHolder, counted. *)
LEMMA Holders ==
    ASSUME NEW F \in SUBSET Tables, OneHolder(heap, fields, F), NEW t \in F,
           \/ \E f \in Fields : fields[f] = t
           \/ \E u \in F, k \in Keys : heap[u][k] = t
    PROVE  Cardinality({f \in Fields : fields[f] = t})
           + Cardinality({e \in F \X Keys : heap[e[1]][e[2]] = t}) = 1
  <1> DEFINE A == {f \in Fields : fields[f] = t}
             B == {e \in F \X Keys : heap[e[1]][e[2]] = t}
  <1>1. t \in Tables
    OBVIOUS
  <1>2. CASE \E f \in Fields : fields[f] = t
    <2>1. PICK f \in Fields : fields[f] = t
      BY <1>2
    <2>2. A = {f}
      BY <1>1, <2>1 DEF OneHolder
    <2>3. B = {}
      BY <1>1, <2>1 DEF OneHolder
    <2> HIDE DEF A, B
    <2>4. Cardinality(A) = 1 /\ Cardinality(B) = 0
      BY <2>2, <2>3, FS_Singleton, FS_EmptySet
    <2> QED
      BY <2>4 DEF A, B
  <1>3. CASE ~\E f \in Fields : fields[f] = t
    <2>1. PICK u \in F, k \in Keys : heap[u][k] = t
      BY <1>3
    <2>2. A = {}
      BY <1>3
    <2>3. ASSUME NEW e \in B
          PROVE  e = <<u, k>>
      <3>1. e[1] \in F /\ e[2] \in Keys /\ e = <<e[1], e[2]>> /\ heap[e[1]][e[2]] = heap[u][k]
        BY <2>1
      <3>2. e[1] = u /\ e[2] = k
        BY <1>1, <2>1, <3>1 DEF OneHolder
      <3> QED
        BY <3>1, <3>2
    <2>4. <<u, k>> \in B
      BY <2>1
    <2>5. B = {<<u, k>>}
      BY <2>3, <2>4
    <2> HIDE DEF A, B
    <2>6. Cardinality(A) = 0 /\ Cardinality(B) = 1
      BY <2>2, <2>5, FS_Singleton, FS_EmptySet
    <2> QED
      BY <2>6 DEF A, B
  <1> QED
    BY <1>2, <1>3

(* A table that is reached is a root or an entry of another that is. *)
LEMMA ReachedHeld ==
    ASSUME NEW h, NEW R, Shallow(h, R), NEW t \in Reached(h, R)
    PROVE  t \in R \/ \E u \in Reached(h, R), k \in Keys : h[u][k] = t
  <1> SUFFICES ASSUME t \notin R, \A u \in Reached(h, R), k \in Keys : h[u][k] # t
               PROVE  FALSE
    OBVIOUS
  <1> DEFINE A == Reached(h, R)
             D == A \ {t}
  <1>1. A \subseteq Tables /\ R \cap Tables \subseteq A /\ Closed(h, A)
    BY ReachedClosed
  <1>2. D \in SUBSET Tables /\ R \cap Tables \subseteq D
    BY <1>1
  <1>3. Closed(h, D)
    BY <1>1 DEF Closed
  <1> HIDE DEF D
  <1>4. A \subseteq D
    BY <1>2, <1>3, ReachedLeast
  <1> QED
    BY <1>4 DEF D

(* No table is part of two fields or twice of one, and none of theirs is    *)
(* reached from a local or from the Emp literal.                            *)
THEOREM FieldsStaySeparated ==
    ASSUME InPlaceOnly
    PROVE  Spec => []FieldsSeparated
  <1>1. ASSUME Inv
        PROVE  FieldsSeparated
    <2> DEFINE R == {fields[f] : f \in Fields}
               Q == {env[x] : x \in Vars} \cup {EmpLiteral}
    <2>1. PICK F, C : Separated(heap, fields, env, F, C)
      BY <1>1 DEF Inv, Settled
    <2>2. Shallow(heap, R)
      <3>1. R \in SUBSET Roots(fields, env)
        BY DEF Roots
      <3>2. Typed(heap, fields, env)
        BY <1>1, Denoting
      <3> QED
        BY <3>1, <3>2, TypedShallow
    <2>3. FieldTables \subseteq F
      <3>1. R \cap Tables \subseteq F /\ F \in SUBSET Tables /\ Closed(heap, F)
        BY <2>1 DEF Separated
      <3> QED
        BY <3>1, ReachedLeast DEF FieldTables
    <2>4. Reached(heap, Q) \subseteq C
      <3>1. Q \cap Tables \subseteq C /\ C \in SUBSET Tables /\ Closed(heap, C)
        BY <2>1 DEF Separated
      <3> HIDE DEF Q
      <3> QED
        BY <3>1, ReachedLeast
    <2>5. FieldTables \cap Reached(heap, Q) = {}
      <3>1. F \cap C = {}
        BY <2>1 DEF Separated
      <3> QED
        BY <2>3, <2>4, <3>1
    <2>6. OneHolder(heap, fields, FieldTables) /\ FieldTables \in SUBSET Tables
      BY <2>1, <2>3 DEF Separated, OneHolder
    <2>7. ASSUME NEW t \in FieldTables
          PROVE  Cardinality({f \in Fields : fields[f] = t})
                 + Cardinality({e \in FieldTables \X Keys : heap[e[1]][e[2]] = t}) = 1
      <3>1. FieldTables = Reached(heap, R)
        BY DEF FieldTables
      <3> HIDE DEF R
      <3>2. t \in R \/ \E u \in FieldTables, k \in Keys : heap[u][k] = t
        BY <2>2, <3>1, ReachedHeld
      <3>3. (\E f \in Fields : fields[f] = t) \/ \E u \in FieldTables, k \in Keys : heap[u][k] = t
        BY <3>2 DEF R
      <3> QED
        BY <2>6, <3>3, Holders
    <2> QED
      BY <2>5, <2>7 DEF FieldsSeparated
  <1>2. Inv => FieldsSeparated
    BY <1>1
  <1> QED
    BY <1>2, Invariance, PTL

(* An update in place denotes the update of one field's value. *)
LEMMA UpdatedReads ==
    ASSUME Inv, NEW f \in Fields, NEW g, NEW v, Updated(heap, g, fields, env, f, v)
    PROVE  FieldsIn(g) = [FieldValues EXCEPT ![f] = v] /\ LocalsIn(g) = EnvValues
  BY DEF Updated, FieldsIn, LocalsIn, FieldValues, EnvValues

(* update_local reaches exactly the entry it names: the walk through the    *)
(* heap is the functional update of that field alone, and of no local.      *)
THEOREM WritesStayExact ==
    ASSUME InPlaceOnly
    PROVE  Spec => []WritesExact
  <1>1. ASSUME Inv
        PROVE  WritesExact
    <2> SUFFICES ASSUME NEW f \in Fields, NEW ks \in Paths(Kind[f])
                 PROVE  LET reaches(h, value) ==
                              /\ FieldsIn(h) = [FieldValues EXCEPT ![f] = value]
                              /\ LocalsIn(h) = EnvValues
                        IN  /\ reaches(RemoveLocal(heap, fields[f], ks),
                                       Values!Cut(FieldValues[f], ks))
                            /\ \A x \in Vars :
                                 Kind[x] = Kind[f] - Len(ks) /\ Moves(Kind[x]) /\ env[x] # Absent
                                   /\ HasRoom(heap, fields[f], ks, env[x]) =>
                                   reaches(UpdateLocal(heap, fields[f], ks, env[x]),
                                           Values!Put(FieldValues[f], ks, EnvValues[x]))
      BY DEF WritesExact
    <2>1. FieldValues[f] = Deref(heap, Kind[f], fields[f])
      BY <1>1, Denoting
    <2>2. /\ FieldsIn(RemoveLocal(heap, fields[f], ks)) =
               [FieldValues EXCEPT ![f] = Values!Cut(FieldValues[f], ks)]
          /\ LocalsIn(RemoveLocal(heap, fields[f], ks)) = EnvValues
      <3>1. Updated(heap, RemoveLocal(heap, fields[f], ks), fields, env, f,
                    Values!Cut(FieldValues[f], ks))
        BY <1>1, <2>1, RemoveDenotes DEF Inv
      <3> QED
        BY <1>1, <3>1, UpdatedReads
    <2>3. ASSUME NEW x \in Vars, Kind[x] = Kind[f] - Len(ks), Moves(Kind[x]), env[x] # Absent,
                 HasRoom(heap, fields[f], ks, env[x])
          PROVE  /\ FieldsIn(UpdateLocal(heap, fields[f], ks, env[x])) =
                      [FieldValues EXCEPT ![f] = Values!Put(FieldValues[f], ks, EnvValues[x])]
                 /\ LocalsIn(UpdateLocal(heap, fields[f], ks, env[x])) = EnvValues
      <3>1. Kind[x] = 0
        BY <2>3 DEF Moves
      <3>2. Kind[f] = Len(ks)
        BY <2>3, <3>1, Inside
      <3>3. EnvValues[x] = env[x]
        <4>1. env[x] \in Scalars /\ EnvValues[x] = Deref(heap, 0, env[x])
          BY <1>1, <2>3, <3>1, Denoting, OfKindLaw
        <4> QED
          BY <4>1, DerefOther, KindAssumption
      <3>4. Updated(heap, UpdateLocal(heap, fields[f], ks, env[x]), fields, env, f,
                    Values!Put(FieldValues[f], ks, EnvValues[x]))
        BY <1>1, <2>1, <2>3, <3>1, <3>2, <3>3, SetDenotes DEF Inv
      <3> QED
        BY <1>1, <3>4, UpdatedReads
    <2> QED
      BY <2>2, <2>3
  <1>2. Inv => WritesExact
    BY <1>1
  <1> QED
    BY <1>2, Invariance, PTL

(* A name bound again to the cell it has, in the heap as it is.             *)
LEMMA Rebinding ==
    ASSUME Inv, NEW x, NEW c, BindTo(x, c, heap), env' = env
    PROVE  EnvValues' = EnvValues
  <1>1. Become(heap, fields, env)
    BY DEF BindTo, Become
  <1>2. Typed(heap, fields, env) /\ \E F, C : Separated(heap, fields, env, F, C)
    BY DEF Inv, Settled
  <1>3. EnvValues' = [y \in Vars |-> Deref(heap, Kind[y], env[y])]
    BY <1>1, <1>2, Becoming
  <1> QED
    BY <1>3 DEF EnvValues, LocalsIn

(* A copy has a name that no local has. *)
LEMMA CopyBinds ==
    ASSUME Inv, NEW x \in Vars, NEW new \in Free(heap, {}), NEW g, BindTo(x, new, g)
    PROVE  env' # env
  <1>1. env' = [env EXCEPT ![x] = new] /\ env \in [Vars -> Cells]
    BY Denoting DEF BindTo, Become, Typed
  <1>2. env'[x] = new
    BY <1>1
  <1>3. new \notin Live(heap, fields, env) /\ new \in Tables
    BY DEF Free, Live, Tables
  <1>4. env[x] \in Tables => env[x] \in Live(heap, fields, env)
    <2>1. PICK F, C : Separated(heap, fields, env, F, C)
      BY DEF Inv, Settled
    <2>2. Roots(fields, env) \cap Tables \subseteq Live(heap, fields, env)
      BY <2>1, LiveParts DEF Inv, Settled
    <2> QED
      BY <2>2 DEF Roots
  <1> QED
    BY <1>2, <1>3, <1>4

(* A step that binds no name leaves the value of every local as it was.     *)
THEOREM BindingsStayImmutable ==
    ASSUME InPlaceOnly
    PROVE  Spec => BindingsImmutable
  <1>1. ASSUME Inv, Next, env' = env
        PROVE  EnvValues' = EnvValues
    <2>1. ASSUME NEW x \in Vars, NEW f \in Fields, Load(x, f)
          PROVE  EnvValues' = EnvValues
      BY <1>1, <2>1, Rebinding DEF Load
    <2>2. ASSUME NEW x \in Vars, NEW f \in Fields, Store(f, x)
          PROVE  EnvValues' = EnvValues
      BY <1>1, <2>2, StoreStep
    <2>3. ASSUME NEW f \in Fields, NEW ks \in Paths(Kind[f]), MapDelete(f, ks)
          PROVE  EnvValues' = EnvValues
      BY <1>1, <2>3, MapDeleteStep
    <2>4. ASSUME NEW f \in Fields, NEW ks \in Paths(Kind[f]), NEW x \in Vars, MapSet(f, ks, x)
          PROVE  EnvValues' = EnvValues
      BY <1>1, <2>4, MapSetStep
    <2>5. ASSUME NEW f \in Fields, NEW ks \in Paths(Kind[f]), NEW x \in Vars, MapFetch(x, f, ks)
          PROVE  EnvValues' = EnvValues
      BY <1>1, <2>5, Rebinding DEF MapFetch
    <2>6. ASSUME NEW f \in Fields, NEW ks \in Paths(Kind[f]), NEW x \in Vars, MapExists(x, f, ks)
          PROVE  EnvValues' = EnvValues
      BY <1>1, <2>6, Rebinding DEF MapExists
    <2>7. ASSUME NEW x \in Vars, BindEmp(x)
          PROVE  EnvValues' = EnvValues
      BY <1>1, <2>7, Rebinding DEF BindEmp
    <2>8. ASSUME NEW x \in Vars, NEW s \in Scalars, BindScalar(x, s)
          PROVE  EnvValues' = EnvValues
      BY <1>1, <2>8, Rebinding DEF BindScalar
    <2>9. ASSUME NEW x \in Vars, NEW m \in Vars, NEW k \in Keys, BuiltinRemove(x, m, k)
          PROVE  EnvValues' = EnvValues
      <3>1. \E new \in Free(heap, {}) : \E g : BindTo(x, new, g)
        BY <2>9 DEF BuiltinRemove
      <3> QED
        BY <1>1, <3>1, CopyBinds
    <2>10. ASSUME NEW x \in Vars, NEW m \in Vars, NEW k \in Keys, BuiltinGet(x, m, k)
           PROVE  EnvValues' = EnvValues
      BY <1>1, <2>10, Rebinding DEF BuiltinGet
    <2>11. ASSUME NEW x \in Vars, NEW m \in Vars, NEW k \in Keys, NEW v \in Vars,
                  BuiltinPut(x, m, k, v)
           PROVE  EnvValues' = EnvValues
      <3>1. \E new \in Free(heap, {}) : \E g : BindTo(x, new, g)
        BY <2>11 DEF BuiltinPut
      <3> QED
        BY <1>1, <3>1, CopyBinds
    <2>12. ASSUME NextMessage
           PROVE  EnvValues' = EnvValues
      <3>1. env = NoLocals
        BY <1>1, <2>12 DEF NextMessage
      <3>2. \A x \in Vars : EnvValues[x] = Absent
        BY <1>1, <3>1, Denoting DEF NoLocals
      <3>3. EnvValues' = [x \in Vars |-> Absent]
        BY <1>1, <2>12, NextMessageStep DEF Values!NextMessage
      <3>4. EnvValues = [x \in Vars |-> EnvValues[x]]
        BY DEF EnvValues, LocalsIn
      <3> QED
        BY <3>2, <3>3, <3>4
    <2> DEFINE Goal == EnvValues' = EnvValues
    <2> HIDE DEF Goal
    <2>13. Goal
      BY <1>1, <2>1, <2>2, <2>3, <2>4, <2>5, <2>6, <2>7, <2>8, <2>9, <2>10, <2>11, <2>12
         DEF Next, Goal
    <2> QED
      BY <2>13 DEF Goal
  <1>2. Inv /\ [Next]_vars => [env' = env => EnvValues' = EnvValues]_vars
    BY <1>1
  <1> QED
    BY <1>2, Invariance, PTL DEF Spec, BindingsImmutable
=============================================================================
