---------------------------- MODULE RunnerProofs -----------------------------
(***************************************************************************)
(* Theorems about Evaluator for every contract: any names, any number of   *)
(* procedures and any costs.  They use Evaluator alone.                    *)
(*                                                                         *)
(* From there on: theorems about Runner for every contract, every supply   *)
(* and every gas limit, what the blockchain sees of a run, and that it     *)
(* sees the message as a whole or not at all.                              *)
(***************************************************************************)
EXTENDS Runner, SequenceTheorems, TLAPS

-----------------------------------------------------------------------------
(* Sequences, environments and gas. *)

(* The frame on top is the last one; popping it leaves those below.         *)
LEMMA PopProperties ==
    ASSUME NEW S, NEW s \in Seq(S), s # <<>>
    PROVE  /\ Len(s) \in Nat \ {0}
           /\ s[Len(s)] \in S
           /\ SubSeq(s, 1, Len(s) - 1) \in Seq(S)
           /\ Len(SubSeq(s, 1, Len(s) - 1)) = Len(s) - 1
           /\ \A i \in 1..(Len(s) - 1) : SubSeq(s, 1, Len(s) - 1)[i] = s[i]
  <1>1. Len(s) \in Nat \ {0}
    BY EmptySeq, LenProperties
  <1>2. \A i \in 1..Len(s) : s[i] \in S
    BY ElementOfSeq
  <1>3. s[Len(s)] \in S
    BY <1>1, <1>2
  <1>4. \A i \in 1..(Len(s) - 1) : s[i] \in S
    BY <1>1, <1>2
  <1> DEFINE last == Len(s) - 1
  <1>6. last \in Int /\ \A i \in 1..last : s[i] \in S
    BY <1>1, <1>4
  <1>7. /\ SubSeq(s, 1, last) \in Seq(S)
        /\ Len(SubSeq(s, 1, last)) = IF 1 <= last THEN last - 1 + 1 ELSE 0
        /\ \A i \in 1..(last - 1 + 1) : SubSeq(s, 1, last)[i] = s[1 + i - 1]
    <2> HIDE DEF last
    <2> QED  BY <1>6, SubSeqProperties
  <1>8. ASSUME NEW i \in 1..last
        PROVE  SubSeq(s, 1, last)[i] = s[i]
    <2>1. i \in 1..(last - 1 + 1) /\ 1 + i - 1 = i
      BY <1>6
    <2> HIDE DEF last
    <2> QED  BY <2>1, <1>7
  <1>9. Len(SubSeq(s, 1, last)) = last
    <2>1. last \in Nat
      BY <1>1
    <2> HIDE DEF last
    <2> QED  BY <2>1, <1>7
  <1> QED
    BY <1>1, <1>3, <1>7, <1>8, <1>9

(* Binding names to a binder gives an environment again.                    *)
LEMMA BindType ==
    ASSUME NEW e \in [Names -> Binders], NEW ns, NEW b \in Binders
    PROVE  Bind(e, ns, b) \in [Names -> Binders]
  BY DEF Bind

(* The environments a component starts in.                                  *)
LEMMA StartEnvTypes ==
    /\ ContractEnv \in [Names -> Binders]
    /\ InitEnv \in [Names -> Binders]
  <1>1. /\ OfContract \in Binders /\ OfMessage \in Binders /\ Unbound \in Binders
    BY DEF OfContract, OfMessage, Unbound, Binders
  <1>2. ContractEnv \in [Names -> Binders]
    BY <1>1 DEF ContractEnv
  <1> QED
    BY <1>1, <1>2, BindType DEF InitEnv

(* A procedure starts in a well-formed environment and scope.               *)
LEMMA CalleeTypes ==
    ASSUME env \in [Names -> Binders], Depth \in Nat, NEW p \in Procs
    PROVE  /\ CalleeEnv(p) \in [Names -> Binders]
           /\ CalleeScope(p) \in [Names -> Binders]
  <1>1. OfMessage \in Binders /\ <<"argument", Depth + 1>> \in Binders
    BY DEF OfMessage, Binders
  <1>2. /\ Bind(InitEnv, PParams[p], <<"argument", Depth + 1>>) \in [Names -> Binders]
        /\ Bind(ContractEnv, PParams[p], <<"argument", Depth + 1>>) \in [Names -> Binders]
    BY <1>1, BindType, StartEnvTypes
  <1> QED
    BY <1>1, <1>2 DEF CalleeEnv, CalleeScope

(* Storing never gives gas back, however much smaller the new value is.     *)
LEMMA StoreCostNat ==
    ASSUME NEW old \in Nat, NEW new \in Nat
    PROVE  StoreCost(old, new) \in Nat
  BY DEF StoreCost, Larger

(* Charging a cost keeps gas a natural number no larger than it was.        *)
LEMMA ChargeGas ==
    ASSUME gas \in 0..MaxGas, status \in {"running", "done", "failed"},
           NEW cost \in Nat, Charge(cost)
    PROVE  /\ gas' \in 0..MaxGas
           /\ gas' <= gas
           /\ status' \in {"running", "done", "failed"}
  BY CostAssumption DEF Charge

(* Len(ms) messages cost a natural number of gas. *)
LEMMA SendCostNat ==
    ASSUME NEW n \in Nat
    PROVE  n * MsgCost \in Nat
  BY CostAssumption

(* Names bound by a statement leave both environments well-formed.          *)
LEMMA BindLocalsType ==
    ASSUME env \in [Names -> Binders], scope \in [Names -> Binders],
           NEW ns, NEW d \in Nat
    PROVE  /\ Bind(env, ns, <<"statement", d>>) \in [Names -> Binders]
           /\ Bind(scope, ns, <<"statement", d>>) \in [Names -> Binders]
  <1>1. <<"statement", d>> \in Binders
    BY DEF Binders
  <1> QED
    BY <1>1, BindType

-----------------------------------------------------------------------------
(* Type correctness. *)

LEMMA TypeOKInit == Init => TypeOK
  <1> SUFFICES ASSUME Init PROVE TypeOK
    OBVIOUS
  <1>1. env \in [Names -> Binders] /\ scope \in [Names -> Binders]
    BY StartEnvTypes DEF Init
  <1>2. balance \in 0..MaxUint /\ incoming \in 0..MaxUint
    BY AmountAssumption DEF Init
  <1>3. componentStack \in Seq(0..NumProcs) /\ frames \in Seq(Frames) /\ emitted \in Seq(Amounts)
    BY NamesAssumption, EmptySeq DEF Init
  <1> QED
    BY <1>1, <1>2, <1>3 DEF Init, TypeOK

LEMMA TypeOKStep ==
    ASSUME TypeOK, [Next]_vars
    PROVE  TypeOK'
  <1> USE DEF TypeOK
  <1>1. Depth \in Nat
    BY LenProperties DEF Depth
  <1>2. ASSUME NEW x, NEW cost \in Nat, Assign(x, cost)
        PROVE  TypeOK'
    <2>1. env' \in [Names -> Binders] /\ scope' \in [Names -> Binders]
      BY <1>1, <1>2, BindLocalsType DEF Assign, BindLocals
    <2>2. gas' \in 0..MaxGas /\ status' \in {"running", "done", "failed"}
      BY <1>2, ChargeGas DEF Assign
    <2> QED
      BY <1>2, <2>1, <2>2 DEF Assign, Running, Funds, Output
  <1>3. ASSUME NEW x \in Locals, NEW cost \in ExprCosts, BindExpr(x, cost)
        PROVE  TypeOK'
    <2>1. env' \in [Names -> Binders] /\ scope' \in [Names -> Binders]
      BY <1>1, <1>3, BindLocalsType DEF BindExpr, BindLocals
    <2>2. gas' \in 0..MaxGas /\ status' \in {"running", "done", "failed"}
      BY <1>3, CostAssumption DEF BindExpr
    <2> QED
      BY <1>3, <2>1, <2>2 DEF BindExpr, Running, Funds, Output
  <1>4. CASE Read
    <2>1. ASSUME NEW x \in Locals, NEW f \in Fields, Load(x, f)
          PROVE  TypeOK'
      BY <1>2, <2>1, CostAssumption DEF Load
    <2>2. ASSUME NEW x \in Locals, NEW cost \in LitCosts, LoadBalance(x, cost)
          PROVE  TypeOK'
      BY <1>2, <2>2, CostAssumption DEF LoadBalance
    <2>3. ASSUME NEW x \in Locals, NEW cost \in LitCosts \cup {1}, MapGet(x, 1, cost)
          PROVE  TypeOK'
      <3>1. 1 + cost \in Nat
        BY CostAssumption
      <3> QED
        BY <1>2, <2>3, <3>1 DEF MapGet
    <2>4. ASSUME NEW x \in Locals, ReadFromBC(x)
          PROVE  TypeOK'
      BY <1>2, <2>4 DEF ReadFromBC
    <2> QED
      BY <1>3, <1>4, <2>1, <2>2, <2>3, <2>4 DEF Read
  <1>5. CASE Write
    <2>1. ASSUME NEW f \in Fields, NEW size \in LitCosts, NEW cost \in Nat,
                 fields' = [fields EXCEPT ![f] = size], Charge(cost),
                 Running, UNCHANGED conf
          PROVE  TypeOK'
      <3>1. gas' \in 0..MaxGas /\ status' \in {"running", "done", "failed"}
        BY <2>1, ChargeGas
      <3> QED
        BY <2>1, <3>1 DEF Running, conf
    <2>2. ASSUME NEW f \in Fields, NEW size \in LitCosts, Store(f, size)
          PROVE  TypeOK'
      <3>1. StoreCost(fields[f], size) \in Nat
        BY StoreCostNat, CostAssumption
      <3> QED
        BY <2>1, <2>2, <3>1 DEF Store
    <2>3. ASSUME NEW f \in Fields, NEW size \in LitCosts, NEW cost \in LitCosts \cup {0},
                 MapUpdate(f, 1, cost, size)
          PROVE  TypeOK'
      <3>1. 1 + cost \in Nat
        BY CostAssumption
      <3> QED
        BY <2>1, <2>3, <3>1 DEF MapUpdate
    <2> QED
      BY <1>5, <2>2, <2>3 DEF Write
  <1>6. CASE AcceptPayment
    <2>1. balance' \in 0..MaxUint /\ incoming' \in 0..MaxUint
      BY <1>6, AmountAssumption DEF AcceptPayment
    <2>2. gas' \in 0..MaxGas /\ status' \in {"running", "done", "failed"}
      BY <1>6, ChargeGas DEF AcceptPayment
    <2> QED
      BY <1>6, <2>1, <2>2 DEF AcceptPayment, Running, Control, Output
  <1>7. ASSUME NEW n \in 0..MaxBatch, NEW ms \in [1..n -> Amounts], SendMsgs(ms)
        PROVE  TypeOK'
    <2>1. ms \in Seq(Amounts) /\ Len(ms) \in Nat
      BY CostAssumption
    <2>2. emitted' \in Seq(Amounts)
      BY <1>7, <2>1, ConcatProperties DEF SendMsgs
    <2>3. gas' \in 0..MaxGas /\ status' \in {"running", "done", "failed"}
      BY <1>7, <2>1, SendCostNat, ChargeGas DEF SendMsgs
    <2> QED
      BY <1>7, <2>2, <2>3 DEF SendMsgs, Running, Funds, Control
  <1>8. CASE CreateEvnt
    <2>1. gas' \in 0..MaxGas /\ status' \in {"running", "done", "failed"}
      BY <1>8, CostAssumption, ChargeGas DEF CreateEvnt
    <2> QED
      BY <1>8, <2>1 DEF CreateEvnt, Running, Funds, Control
  <1>9. ASSUME NEW ns, NEW clauses \in 1..2, MatchStmt(ns, clauses)
        PROVE  TypeOK'
    <2>1. Frame("match", 0, clauses) \in Frames
      BY NamesAssumption DEF Frame, Frames
    <2>2. frames' \in Seq(Frames)
      BY <1>9, <2>1, AppendProperties DEF MatchStmt
    <2>3. env' \in [Names -> Binders] /\ scope' \in [Names -> Binders]
      BY <1>1, <1>9, BindLocalsType DEF MatchStmt
    <2> QED
      BY <1>9, <2>2, <2>3 DEF MatchStmt, Running, Funds, Output
  <1>10. ASSUME NEW p \in Procs, CallProc(p)
         PROVE  TypeOK'
    <2>1. Frame("call", p, 0) \in Frames
      BY DEF Frame, Frames, Procs
    <2>2. frames' \in Seq(Frames)
      BY <1>10, <2>1, AppendProperties DEF CallProc
    <2>3. env' \in [Names -> Binders] /\ scope' \in [Names -> Binders]
      BY <1>1, <1>10, CalleeTypes DEF CallProc
    <2>4. procs' \in 0..NumProcs
      BY <1>10, NamesAssumption DEF CallProc, Procs
    <2> QED
      BY <1>10, <2>2, <2>3, <2>4 DEF CallProc, Running, Funds, Output
  <1>11. ASSUME frames # <<>>, Pop
         PROVE  Top \in Frames /\ frames' \in Seq(Frames)
    BY <1>11, PopProperties DEF Top, Pop
  <1>12. CASE EndOfBranch
    <2>1. Top \in Frames /\ frames' \in Seq(Frames)
      BY <1>11, <1>12 DEF EndOfBranch
    <2>2. env' \in [Names -> Binders] /\ scope' \in [Names -> Binders]
      BY <1>12, <2>1 DEF EndOfBranch, Frames
    <2>3. gas' \in 0..MaxGas /\ status' \in {"running", "done", "failed"}
      <3>1. Top.clauses \in Nat
        BY <2>1 DEF Frames
      <3> QED
        BY <1>12, <3>1, ChargeGas DEF EndOfBranch
    <2> QED
      BY <1>12, <2>1, <2>2, <2>3 DEF EndOfBranch, Running, Funds, Output
  <1>13. CASE EndOfCall
    <2>1. Top \in Frames /\ frames' \in Seq(Frames)
      BY <1>11, <1>13 DEF EndOfCall
    <2>2. /\ env' \in [Names -> Binders] /\ scope' \in [Names -> Binders]
          /\ procs' \in 0..NumProcs
      BY <1>13, <2>1 DEF EndOfCall, Frames
    <2>3. componentStack' \in Seq(0..NumProcs)
      <3>1. <<Top.callee>> \in Seq(0..NumProcs) /\ Top.stack \in Seq(0..NumProcs)
        BY <2>1 DEF Frames
      <3> QED
        BY <1>13, <3>1, ConcatProperties DEF EndOfCall
    <2>4. gas' \in 0..MaxGas /\ status' \in {"running", "done", "failed"}
      BY <1>13, ChargeGas DEF EndOfCall
    <2> QED
      BY <1>13, <2>1, <2>2, <2>3, <2>4 DEF EndOfCall, Running, Funds, Output
  <1>14. ASSUME NEW rest \in 0..gas, Fail(rest)
         PROVE  TypeOK'
    BY <1>14, CostAssumption DEF Fail, Running, conf
  <1>15. CASE Finish
    <2>1. balance' \in 0..MaxUint /\ status' \in {"running", "done", "failed"}
      BY <1>15, AmountAssumption DEF Finish, Amounts
    <2> QED
      BY <1>15, <2>1 DEF Finish, Running, Control, Output
  <1>16. CASE UNCHANGED vars
    BY <1>16 DEF vars, conf
  <1>17. CASE Effect
    BY <1>6, <1>7, <1>8, <1>17 DEF Effect
  <1>18. CASE Transfer
    BY <1>9, <1>10, <1>12, <1>13, <1>18 DEF Transfer
  <1>19. CASE Stop
    BY <1>14, <1>15, <1>19 DEF Stop
  <1> QED
    BY <1>4, <1>5, <1>16, <1>17, <1>18, <1>19 DEF Next

(* Every configuration the interpreter goes through is well-formed: gas     *)
(* stays within what the message was given and no balance leaves Uint128.   *)
THEOREM TypeCorrect == Spec => []TypeOK
  <1>1. TypeOK /\ [Next]_vars => TypeOK'
    BY TypeOKStep
  <1> QED
    BY <1>1, TypeOKInit, PTL DEF Spec

-----------------------------------------------------------------------------
(* Funds. *)

(* Only accept and the end of the message touch the funds.                  *)
LEMMA FundsUntouched ==
    ASSUME [Next]_vars, ~AcceptPayment, ~Finish
    PROVE  /\ UNCHANGED <<opening, amount, Funds>>
           /\ status' = "running" => status = "running"
  <1>1. CASE Read
    BY <1>1 DEF Read, Load, LoadBalance, MapGet, ReadFromBC, BindExpr, Assign,
                Running, Funds
  <1>2. CASE Write
    BY <1>2 DEF Write, Store, MapUpdate, Running, Funds, conf
  <1>3. CASE Effect
    BY <1>3 DEF Effect, SendMsgs, CreateEvnt, Running, Funds
  <1>4. CASE Transfer
    BY <1>4 DEF Transfer, MatchStmt, CallProc, EndOfBranch, EndOfCall, Running, Funds
  <1>5. CASE Stop
    BY <1>5 DEF Stop, Fail, Running, Funds, conf
  <1>6. CASE UNCHANGED vars
    BY <1>6 DEF vars, conf, Funds
  <1> QED
    BY <1>1, <1>2, <1>3, <1>4, <1>5, <1>6 DEF Next

(* A step adds what comes in at most once, and nothing wraps.               *)
LEMMA AcceptedOnceStep ==
    ASSUME TypeOK, AcceptedOnce, [Next]_vars
    PROVE  AcceptedOnce'
  <1>1. CASE AcceptPayment
    <2>1. status = "running" /\ UNCHANGED <<opening, amount>>
      BY <1>1 DEF AcceptPayment, Running
    <2>2. /\ opening \in Nat /\ amount \in Nat /\ MaxUint \in Nat
          /\ opening + amount <= MaxUint
      BY AmountAssumption DEF TypeOK
    <2>3. balance + incoming = opening + amount
      BY <2>1, <2>2 DEF AcceptedOnce
    <2>4. (opening + amount) % (MaxUint + 1) = opening + amount
      BY <2>2
    <2> QED
      BY <1>1, <2>1, <2>2, <2>3, <2>4 DEF AcceptPayment, AcceptedOnce
  <1>2. CASE Finish
    BY <1>2 DEF Finish, AcceptedOnce
  <1>3. CASE ~AcceptPayment /\ ~Finish
    BY <1>3, FundsUntouched DEF AcceptedOnce, Funds
  <1> QED
    BY <1>1, <1>2, <1>3

(* While a message is processed, the balance is what the contract had plus  *)
(* the incoming amount if some component accepted it, however often.        *)
THEOREM FundsAccepted == Spec => []AcceptedOnce
  <1>1. Init => AcceptedOnce
    BY DEF Init, AcceptedOnce
  <1>2. TypeOK /\ AcceptedOnce /\ [Next]_vars => AcceptedOnce'
    BY AcceptedOnceStep
  <1> QED
    BY <1>1, <1>2, TypeCorrect, PTL DEF Spec

-----------------------------------------------------------------------------
(* The amounts of at most one message. *)

(* The folds of the model as the recursive functions they are defined by.   *)
LEMMA TotalUnfold ==
    ASSUME NEW ms
    PROVE  Total(ms) = (CHOOSE g : g = [s \in SUBSET DOMAIN ms |->
                           IF s = {} THEN 0 ELSE g[s \ {Max(s)}] + ms[Max(s)]])[DOMAIN ms]
  BY DEF Total, FoldLeft, MapThenFoldSet

LEMMA TransferredUnfold ==
    ASSUME NEW ms
    PROVE  Transferred(ms) = (CHOOSE g : g = [s \in SUBSET DOMAIN ms |->
                           IF s = {} THEN 0
                           ELSE (g[s \ {Max(s)}] + ms[Max(s)]) % (MaxUint + 1)])[DOMAIN ms]
  BY DEF Transferred, FoldLeft, MapThenFoldSet

LEMMA MaxOfOne == Max({1}) = 1
  BY DEF Max

(* No message carries nothing. *)
LEMMA TotalOfNone == Total(<<>>) = 0 /\ Transferred(<<>>) = 0
  <1>1. DOMAIN <<>> = {} /\ SUBSET {} = {{}}
    OBVIOUS
  <1>2. Total(<<>>) = 0
    <2> DEFINE Body(g) == [s \in SUBSET {} |-> IF s = {} THEN 0 ELSE g[s \ {Max(s)}] + <<>>[Max(s)]]
    <2> DEFINE h == [s \in SUBSET {} |-> 0]
    <2> DEFINE g == CHOOSE g : g = Body(g)
    <2>1. h = Body(h)
      BY <1>1
    <2>2. g = Body(g)
      <3> HIDE DEF h, Body
      <3> QED  BY <2>1
    <2>3. g[{}] = 0
      <3> HIDE DEF g
      <3> QED  BY <2>2
    <2>4. Total(<<>>) = g[{}]
      BY <1>1, TotalUnfold
    <2> QED  BY <2>3, <2>4
  <1>3. Transferred(<<>>) = 0
    <2> DEFINE Body(g) == [s \in SUBSET {} |->
                 IF s = {} THEN 0 ELSE (g[s \ {Max(s)}] + <<>>[Max(s)]) % (MaxUint + 1)]
    <2> DEFINE h == [s \in SUBSET {} |-> 0]
    <2> DEFINE g == CHOOSE g : g = Body(g)
    <2>1. h = Body(h)
      BY <1>1
    <2>2. g = Body(g)
      <3> HIDE DEF h, Body
      <3> QED  BY <2>1
    <2>3. g[{}] = 0
      <3> HIDE DEF g
      <3> QED  BY <2>2
    <2>4. Transferred(<<>>) = g[{}]
      BY <1>1, TransferredUnfold
    <2> QED  BY <2>3, <2>4
  <1> QED
    BY <1>2, <1>3

(* One message carries its amount, and that does not wrap. *)
LEMMA TotalOfOne ==
    ASSUME NEW a \in Amounts
    PROVE  Total(<<a>>) = a /\ Transferred(<<a>>) = a
  <1>1. DOMAIN <<a>> = {1} /\ {1} \ {1} = {} /\ {1} \in SUBSET {1} /\ {1} # {}
    OBVIOUS
  <1>2. a \in Nat /\ 0 + a = a /\ (0 + a) % (MaxUint + 1) = a
    BY AmountAssumption DEF Amounts
  <1>3. {1} \ {Max({1})} = {} /\ <<a>>[Max({1})] = a
    BY <1>1, MaxOfOne
  <1> DEFINE h == [s \in SUBSET {1} |-> IF s = {} THEN 0 ELSE a]
  <1>4. /\ h[{}] = 0 /\ h[{1}] = a
        /\ \A s \in SUBSET {1} : s = {} \/ s = {1}
    OBVIOUS
  <1>5. Total(<<a>>) = a
    <2> DEFINE Value(g, s) == IF s = {} THEN 0 ELSE g[s \ {Max(s)}] + <<a>>[Max(s)]
    <2> DEFINE Body(g) == [s \in SUBSET {1} |-> Value(g, s)]
    <2> DEFINE g == CHOOSE g : g = Body(g)
    <2>1. h[{}] = Value(h, {}) /\ h[{1}] = Value(h, {1})
      <3>1. Value(h, {}) = 0
        OBVIOUS
      <3>2. Value(h, {1}) = 0 + a
        <4> HIDE DEF h
        <4> QED  BY <1>1, <1>3, <1>4
      <3> HIDE DEF h, Value
      <3> QED  BY <1>2, <1>4, <3>1, <3>2
    <2>2. h = Body(h)
      <3>1. ASSUME NEW s \in SUBSET {1}
            PROVE  h[s] = Value(h, s)
        <4> HIDE DEF h, Value
        <4> QED  BY <1>4, <2>1
      <3> HIDE DEF Value
      <3> QED  BY <3>1
    <2>3. g = Body(g)
      <3> HIDE DEF h, Body
      <3> QED  BY <2>2
    <2>4. g[{}] = 0 /\ g[{1}] = a
      <3>1. g[{}] = Value(g, {}) /\ g[{1}] = Value(g, {1})
        <4> HIDE DEF g, Value
        <4> QED  BY <1>1, <2>3
      <3> HIDE DEF g
      <3> QED  BY <1>1, <1>2, <3>1, MaxOfOne
    <2>5. Total(<<a>>) = g[{1}]
      BY <1>1, TotalUnfold
    <2> QED  BY <2>4, <2>5
  <1>6. Transferred(<<a>>) = a
    <2> DEFINE Value(g, s) ==
          IF s = {} THEN 0 ELSE (g[s \ {Max(s)}] + <<a>>[Max(s)]) % (MaxUint + 1)
    <2> DEFINE Body(g) == [s \in SUBSET {1} |-> Value(g, s)]
    <2> DEFINE g == CHOOSE g : g = Body(g)
    <2>1. h[{}] = Value(h, {}) /\ h[{1}] = Value(h, {1})
      <3>1. Value(h, {}) = 0
        OBVIOUS
      <3>2. Value(h, {1}) = (0 + a) % (MaxUint + 1)
        <4> HIDE DEF h
        <4> QED  BY <1>1, <1>3, <1>4
      <3> HIDE DEF h, Value
      <3> QED  BY <1>2, <1>4, <3>1, <3>2
    <2>2. h = Body(h)
      <3>1. ASSUME NEW s \in SUBSET {1}
            PROVE  h[s] = Value(h, s)
        <4> HIDE DEF h, Value
        <4> QED  BY <1>4, <2>1
      <3> HIDE DEF Value
      <3> QED  BY <3>1
    <2>3. g = Body(g)
      <3> HIDE DEF h, Body
      <3> QED  BY <2>2
    <2>4. g[{}] = 0 /\ g[{1}] = a
      <3>1. g[{}] = Value(g, {}) /\ g[{1}] = Value(g, {1})
        <4> HIDE DEF g, Value
        <4> QED  BY <1>1, <2>3
      <3>2. Value(g, {}) = 0
        OBVIOUS
      <3>3. Value(g, {1}) = (g[{}] + a) % (MaxUint + 1)
        <4> HIDE DEF g
        <4> QED  BY <1>1, <1>3
      <3> HIDE DEF g, Value
      <3> QED  BY <1>2, <3>1, <3>2, <3>3
    <2>5. Transferred(<<a>>) = g[{1}]
      BY <1>1, TransferredUnfold
    <2> QED  BY <2>4, <2>5
  <1> QED
    BY <1>5, <1>6

(* What the interpreter subtracts from the balance is what the messages     *)
(* carry, when the runner outputs them.                                     *)
LEMMA TransferredIsTotal ==
    ASSUME NEW ms \in Seq(Amounts), Len(ms) <= 1
    PROVE  Transferred(ms) = Total(ms) /\ Total(ms) \in Amounts
  <1>1. CASE Len(ms) = 0
    <2>1. ms = <<>>
      BY <1>1, EmptySeq
    <2> QED  BY <2>1, TotalOfNone, AmountAssumption DEF Amounts
  <1>2. CASE Len(ms) = 1
    <2>1. ms = <<ms[1]>> /\ ms[1] \in Amounts
      BY <1>2, ElementOfSeq
    <2> QED  BY <2>1, TotalOfOne
  <1>3. Len(ms) = 0 \/ Len(ms) = 1
    <2>1. \A n \in Nat : n <= 1 => n = 0 \/ n = 1
      OBVIOUS
    <2>2. Len(ms) \in Nat
      BY LenProperties, Zenon
    <2> QED  BY <2>1, <2>2, Zenon
  <1> QED
    BY <1>1, <1>2, <1>3

(* Only the end of the transition makes a message done. *)
LEMMA DoneByFinish ==
    ASSUME TypeOK, [Next]_vars, ~Finish, ~UNCHANGED vars
    PROVE  status' # "done"
  <1>1. ASSUME NEW cost, status = "running", Charge(cost)
        PROVE  status' # "done"
    BY <1>1 DEF Charge
  <1>2. CASE Read
    BY <1>1, <1>2 DEF Read, Load, LoadBalance, MapGet, ReadFromBC, BindExpr, Assign, Running
  <1>3. CASE Write
    BY <1>1, <1>3 DEF Write, Store, MapUpdate, Running
  <1>4. CASE Effect
    BY <1>1, <1>4 DEF Effect, AcceptPayment, SendMsgs, CreateEvnt, Running
  <1>5. CASE Transfer
    BY <1>1, <1>5 DEF Transfer, MatchStmt, CallProc, EndOfBranch, EndOfCall, Running
  <1>6. CASE Stop
    BY <1>6 DEF Stop, Fail
  <1> QED
    BY <1>2, <1>3, <1>4, <1>5, <1>6 DEF Next

LEMMA SettledStep ==
    ASSUME TypeOK, AcceptedOnce, SettledIfOutput, [Next]_vars
    PROVE  SettledIfOutput'
  <1>1. CASE Finish
    <2> SUFFICES ASSUME Len(emitted') <= 1, status' = "done"
                 PROVE  balance' + Total(emitted') = opening' + (IF accepted' THEN amount' ELSE 0)
      BY DEF SettledIfOutput, Settled, Paid
    <2>1. /\ status = "running" /\ UNCHANGED <<opening, amount, accepted, emitted>>
          /\ Transferred(emitted) \in Amounts
          /\ balance' = balance - Transferred(emitted)
      BY <1>1 DEF Finish, Running, Output
    <2>2. Transferred(emitted) = Total(emitted)
      BY <2>1, TransferredIsTotal DEF TypeOK
    <2>3. balance = opening + (IF accepted THEN amount ELSE 0) /\ balance \in Nat
      BY <2>1, AmountAssumption DEF AcceptedOnce, TypeOK
    <2> QED
      BY <2>1, <2>2, <2>3, AmountAssumption DEF Amounts
  <1>2. CASE UNCHANGED vars
    BY <1>2 DEF vars, conf, SettledIfOutput, Settled, Paid
  <1>3. CASE ~Finish /\ ~UNCHANGED vars
    BY <1>3, DoneByFinish DEF SettledIfOutput, Settled
  <1> QED
    BY <1>1, <1>2, <1>3

(* A contract whose result the runner outputs keeps what it had and         *)
(* accepted, less what its message carries.                                 *)
THEOREM OutputSettled == Spec => []SettledIfOutput
  <1>1. Init => SettledIfOutput
    BY DEF Init, SettledIfOutput, Settled
  <1>2. TypeOK /\ AcceptedOnce /\ SettledIfOutput /\ [Next]_vars => SettledIfOutput'
    BY SettledStep
  <1> QED
    BY <1>1, <1>2, TypeCorrect, FundsAccepted, PTL DEF Spec

-----------------------------------------------------------------------------
(* Gas. *)

(* No step of the interpreter, whatever it reads, stores or calls, leaves   *)
(* more gas than there was.                                                 *)
LEMMA GasFallsStep ==
    ASSUME TypeOK, [Next]_vars
    PROVE  gas' <= gas
  <1> USE DEF TypeOK
  <1>1. ASSUME NEW cost \in Nat, Charge(cost)
        PROVE  gas' <= gas
    BY <1>1, ChargeGas
  <1>2. CASE Read
    <2>1. \A f \in Fields : fields[f] \in Nat
      BY CostAssumption
    <2>2. \A cost \in LitCosts \cup {1} : cost \in Nat /\ 1 + cost \in Nat
      BY CostAssumption
    <2>3. ASSUME NEW x, NEW cost \in Nat, Assign(x, cost)
          PROVE  gas' <= gas
      BY <1>1, <2>3 DEF Assign
    <2>4. ASSUME NEW x, NEW cost \in ExprCosts, BindExpr(x, cost)
          PROVE  gas' <= gas
      BY <2>4, CostAssumption DEF BindExpr
    <2> QED
      BY <1>2, <2>1, <2>2, <2>3, <2>4 DEF Read, Load, LoadBalance, MapGet, ReadFromBC
  <1>3. CASE Write
    <2>1. ASSUME NEW f \in Fields, NEW size \in LitCosts
          PROVE  StoreCost(fields[f], size) \in Nat
      BY StoreCostNat, CostAssumption
    <2>2. \A cost \in LitCosts \cup {0} : 1 + cost \in Nat
      BY CostAssumption
    <2> QED
      BY <1>1, <1>3, <2>1, <2>2 DEF Write, Store, MapUpdate
  <1>4. CASE Effect
    <2>1. ASSUME NEW n \in 0..MaxBatch, NEW ms \in [1..n -> Amounts]
          PROVE  Len(ms) * MsgCost \in Nat
      <3>1. Len(ms) \in Nat
        BY CostAssumption
      <3> QED  BY <3>1, SendCostNat
    <2> QED
      BY <1>1, <1>4, <2>1, CostAssumption DEF Effect, AcceptPayment, SendMsgs, CreateEvnt
  <1>5. CASE Transfer
    <2>1. ASSUME EndOfBranch
          PROVE  gas' <= gas
      <3>1. Top \in Frames
        BY <2>1, PopProperties DEF EndOfBranch, Top
      <3> QED
        BY <1>1, <2>1, <3>1 DEF EndOfBranch, Frames
    <2>2. ASSUME EndOfCall
          PROVE  gas' <= gas
      BY <1>1, <2>2 DEF EndOfCall
    <2>3. ASSUME UNCHANGED gas
          PROVE  gas' <= gas
      BY <2>3, CostAssumption
    <2> QED
      BY <1>5, <2>1, <2>2, <2>3 DEF Transfer, MatchStmt, CallProc
  <1>6. CASE Stop
    BY <1>6, CostAssumption DEF Stop, Fail, Finish
  <1>7. CASE UNCHANGED vars
    BY <1>7, CostAssumption DEF vars
  <1> QED
    BY <1>2, <1>3, <1>4, <1>5, <1>6, <1>7 DEF Next

(* The same of a whole run.                                                 *)
THEOREM GasFalls == Spec => GasOnlyFalls
  <1>1. TypeOK /\ [Next]_vars => [gas' <= gas]_vars
    BY GasFallsStep
  <1> QED
    BY <1>1, TypeCorrect, PTL DEF Spec, GasOnlyFalls

-----------------------------------------------------------------------------
(* Calls. *)

(* The inductive form of CallsDescend, which does not say what a call that  *)
(* ends gives back: that the caller's procedures lie at or above the callee *)
(* and below the callees of all outer calls.                                *)
CallsInv ==
    \A j \in 1..Len(frames) : IsCall(j) =>
        /\ procs < frames[j].callee
        /\ frames[j].callee <= frames[j].procs
        /\ \A i \in 1..(j - 1) : IsCall(i) => frames[j].procs < frames[i].callee

(* Only matches and calls, and their ends, touch frames and procedures.     *)
LEMMA FramesUntouched ==
    ASSUME [Next]_vars, ~Transfer
    PROVE  UNCHANGED <<frames, procs>>
  <1>1. CASE Read
    BY <1>1 DEF Read, Load, LoadBalance, MapGet, ReadFromBC, BindExpr, Assign
  <1>2. CASE Write
    BY <1>2 DEF Write, Store, MapUpdate, conf
  <1>3. CASE Effect
    BY <1>3 DEF Effect, AcceptPayment, SendMsgs, CreateEvnt, Control
  <1>4. CASE Stop
    BY <1>4 DEF Stop, Fail, Finish, conf, Control
  <1>5. CASE UNCHANGED vars
    BY <1>5 DEF vars, conf
  <1> QED
    BY <1>1, <1>2, <1>3, <1>4, <1>5 DEF Next

(* A pushed frame is on top of those that were there.                       *)
LEMMA PushProperties ==
    ASSUME frames \in Seq(Frames), NEW f \in Frames, frames' = Append(frames, f)
    PROVE  /\ Len(frames) \in Nat
           /\ Len(frames') = Len(frames) + 1
           /\ frames'[Len(frames) + 1] = f
           /\ \A i \in 1..Len(frames) : frames'[i] = frames[i]
  BY AppendProperties, LenProperties

LEMMA CallsInvStep ==
    ASSUME TypeOK, CallsInv, [Next]_vars
    PROVE  CallsInv'
  <1>1. frames \in Seq(Frames) /\ Len(frames) \in Nat /\ procs \in Int
    BY LenProperties, NamesAssumption DEF TypeOK
  <1>2. \A i \in 1..Len(frames) : frames[i].callee \in Int /\ frames[i].procs \in Int
    <2>1. \A i \in 1..Len(frames) : frames[i] \in Frames
      BY <1>1, ElementOfSeq
    <2> QED
      BY <2>1, NamesAssumption DEF Frames
  <1>3. ASSUME NEW ns, NEW clauses \in 1..2, MatchStmt(ns, clauses)
        PROVE  CallsInv'
    <2> DEFINE f == Frame("match", 0, clauses)
    <2>1. f \in Frames /\ f.kind = "match"
      BY NamesAssumption DEF TypeOK, Frame, Frames
    <2>2. frames' = Append(frames, f) /\ procs' = procs
      BY <1>3 DEF MatchStmt
    <2> HIDE DEF f
    <2>3. /\ Len(frames') = Len(frames) + 1
          /\ frames'[Len(frames) + 1].kind = "match"
          /\ \A i \in 1..Len(frames) : frames'[i] = frames[i]
      BY <1>1, <2>1, <2>2, PushProperties
    <2> QED
      BY <1>1, <2>2, <2>3 DEF CallsInv, IsCall
  <1>4. ASSUME NEW p \in Procs, CallProc(p)
        PROVE  CallsInv'
    <2> DEFINE f == Frame("call", p, 0)
    <2>1. f \in Frames /\ f.callee = p /\ f.procs = procs
      BY DEF TypeOK, Frame, Frames, Procs
    <2>2. frames' = Append(frames, f) /\ procs' = p - 1 /\ p <= procs /\ p \in Int
      BY <1>4 DEF CallProc, Procs
    <2> HIDE DEF f
    <2>3. /\ Len(frames') = Len(frames) + 1
          /\ frames'[Len(frames) + 1] = f
          /\ \A i \in 1..Len(frames) : frames'[i] = frames[i]
      BY <1>1, <2>1, <2>2, PushProperties
    <2>4. ASSUME NEW j \in 1..Len(frames'), IsCall(j)'
          PROVE  /\ procs' < frames'[j].callee
                 /\ frames'[j].callee <= frames'[j].procs
                 /\ \A i \in 1..(j - 1) : IsCall(i)' => frames'[j].procs < frames'[i].callee
      <3>1. CASE j = Len(frames) + 1
        BY <1>1, <1>2, <2>1, <2>2, <2>3, <3>1 DEF CallsInv, IsCall
      <3>2. CASE j \in 1..Len(frames)
        BY <1>1, <1>2, <2>2, <2>3, <2>4, <3>2 DEF CallsInv, IsCall
      <3> QED
        BY <1>1, <2>3, <3>1, <3>2
    <2> QED
      BY <2>4 DEF CallsInv
  <1>5. ASSUME frames # <<>>, Pop
        PROVE  /\ Len(frames') = Len(frames) - 1 /\ Len(frames) >= 1
               /\ \A i \in 1..Len(frames') : frames'[i] = frames[i]
    BY <1>1, <1>5, PopProperties DEF Pop
  <1>6. CASE EndOfBranch
    <2>1. /\ Len(frames') = Len(frames) - 1 /\ procs' = procs
          /\ \A i \in 1..Len(frames') : frames'[i] = frames[i]
      BY <1>5, <1>6 DEF EndOfBranch
    <2>2. ASSUME NEW j \in 1..Len(frames')
          PROVE  /\ j \in 1..Len(frames) /\ frames'[j] = frames[j]
                 /\ \A i \in 1..(j - 1) : frames'[i] = frames[i]
      BY <1>1, <2>1
    <2> QED
      BY <2>1, <2>2 DEF CallsInv, IsCall
  <1>7. CASE EndOfCall
    <2>1. /\ Len(frames') = Len(frames) - 1 /\ Len(frames) >= 1
          /\ \A i \in 1..Len(frames') : frames'[i] = frames[i]
          /\ IsCall(Len(frames)) /\ procs' = frames[Len(frames)].procs
      BY <1>5, <1>7 DEF EndOfCall, IsCall, Top
    <2>2. ASSUME NEW j \in 1..Len(frames')
          PROVE  /\ j \in 1..Len(frames) /\ frames'[j] = frames[j] /\ j < Len(frames)
                 /\ \A i \in 1..(j - 1) : frames'[i] = frames[i]
      BY <1>1, <2>1
    <2>3. Len(frames) \in 1..Len(frames)
      BY <1>1, <2>1
    <2> QED
      BY <1>1, <2>1, <2>2, <2>3 DEF CallsInv, IsCall
  <1>8. CASE ~Transfer
    BY <1>8, FramesUntouched DEF CallsInv, IsCall
  <1> QED
    BY <1>3, <1>4, <1>6, <1>7, <1>8 DEF Transfer

(* No contract can make a procedure call itself, directly or through        *)
(* others: what an open call may still call lies below every open callee.   *)
THEOREM CallsEnd == Spec => []CallsDescend
  <1>1. Init => CallsInv
    BY EmptySeq DEF Init, CallsInv
  <1>2. TypeOK /\ CallsInv => CallsDescend
    <2> SUFFICES ASSUME TypeOK, CallsInv PROVE CallsDescend
      OBVIOUS
    <2>1. \A i \in 1..Len(frames) : frames[i] \in Frames
      BY ElementOfSeq DEF TypeOK
    <2>2. Len(frames) \in Nat
      BY LenProperties DEF TypeOK
    <2>3. \A i \in 1..Len(frames) : frames[i].callee \in Int /\ frames[i].procs \in Int
      BY <2>1, NamesAssumption DEF Frames
    <2>4. ASSUME NEW i \in 1..Len(frames), NEW j \in 1..(i - 1), IsCall(i), IsCall(j)
          PROVE  frames[i].callee < frames[j].callee
      <3>1. j \in 1..Len(frames)
        BY <2>2
      <3> QED
        BY <2>3, <2>4, <3>1 DEF CallsInv
    <2> QED
      BY <2>4 DEF CallsDescend, CallsInv
  <1>3. TypeOK /\ CallsInv /\ [Next]_vars => CallsInv'
    BY CallsInvStep
  <1> QED
    BY <1>1, <1>2, <1>3, TypeCorrect, PTL DEF Spec

-----------------------------------------------------------------------------
(* Scopes. *)

(* An environment agrees with the scope it is typed in, and the entries the *)
(* calls hand on are the message's.                                         *)
Agrees(e, s) ==
    /\ \A n \in Names : s[n] # Unbound => e[n] = s[n]
    /\ \A n \in Implicit : e[n] = OfMessage

(* The inductive form of LexicalScope: what the ends of branches and calls  *)
(* restore agrees as well.                                                  *)
ScopesInv ==
    /\ Agrees(env, scope)
    /\ \A i \in 1..Len(frames) : Agrees(frames[i].env, frames[i].scope)

(* _sender and _amount are names like any other.                            *)
LEMMA ImplicitNames == Implicit \subseteq Names
  BY DEF Names

(* Binding the same names to the same binder on both sides keeps agreement. *)
LEMMA BindAgrees ==
    ASSUME NEW e, NEW s, Agrees(e, s), NEW ns, ns \cap Implicit = {}, NEW b
    PROVE  Agrees(Bind(e, ns, b), Bind(s, ns, b))
  <1>1. Implicit \subseteq Names
    BY ImplicitNames
  <1> QED
    BY <1>1 DEF Agrees, Bind

(* A callee starts in agreement when no parameter of the transition has the *)
(* name of a contract parameter.                                            *)
LEMMA CalleeAgrees ==
    ASSUME CParams \cap TParams = {}, Agrees(env, scope), NEW p \in Procs
    PROVE  Agrees(CalleeEnv(p), CalleeScope(p))
  <1>1. Implicit \subseteq Names
    BY ImplicitNames
  <1>2. \A n \in Implicit : CalleeEnv(p)[n] = OfMessage /\ CalleeScope(p)[n] = OfMessage
    BY <1>1 DEF CalleeEnv, CalleeScope, Agrees
  <1>3. ASSUME NEW n \in Names \ Implicit, CalleeScope(p)[n] # Unbound
        PROVE  CalleeEnv(p)[n] = CalleeScope(p)[n]
    <2>1. CASE n \in PParams[p]
      BY <2>1 DEF CalleeEnv, CalleeScope, Bind
    <2>2. CASE n \notin PParams[p]
      <3>1. CalleeScope(p)[n] = ContractEnv[n] /\ CalleeEnv(p)[n] = InitEnv[n]
        BY <2>2 DEF CalleeEnv, CalleeScope, Bind
      <3>2. n \in CParams
        BY <1>3, <3>1 DEF ContractEnv
      <3> QED
        BY <3>1, <3>2 DEF InitEnv, Bind
    <2> QED
      BY <2>1, <2>2
  <1> QED
    BY <1>2, <1>3 DEF Agrees

LEMMA ScopesInvStep ==
    ASSUME CParams \cap TParams = {}, TypeOK, ScopesInv, [Next]_vars
    PROVE  ScopesInv'
  <1>1. frames \in Seq(Frames) /\ Len(frames) \in Nat
    BY LenProperties DEF TypeOK
  <1>2. ASSUME NEW ns, ns \subseteq Locals, BindLocals(ns), UNCHANGED frames
        PROVE  ScopesInv'
    <2>1. ns \cap Implicit = {}
      BY <1>2, NamesAssumption
    <2>2. Agrees(env', scope')
      BY <1>2, <2>1, BindAgrees DEF ScopesInv, BindLocals
    <2>3. Agrees(env, scope)'
      BY <2>2 DEF Agrees
    <2> QED
      BY <1>2, <2>3 DEF ScopesInv, Agrees
  <1>3. ASSUME UNCHANGED <<env, scope, frames>>
        PROVE  ScopesInv'
    BY <1>3 DEF ScopesInv, Agrees
  <1>4. CASE Read
    BY <1>2, <1>4 DEF Read, Load, LoadBalance, MapGet, ReadFromBC, BindExpr, Assign
  <1>5. CASE Write
    BY <1>3, <1>5 DEF Write, Store, MapUpdate, conf
  <1>6. CASE Effect
    BY <1>3, <1>6 DEF Effect, AcceptPayment, SendMsgs, CreateEvnt, Control
  <1>7. ASSUME NEW f \in Frames, f.env = env, f.scope = scope,
               frames' = Append(frames, f), Agrees(env, scope)'
        PROVE  ScopesInv'
    <2>1. /\ Len(frames') = Len(frames) + 1
          /\ frames'[Len(frames) + 1] = f
          /\ \A i \in 1..Len(frames) : frames'[i] = frames[i]
      BY <1>1, <1>7, PushProperties
    <2>2. ASSUME NEW i \in 1..Len(frames')
          PROVE  Agrees(frames'[i].env, frames'[i].scope)
      <3>1. CASE i = Len(frames) + 1
        BY <1>7, <2>1, <3>1 DEF ScopesInv
      <3>2. CASE i \in 1..Len(frames)
        BY <2>1, <3>2 DEF ScopesInv
      <3> QED
        BY <1>1, <2>1, <3>1, <3>2
    <2> QED
      BY <1>7, <2>2 DEF ScopesInv, Agrees
  <1>8. ASSUME NEW ns \in SUBSET Locals, NEW clauses \in 1..2, MatchStmt(ns, clauses)
        PROVE  ScopesInv'
    <2> DEFINE f == Frame("match", 0, clauses)
    <2>1. f \in Frames /\ f.env = env /\ f.scope = scope
      BY NamesAssumption DEF TypeOK, Frame, Frames
    <2>2. frames' = Append(frames, f)
      BY <1>8 DEF MatchStmt
    <2>3. ns \cap Implicit = {}
      BY NamesAssumption
    <2>4. Agrees(env', scope')
      BY <1>8, <2>3, BindAgrees DEF ScopesInv, MatchStmt
    <2>5. Agrees(env, scope)'
      BY <2>4 DEF Agrees
    <2> HIDE DEF f
    <2> QED
      BY <1>7, <2>1, <2>2, <2>5
  <1>9. ASSUME NEW p \in Procs, CallProc(p)
        PROVE  ScopesInv'
    <2> DEFINE f == Frame("call", p, 0)
    <2>1. f \in Frames /\ f.env = env /\ f.scope = scope
      BY DEF TypeOK, Frame, Frames, Procs
    <2>2. frames' = Append(frames, f)
      BY <1>9 DEF CallProc
    <2>3. Agrees(env, scope)'
      BY <1>9, CalleeAgrees DEF ScopesInv, CallProc, Agrees
    <2> HIDE DEF f
    <2> QED
      BY <1>7, <2>1, <2>2, <2>3
  <1>10. ASSUME frames # <<>>, Pop, env' = Top.env, scope' = Top.scope
         PROVE  ScopesInv'
    <2>1. /\ Len(frames) >= 1 /\ Len(frames') = Len(frames) - 1
          /\ \A i \in 1..Len(frames') : frames'[i] = frames[i]
      BY <1>1, <1>10, PopProperties DEF Pop
    <2>2. Agrees(env, scope)'
      BY <1>1, <1>10, <2>1 DEF ScopesInv, Top, Agrees
    <2>3. \A i \in 1..Len(frames') : i \in 1..Len(frames)
      BY <1>1, <2>1
    <2> QED
      BY <2>1, <2>2, <2>3 DEF ScopesInv, Agrees
  <1>11. CASE Transfer
    BY <1>8, <1>9, <1>10, <1>11 DEF Transfer, EndOfBranch, EndOfCall
  <1>12. CASE Stop
    BY <1>3, <1>12 DEF Stop, Fail, Finish, conf, Control
  <1>13. CASE UNCHANGED vars
    BY <1>3, <1>13 DEF vars, conf
  <1> QED
    BY <1>4, <1>5, <1>6, <1>11, <1>12, <1>13 DEF Next

(* When no transition parameter has the name of a contract parameter or     *)
(* library entry, every name means, wherever it is used, what the type      *)
(* checker took it to mean.  EvaluatorShadowing.cfg shows that the          *)
(* condition, which nothing in the checkers enforces, cannot be dropped.    *)
THEOREM ScopesRespected ==
    ASSUME CParams \cap TParams = {}
    PROVE  Spec => []LexicalScope
  <1>1. Init => ScopesInv
    <2> SUFFICES ASSUME Init PROVE ScopesInv
      OBVIOUS
    <2>1. Implicit \subseteq Names
      BY ImplicitNames
    <2>2. \A n \in Implicit : InitEnv[n] = OfMessage
      BY <2>1 DEF InitEnv, Bind
    <2> QED
      BY <2>2, EmptySeq DEF Init, ScopesInv, Agrees
  <1>2. ScopesInv => LexicalScope
    BY DEF ScopesInv, Agrees, LexicalScope
  <1>3. TypeOK /\ ScopesInv /\ [Next]_vars => ScopesInv'
    BY ScopesInvStep
  <1> QED
    BY <1>1, <1>2, <1>3, TypeCorrect, PTL DEF Spec

-----------------------------------------------------------------------------
(* From here on: the runner and the blockchain. *)

FieldValues == [Fields -> LitCosts]

(* What the blockchain holds between runs. *)
ChainInv ==
    /\ committed \in [deployed : BOOLEAN, balance : 0..Supply, fields : FieldValues \cup {Uninitialized}]
    /\ outside \in 0..Supply
    /\ committed.balance + outside = Supply
    /\ committed.deployed => committed.fields \in FieldValues
    /\ ~committed.deployed => committed.balance = 0

(* The command line of a run, of which the blockchain has made sure that    *)
(* its sender owns the amount; the gas is what is left of its limit.        *)
RunInv ==
    stage # "idle" =>
        /\ run \in [program : Programs, message : BOOLEAN, amount : 0..outside,
                    limit : 0..MaxGas, validInit : BOOLEAN]
        /\ run.program = "contract" => run.message = committed.deployed
        /\ ~run.message => run.amount = 0
        /\ gas <= run.limit

(* Which runs come to a stage, and whether the fields have their values.    *)
StageInv ==
    /\ stage \in {"version", "blockchain", "message", "state", "fields", "prepare", "execute"}
          => run.program = "contract"
    /\ stage \in {"message", "state", "prepare", "execute"} => run.message
    /\ stage = "prepare" => fields \in FieldValues
    /\ stage = "written" /\ run.program = "contract" => ~run.message /\ fields \in FieldValues

(* The evaluator at work on the run's message. *)
ExecuteInv ==
    stage = "execute" =>
        /\ TypeOK /\ AcceptedOnce /\ SettledIfOutput
        /\ opening = committed.balance /\ amount = run.amount

(* A result that is written balances the funds.                             *)
ReportInv ==
    stage = "exited" /\ report.kind = "output" =>
        /\ report.gas <= run.limit
        /\ run.program = "contract" =>
             /\ report.state \in FieldValues
             /\ report.accepted \in BOOLEAN
             /\ report.balance \in Nat /\ Total(report.sent) \in Nat
             /\ report.balance + Total(report.sent)
                = committed.balance + (IF report.accepted THEN run.amount ELSE 0)
             /\ ~run.message =>
                  /\ ~report.accepted
                  /\ report.balance = 0 /\ Total(report.sent) = 0

RunnerInv == RunnerTypeOK /\ ChainInv /\ RunInv /\ StageInv /\ ExecuteInv /\ ReportInv

-----------------------------------------------------------------------------
LEMMA RunnerInvInit == RunnerInit => RunnerInv
  <1> SUFFICES ASSUME RunnerInit PROVE RunnerInv
    OBVIOUS
  <1>1. RunnerTypeOK
    BY RunnerAssumption, AmountAssumption, CostAssumption DEF RunnerInit, RunnerTypeOK, NoReport
  <1>2. ChainInv
    BY AmountAssumption DEF RunnerInit, ChainInv
  <1>3. RunInv /\ StageInv /\ ExecuteInv /\ ReportInv
    BY DEF RunnerInit, RunInv, StageInv, ExecuteInv, ReportInv
  <1> QED
    BY <1>1, <1>2, <1>3 DEF RunnerInv

LEMMA SubmitInv ==
    ASSUME RunnerInv, Submit
    PROVE  RunnerInv'
  <1> USE DEF RunnerInv
  <1>1. RunnerTypeOK'
    BY RunnerAssumption DEF Submit, RunnerTypeOK, NoReport, EvaluatorIdle, Idle, conf, chain
  <1>2. ChainInv'
    BY DEF Submit, ChainInv, chain
  <1>3. RunInv'
    <2>1. PICK program \in Programs, message \in BOOLEAN, valid \in BOOLEAN,
               sent \in 0..outside, limit \in 0..MaxGas :
                 /\ program = "contract" => message = committed.deployed
                 /\ ~message => sent = 0
                 /\ run' = [program |-> program, message |-> message, amount |-> sent,
                            limit |-> limit, validInit |-> valid]
                 /\ gas' = limit
      BY DEF Submit
    <2>2. UNCHANGED <<committed, outside>>
      BY DEF Submit, chain
    <2> QED
      BY <2>1, <2>2, CostAssumption DEF RunInv
  <1>4. StageInv' /\ ExecuteInv' /\ ReportInv'
    BY DEF Submit, StageInv, ExecuteInv, ReportInv
  <1> QED
    BY <1>1, <1>2, <1>3, <1>4

-----------------------------------------------------------------------------
(* The two ways a stage ends. *)

(* Some of the gas is spent and the next stage begins. *)
LEMMA ProceedInv ==
    ASSUME RunnerInv, NEW rest \in 0..gas, Proceed(rest), UNCHANGED fields,
           stage \in {"files", "module", "imports", "libraries", "initargs",
                      "version", "blockchain", "message", "state"}
    PROVE  RunnerInv'
  <1> USE DEF RunnerInv
  <1>1. stage' \in {"module", "imports", "libraries", "initargs", "version", "blockchain",
                    "message", "state", "fields", "written"}
    BY DEF Proceed, After
  <1>2. RunnerTypeOK'
    BY <1>1, CostAssumption DEF Proceed, RunnerTypeOK, EvaluatorIdle, Idle, conf, chain
  <1>3. ChainInv'
    BY DEF Proceed, ChainInv, chain
  <1>4. RunInv'
    <2>1. rest <= run.limit
      BY CostAssumption DEF RunnerTypeOK, RunInv
    <2> QED
      BY <2>1 DEF Proceed, RunInv, chain
  <1>5. StageInv'
    <2>1. Programs \subseteq {"contract", "library"} /\ run.program \in Programs
      BY RunnerAssumption DEF RunInv
    <2> QED
      BY <2>1 DEF Proceed, StageInv, After
  <1>6. ExecuteInv' /\ ReportInv'
    BY <1>1 DEF ExecuteInv, ReportInv
  <1> QED
    BY <1>2, <1>3, <1>4, <1>5, <1>6

(* The process ends, without a result or with one that balances.            *)
LEMMA ExitInv ==
    ASSUME RunnerInv, stage # "idle", NEW what, Exit(what),
           what.kind \in {"output", "fatal", "lost"}, what.gas \in 0..MaxGasUint,
           ReportInv'
    PROVE  RunnerInv'
  <1> USE DEF RunnerInv
  <1>1. RunnerTypeOK'
    BY CostAssumption DEF Exit, BecomeIdle, RunnerTypeOK, Idle, chain
  <1>2. ChainInv'
    BY DEF Exit, ChainInv, chain
  <1>3. RunInv'
    BY CostAssumption DEF Exit, RunInv, chain
  <1>4. StageInv' /\ ExecuteInv'
    BY DEF Exit, StageInv, ExecuteInv
  <1> QED
    BY <1>1, <1>2, <1>3, <1>4

(* An error is reported, with or without its gas. *)
LEMMA ErrorInv ==
    ASSUME RunnerInv, stage # "idle", NEW rest \in 0..MaxGasUint,
           Fatal(rest) \/ Exit([NoReport EXCEPT !.kind = "lost"])
    PROVE  RunnerInv'
  <1>1. CASE Fatal(rest)
    <2>1. Exit([NoReport EXCEPT !.kind = "fatal", !.gas = rest])
      BY <1>1 DEF Fatal
    <2>2. ReportInv'
      BY <2>1 DEF Exit, ReportInv, NoReport
    <2> QED
      BY <2>1, <2>2, ExitInv DEF NoReport
  <1>2. CASE Exit([NoReport EXCEPT !.kind = "lost"])
    <2>1. ReportInv'
      BY <1>2 DEF Exit, ReportInv, NoReport
    <2> QED
      BY <1>2, <2>1, RunnerAssumption, ExitInv DEF NoReport
  <1> QED
    BY <1>1, <1>2

-----------------------------------------------------------------------------
(* The stages before and after the evaluator. *)

(* What is left of the gas can be reported. *)
LEMMA GasReported ==
    ASSUME RunnerInv
    PROVE  /\ gas \in 0..gas /\ gas \in 0..MaxGasUint
           /\ \A rest \in 0..gas : rest \in 0..MaxGasUint
           /\ \A cost \in Nat : gas >= cost => gas - cost \in 0..gas
           /\ (gas - Penalty) % (MaxGasUint + 1) \in 0..MaxGasUint
           /\ 0 \in 0..MaxGasUint
  <1>1. gas \in Nat /\ gas <= MaxGasUint /\ MaxGasUint \in Nat /\ Penalty \in Nat
    BY RunnerAssumption, CostAssumption DEF RunnerInv, RunnerTypeOK
  <1> QED
    BY <1>1

(* Stages that only read: they spend gas, go on or end in an error.         *)
LEMMA ReadingInv ==
    ASSUME RunnerInv,
           \/ \E size \in FileSizes : ChargeFiles(size)
           \/ ReadInput
           \/ Import
           \/ \E cost \in InitCosts : InitLibraries(cost)
           \/ CheckVersion
    PROVE  RunnerInv'
  <1>1. FileSizes \subseteq Nat /\ InitCosts \subseteq Nat
    BY RunnerAssumption
  <1>2. CASE \E size \in FileSizes : ChargeFiles(size)
    BY <1>1, <1>2, GasReported, ProceedInv, ErrorInv DEF ChargeFiles
  <1>3. CASE ReadInput
    BY <1>3, GasReported, ProceedInv, ErrorInv DEF ReadInput
  <1>4. CASE Import
    BY <1>4, GasReported, ProceedInv, ErrorInv DEF Import
  <1>5. CASE \E cost \in InitCosts : InitLibraries(cost)
    BY <1>1, <1>5, GasReported, ProceedInv, ErrorInv DEF InitLibraries
  <1>6. CASE CheckVersion
    BY <1>6, GasReported, ProceedInv, ErrorInv DEF CheckVersion
  <1> QED
    BY <1>2, <1>3, <1>4, <1>5, <1>6

(* The fields get their values, from the chain or from their initialisers.  *)
LEMMA InitModuleInv ==
    ASSUME RunnerInv, NEW cost \in InitCosts, InitModule(cost)
    PROVE  RunnerInv'
  <1> USE DEF RunnerInv
  <1>1. CASE \E rest \in 0..gas : Fatal(rest)
    BY <1>1, GasReported, ErrorInv DEF InitModule
  <1>2. CASE /\ stage = "fields" /\ gas >= cost
             /\ Proceed(gas - cost)
             /\ IF run.message THEN fields' = committed.fields
                               ELSE fields' \in [Fields -> LitCosts]
    <2>1. run.program = "contract" /\ run.message = committed.deployed /\ run.message \in BOOLEAN
      BY <1>2 DEF StageInv, RunInv
    <2>2. stage' = IF run.message THEN "prepare" ELSE "written"
      BY <1>2 DEF Proceed, After
    <2>3. fields' \in FieldValues
      BY <1>2, <2>1 DEF ChainInv, FieldValues
    <2>4. cost \in Nat /\ gas - cost \in 0..gas
      BY <1>2, RunnerAssumption, GasReported
    <2>5. RunnerTypeOK'
      BY <1>2, <2>2, <2>4, CostAssumption DEF Proceed, RunnerTypeOK, EvaluatorIdle, Idle, conf, chain
    <2>6. ChainInv'
      BY <1>2 DEF Proceed, ChainInv, chain
    <2>7. RunInv'
      <3>1. gas - cost <= run.limit
        BY <1>2, <2>4, CostAssumption DEF RunnerTypeOK, RunInv
      <3> QED
        BY <1>2, <3>1 DEF Proceed, RunInv, chain
    <2>8. StageInv' /\ ExecuteInv' /\ ReportInv'
      BY <1>2, <2>1, <2>2, <2>3 DEF Proceed, StageInv, ExecuteInv, ReportInv
    <2> QED
      BY <2>5, <2>6, <2>7, <2>8
  <1> QED
    BY <1>1, <1>2 DEF InitModule

(* A message meets the configuration that the evaluator starts in.          *)
LEMMA PrepareInv ==
    ASSUME RunnerInv, PrepareForMessage
    PROVE  RunnerInv'
  <1> USE DEF RunnerInv
  <1>1. CASE Fatal(gas)
    BY <1>1, GasReported, ErrorInv DEF PrepareForMessage
  <1>2. CASE ~Fatal(gas)
    <2>1. /\ stage = "prepare" /\ stage' = "execute"
          /\ UNCHANGED <<fields, gas, run, report, committed, outside>>
          /\ opening' = committed.balance /\ amount' = run.amount
          /\ env' = InitEnv /\ scope' = InitEnv
          /\ componentStack' = <<0>> /\ frames' = <<>> /\ emitted' = <<>>
      BY <1>2 DEF PrepareForMessage, chain
    <2>2. /\ fields \in [Fields -> LitCosts] /\ gas \in 0..MaxGas
          /\ committed.balance \in 0..Supply /\ outside = Supply - committed.balance
          /\ run.amount \in 0..outside
      BY <2>1, AmountAssumption DEF StageInv, FieldValues, RunnerTypeOK, ChainInv, RunInv
    <2>3. TypeOK'
      <3>1. env' \in [Names -> Binders] /\ scope' \in [Names -> Binders]
        BY <2>1, StartEnvTypes
      <3>2. componentStack' \in Seq(0..NumProcs) /\ frames' \in Seq(Frames) /\ emitted' \in Seq(Amounts)
        <4>1. <<0>> \in Seq(0..NumProcs)
          BY NamesAssumption
        <4>2. <<>> \in Seq(Frames) /\ <<>> \in Seq(Amounts)
          BY EmptySeq
        <4>3. componentStack' = <<0>> /\ frames' = <<>> /\ emitted' = <<>>
          BY <2>1
        <4> QED  BY <4>1, <4>2, <4>3, Zenon
      <3>3. balance' \in 0..MaxUint /\ incoming' \in 0..MaxUint /\ accepted' \in BOOLEAN
        <4>1. balance' = committed.balance /\ incoming' = run.amount /\ accepted' = FALSE
          BY <1>2 DEF PrepareForMessage
        <4>2. ASSUME NEW owned \in 0..Supply, NEW sent \in 0..(Supply - owned)
              PROVE  sent \in 0..MaxUint /\ owned \in 0..MaxUint
          BY AmountAssumption
        <4> QED  BY <2>2, <4>1, <4>2
      <3>4. status' = "running" /\ procs' \in 0..NumProcs /\ events' = 0
        BY <1>2 DEF PrepareForMessage
      <3>5. opening' \in 0..Supply /\ amount' \in 0..(Supply - opening')
        BY <2>1, <2>2
      <3> QED
        BY <2>1, <2>2, <3>1, <3>2, <3>3, <3>4, <3>5 DEF TypeOK
    <2>4. AcceptedOnce' /\ SettledIfOutput'
      BY <1>2, <2>2 DEF PrepareForMessage, AcceptedOnce, SettledIfOutput, Settled
    <2>5. RunnerTypeOK' /\ ChainInv' /\ RunInv'
      BY <2>1 DEF RunnerTypeOK, ChainInv, RunInv
    <2>6. StageInv' /\ ExecuteInv' /\ ReportInv'
      BY <2>1, <2>3, <2>4 DEF StageInv, ExecuteInv, ReportInv
    <2> QED
      BY <2>5, <2>6
  <1> QED
    BY <1>1, <1>2

(* The evaluator keeps its own invariants, and the runner's files.          *)
LEMMA EvaluateInv ==
    ASSUME RunnerInv, Evaluate
    PROVE  RunnerInv'
  <1> USE DEF RunnerInv
  <1>1. /\ stage = "execute" /\ Next
        /\ UNCHANGED <<stage, run, report, committed, outside>>
    BY DEF Evaluate, chain
  <1>2. TypeOK /\ AcceptedOnce /\ SettledIfOutput
    BY <1>1 DEF ExecuteInv
  <1>3. TypeOK' /\ AcceptedOnce' /\ SettledIfOutput' /\ gas' <= gas
    BY <1>1, <1>2, TypeOKStep, AcceptedOnceStep, SettledStep, GasFallsStep
  <1>4. UNCHANGED <<opening, amount>>
    BY <1>1 DEF Next, Read, Write, Effect, Transfer, Stop, Load, LoadBalance, MapGet, ReadFromBC,
                BindExpr, Assign, Store, MapUpdate, AcceptPayment, SendMsgs, CreateEvnt,
                MatchStmt, CallProc, EndOfBranch, EndOfCall, Fail, Finish, Running
  <1>5. RunnerTypeOK' /\ ChainInv'
    BY <1>1, <1>3 DEF RunnerTypeOK, ChainInv, TypeOK
  <1>6. RunInv'
    <2>1. gas' <= run.limit
      <3>1. gas \in 0..MaxGas /\ gas' \in 0..MaxGas /\ gas' <= gas /\ MaxGas \in Nat
        BY <1>1, <1>3, <1>5, CostAssumption DEF RunnerTypeOK
      <3>2. run.limit \in 0..MaxGas /\ gas <= run.limit
        BY <1>1 DEF RunInv
      <3> QED
        BY <3>1, <3>2
    <2> QED
      BY <1>1, <2>1 DEF RunInv
  <1>7. StageInv' /\ ExecuteInv' /\ ReportInv'
    BY <1>1, <1>3, <1>4 DEF StageInv, ExecuteInv, ReportInv
  <1> QED
    BY <1>5, <1>6, <1>7

(* What is written balances. *)
LEMMA WriteInv ==
    ASSUME RunnerInv, WriteResult \/ WriteDeployed \/ EvaluationFailed
    PROVE  RunnerInv'
  <1> USE DEF RunnerInv
  <1>1. ASSUME stage # "idle", Fatal(gas)
        PROVE  RunnerInv'
    BY <1>1, GasReported, ErrorInv
  <1>2. CASE EvaluationFailed
    BY <1>1, <1>2 DEF EvaluationFailed
  <1>3. CASE WriteResult /\ ~Fatal(gas)
    <2> DEFINE what == [kind |-> "output", gas |-> gas, balance |-> balance,
                        accepted |-> accepted, sent |-> emitted, state |-> fields]
    <2>1. stage = "execute" /\ status = "done" /\ ~(Len(emitted) > 1) /\ Exit(what)
      BY <1>3 DEF WriteResult
    <2>2. /\ TypeOK /\ SettledIfOutput /\ run.message
          /\ opening = committed.balance /\ amount = run.amount /\ gas <= run.limit
      BY <2>1 DEF ExecuteInv, StageInv, RunInv
    <2>3. Len(emitted) \in Nat /\ emitted \in Seq(Amounts)
      BY <2>2, LenProperties DEF TypeOK
    <2>4. Total(emitted) \in Nat
      BY <2>1, <2>3, TransferredIsTotal, AmountAssumption DEF Amounts
    <2>5. balance + Total(emitted) = committed.balance + (IF accepted THEN run.amount ELSE 0)
      BY <2>1, <2>2, <2>3 DEF SettledIfOutput, Settled, Paid
    <2>6. ReportInv'
      BY <2>1, <2>2, <2>4, <2>5, AmountAssumption DEF Exit, ReportInv, TypeOK, FieldValues, chain
    <2> QED
      BY <2>1, <2>6, ExitInv, GasReported
  <1>4. CASE WriteDeployed
    <2> DEFINE what == [NoReport EXCEPT !.kind = "output", !.gas = gas, !.state = fields]
    <2>1. stage = "written" /\ Exit(what)
      BY <1>4 DEF WriteDeployed
    <2>2. /\ what.kind = "output" /\ what.gas = gas /\ what.balance = 0
          /\ what.accepted = FALSE /\ what.sent = <<>> /\ what.state = fields
      BY DEF NoReport
    <2>3. gas <= run.limit
      BY <2>1 DEF RunInv
    <2>4. ASSUME run.program = "contract"
          PROVE  ~run.message /\ fields \in FieldValues /\ committed.balance = 0
      <3>1. ~run.message /\ fields \in FieldValues
        BY <2>1, <2>4 DEF StageInv
      <3> QED
        BY <2>1, <2>4, <3>1 DEF RunInv, ChainInv
    <2>5. ReportInv'
      <3>1. report' = what /\ UNCHANGED <<run, committed, outside>>
        BY <2>1 DEF Exit, chain
      <3>2. what.accepted \in BOOLEAN /\ ~what.accepted
        BY <2>2
      <3>3. Total(what.sent) = 0 /\ what.balance + Total(what.sent) = 0
        BY <2>2, TotalOfNone
      <3>4. ASSUME run.program = "contract"
            PROVE  what.balance + Total(what.sent)
                   = committed.balance + (IF what.accepted THEN run.amount ELSE 0)
        BY <2>4, <3>2, <3>3, <3>4
      <3> HIDE DEF what
      <3>5. ASSUME run'.program = "contract"
            PROVE  /\ report'.state \in FieldValues
                   /\ report'.accepted \in BOOLEAN
                   /\ report'.balance \in Nat /\ Total(report'.sent) \in Nat
                   /\ report'.balance + Total(report'.sent)
                      = committed'.balance + (IF report'.accepted THEN run'.amount ELSE 0)
                   /\ ~run'.message
                   /\ ~report'.accepted
                   /\ report'.balance = 0 /\ Total(report'.sent) = 0
        <4>1. run.program = "contract" /\ Total(what.sent) = 0 /\ Total(what.sent) \in Nat
          BY <3>1, <3>3, <3>5
        <4> QED  BY <2>2, <2>4, <3>1, <3>2, <3>4, <4>1
      <3>6. report'.gas <= run'.limit
        BY <2>2, <2>3, <3>1
      <3> QED  BY <3>5, <3>6, Zenon DEF ReportInv
    <2> HIDE DEF what
    <2> QED
      BY <2>1, <2>2, <2>5, ExitInv, GasReported
  <1> QED
    BY <1>1, <1>2, <1>3, <1>4 DEF WriteResult

(* The blockchain takes over what was written. *)
LEMMA ApplyInv ==
    ASSUME RunnerInv, Apply
    PROVE  RunnerInv'
  <1> USE DEF RunnerInv
  <1>1. stage = "exited" /\ stage' = "idle" /\ report' = NoReport /\ UNCHANGED vars
    BY DEF Apply
  <1>2. ChainInv'
    <2>1. CASE ~(report.kind = "output" /\ run.program = "contract")
      BY <2>1 DEF Apply, ChainInv, chain
    <2>2. CASE report.kind = "output" /\ run.program = "contract"
      <3> DEFINE taken == IF report.accepted THEN run.amount ELSE 0
                 paid == Total(report.sent)
      <3>1. /\ committed' = [deployed |-> TRUE, balance |-> report.balance, fields |-> report.state]
            /\ outside' = outside + paid - taken
        BY <2>2 DEF Apply
      <3>2. /\ report.state \in FieldValues /\ report.balance \in Nat /\ paid \in Nat
            /\ report.balance + paid = committed.balance + taken
        BY <1>1, <2>2 DEF ReportInv
      <3>3. taken \in 0..outside /\ outside \in 0..Supply
        BY <1>1, AmountAssumption DEF RunInv, ChainInv
      <3>4. committed.balance \in 0..Supply /\ committed.balance + outside = Supply
        BY DEF ChainInv
      <3> HIDE DEF taken, paid
      <3>5. /\ report.balance \in 0..Supply /\ outside' \in 0..Supply
            /\ report.balance + outside' = Supply
        BY <3>1, <3>2, <3>3, <3>4, AmountAssumption
      <3> QED
        BY <3>1, <3>2, <3>5 DEF ChainInv
    <2> QED
      BY <2>1, <2>2
  <1>3. RunnerTypeOK'
    <2>1. Idle'
      BY <1>1 DEF RunnerTypeOK, Idle, vars, conf
    <2>2. report'.kind = "none" /\ report'.gas \in 0..MaxGasUint
      BY <1>1, RunnerAssumption DEF NoReport
    <2>3. gas' \in 0..MaxGas
      BY <1>1 DEF RunnerTypeOK, vars
    <2> QED
      BY <1>1, <1>2, <2>1, <2>2, <2>3 DEF RunnerTypeOK, ChainInv
  <1>4. RunInv' /\ StageInv' /\ ExecuteInv' /\ ReportInv'
    BY <1>1 DEF RunInv, StageInv, ExecuteInv, ReportInv
  <1> QED
    BY <1>2, <1>3, <1>4

LEMMA RunnerInvStep ==
    ASSUME RunnerInv, [RunnerNext]_runnerVars
    PROVE  RunnerInv'
  <1>1. CASE UNCHANGED runnerVars
    <2>1. UNCHANGED <<status, opening, amount, balance, accepted, incoming, env, scope, procs,
                      componentStack, frames, emitted, events, fields, gas,
                      stage, run, report, committed, outside>>
      BY <1>1 DEF runnerVars, vars, conf, chain
    <2>2. RunnerTypeOK' /\ ChainInv' /\ RunInv' /\ StageInv' /\ ReportInv'
      BY <2>1 DEF RunnerInv, RunnerTypeOK, Idle, ChainInv, RunInv, StageInv, ReportInv
    <2>3. ExecuteInv'
      BY <2>1 DEF RunnerInv, ExecuteInv, TypeOK, AcceptedOnce, SettledIfOutput, Settled, Paid
    <2> QED
      BY <2>2, <2>3 DEF RunnerInv
  <1>2. CASE Submit
    BY <1>2, SubmitInv
  <1>3. CASE \E cost \in InitCosts : InitModule(cost)
    BY <1>3, InitModuleInv
  <1>4. CASE RunnerStep
    BY <1>3, <1>4, ReadingInv, PrepareInv, EvaluateInv, WriteInv DEF RunnerStep
  <1>5. CASE Apply
    BY <1>5, ApplyInv
  <1> QED
    BY <1>1, <1>2, <1>4, <1>5 DEF RunnerNext

THEOREM RunnerInvariant == RunnerSpec => []RunnerInv
  BY RunnerInvInit, RunnerInvStep, PTL DEF RunnerSpec

-----------------------------------------------------------------------------
(* Between messages no process of the runner holds anything, and the gas    *)
(* of every report and the funds of the chain stay in their ranges.         *)
THEOREM RunnerTypeCorrect == RunnerSpec => []RunnerTypeOK
  <1>1. RunnerInv => RunnerTypeOK
    BY DEF RunnerInv
  <1> QED
    BY <1>1, RunnerInvariant, PTL

(* Whatever contracts run, on whatever messages, the contract's balance and *)
(* what everybody else owns always add up to the supply: the balance that   *)
(* handle_message computes is the one the funds it sends leave it.          *)
THEOREM RunnerConservesFunds == RunnerSpec => []FundsConserved
  <1>1. RunnerInv => FundsConserved
    BY DEF RunnerInv, ChainInv, FundsConserved
  <1> QED
    BY <1>1, RunnerInvariant, PTL

(* The gas a written result leaves is part of the limit of its run.         *)
THEOREM RunnerGasWithinLimit == RunnerSpec => []OutputGasWithinLimit
  <1>1. RunnerInv => OutputGasWithinLimit
    BY DEF RunnerInv, ReportInv, OutputGasWithinLimit
  <1> QED
    BY <1>1, RunnerInvariant, PTL

-----------------------------------------------------------------------------
(* Before its result is applied a run changes nothing on the chain.         *)
LEMMA ChainUntouched ==
    ASSUME RunnerNext, ~Apply
    PROVE  UNCHANGED <<committed, outside>>
  BY DEF RunnerNext, RunnerStep, Submit, ChargeFiles, ReadInput, Import, InitLibraries,
         CheckVersion, InitModule, PrepareForMessage, Evaluate, EvaluationFailed,
         WriteResult, WriteDeployed, Proceed, Fatal, Exit, chain

(* A result is applied as the deployment or the message that it answers.    *)
LEMMA AppliedAtomically ==
    ASSUME RunnerInv, Apply
    PROVE  [OnChain!Next]_(OnChain!vars)
  <1>1. CASE ~(report.kind = "output" /\ run.program = "contract")
    BY <1>1 DEF Apply, chain, OnChain!vars
  <1>2. CASE report.kind = "output" /\ run.program = "contract"
    <2> DEFINE taken == IF report.accepted THEN run.amount ELSE 0
               paid == Total(report.sent)
    <2>1. /\ committed' = [deployed |-> TRUE, balance |-> report.balance, fields |-> report.state]
          /\ outside' = outside + paid - taken /\ stage = "exited"
      BY <1>2 DEF Apply
    <2>2. /\ report.state \in FieldValues /\ report.balance \in Nat /\ paid \in Nat
          /\ report.accepted \in BOOLEAN
          /\ report.balance + paid = committed.balance + taken
          /\ ~run.message => ~report.accepted /\ report.balance = 0 /\ paid = 0
      BY <1>2, <2>1 DEF RunnerInv, ReportInv
    <2>3. /\ run.amount \in 0..outside /\ run.message = committed.deployed
          /\ run.message \in BOOLEAN
      BY <1>2, <2>1 DEF RunnerInv, RunInv
    <2>4. /\ outside \in 0..Supply /\ committed.balance \in 0..Supply
          /\ committed.balance + outside = Supply
          /\ ~committed.deployed => committed.balance = 0
      BY DEF RunnerInv, ChainInv
    <2>5. committed'.deployed = TRUE /\ committed'.balance = report.balance
          /\ committed'.fields = report.state
      BY <2>1
    <2>6. CASE ~run.message
      <3>1. taken = 0 /\ outside' = outside
        BY <2>1, <2>2, <2>4, <2>6
      <3>2. OnChain!Deploy
        BY <2>2, <2>3, <2>4, <2>5, <2>6, <3>1 DEF OnChain!Deploy, FieldValues
      <3> QED
        BY <3>2 DEF OnChain!Next
    <2>7. CASE run.message
      <3>1. taken \in 0..outside
        BY <2>3, <2>4
      <3>2. paid \in 0..Supply /\ paid <= committed.balance + taken
            /\ report.balance = committed.balance + taken - paid
        <4> HIDE DEF taken, paid
        <4> QED  BY <2>2, <2>4, <3>1, AmountAssumption
      <3>3. OnChain!Message(run.amount, report.accepted, paid)
        BY <2>1, <2>2, <2>3, <2>5, <2>7, <3>2 DEF OnChain!Message, FieldValues
      <3> HIDE DEF paid
      <3> QED
        BY <2>2, <2>3, <3>2, <3>3 DEF OnChain!Next
    <2> QED
      BY <2>3, <2>6, <2>7
  <1> QED
    BY <1>1, <1>2

(* Seen from the chain, the many steps of a run are one message processed   *)
(* as a whole or not at all: whatever fails, at whatever stage, nothing of  *)
(* it is applied.                                                           *)
THEOREM RunnerImplementsLedger == RunnerSpec => AtomicMessages
  <1>1. RunnerInit => OnChain!Init
    BY DEF RunnerInit, OnChain!Init
  <1>2. RunnerInv /\ [RunnerNext]_runnerVars => [OnChain!Next]_(OnChain!vars)
    <2> SUFFICES ASSUME RunnerInv, [RunnerNext]_runnerVars
                 PROVE  [OnChain!Next]_(OnChain!vars)
      OBVIOUS
    <2>1. CASE UNCHANGED runnerVars
      BY <2>1 DEF runnerVars, chain, OnChain!vars
    <2>2. CASE RunnerNext /\ ~Apply
      BY <2>2, ChainUntouched DEF OnChain!vars
    <2>3. CASE Apply
      BY <2>3, AppliedAtomically
    <2> QED
      BY <2>1, <2>2, <2>3
  <1> QED
    BY <1>1, <1>2, RunnerInvariant, PTL DEF RunnerSpec, AtomicMessages, OnChain!Spec
=============================================================================
