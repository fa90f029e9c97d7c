----------------------------- MODULE Evaluator ------------------------------
(***************************************************************************)
(* handle_message and stmt_eval (Eval.ml) with the runtime configuration   *)
(* of EvalUtil.ml: one run of one transition on one incoming message.      *)
(*                                                                         *)
(* The program is arbitrary: at every point any statement may come next or *)
(* the current block may end, so the behaviours are those of every         *)
(* contract that declares the given names and number of procedures.  The   *)
(* data the properties do not depend on is abstracted:                     *)
(*   - a value in an environment is who bound it: `binder', one of a       *)
(*     contract parameter (or library entry), an entry of the message, an  *)
(*     argument of a procedure, or a statement or pattern of a body, with  *)
(*     the nesting depth it was bound at;                                  *)
(*   - a field holds the literal_cost of its value, all that gas sees;     *)
(*   - an outgoing message is its _amount, an event is not looked at;      *)
(*   - a procedure is its position among the procedures of the contract    *)
(*     (names are unique, SanityChecker.ml), so that the list `procedures' *)
(*     of a configuration is the number of procedures in scope.            *)
(* `scope' is not part of the interpreter: it is the environment in which  *)
(* TypeChecker.ml typed the statement about to run.                        *)
(***************************************************************************)
EXTENDS Integers, Sequences, FiniteSets, SequencesExt

CONSTANTS
    CParams,      \* contract parameters and library entries
    TParams,      \* parameters of the invoked transition
    PParams,      \* PParams[p]: parameters of procedure p
    Locals,       \* names the statements and patterns bind
    Implicit,     \* _sender and _amount
    Fields,
    NumProcs,     \* procedures declared in the contract
    MaxUint,      \* largest Uint128
    Supply,       \* all the funds there are
    MaxGas,       \* largest gas limit considered
    LitCosts,     \* what literal_cost may be of a stored or loaded value
    ExprCosts,    \* what evaluating an expression may cost
    MsgCost,      \* literal_cost of a message or event
    MaxNesting,   \* bound on match statements nested in each other
    MaxBatch      \* bound on the messages of one send statement

Procs == 1..NumProcs
Names == CParams \cup TParams \cup (UNION {PParams[p] : p \in Procs}) \cup Locals \cup Implicit

ASSUME NamesAssumption ==
    /\ NumProcs \in Nat
    /\ PParams \in [Procs -> SUBSET Names]
    /\ Locals \cap Implicit = {}
    /\ (CParams \cup TParams) \cap Implicit = {}
    /\ \A p \in Procs : PParams[p] \cap Implicit = {}

ASSUME AmountAssumption ==
    /\ MaxUint \in Nat /\ Supply \in Nat
    /\ Supply <= MaxUint

ASSUME CostAssumption ==
    /\ MaxGas \in Nat /\ MsgCost \in Nat \ {0}
    /\ LitCosts \subseteq Nat /\ ExprCosts \subseteq Nat
    /\ MaxNesting \in Nat /\ MaxBatch \in Nat

VARIABLES
    status,          \* "running", "done" or "failed"
    opening,         \* the contract's balance when the message arrived
    amount,          \* the _amount of the incoming message
    balance,         \* Configuration.balance
    accepted,        \* Configuration.accepted
    incoming,        \* Configuration.incoming_funds
    env,             \* Configuration.env
    scope,           \* the type checker's environment at this point
    procs,           \* Configuration.procedures
    componentStack,  \* Configuration.component_stack, 0 the transition
    frames,          \* what the recursive calls of stmt_eval come back to
    emitted,         \* Configuration.emitted, as amounts
    events,          \* the length of Configuration.events
    fields,          \* the state service
    gas              \* gas remaining

conf == <<balance, accepted, incoming, env, scope, procs, componentStack,
          frames, emitted, events>>
vars == <<status, opening, amount, conf, fields, gas>>

Funds == <<balance, accepted, incoming>>
Control == <<env, scope, procs, componentStack, frames>>
Output == <<emitted, events>>

-----------------------------------------------------------------------------
(* Environments. *)

Binders == {"unbound", "contract", "message", "argument", "statement"} \X Nat
Unbound == <<"unbound", 0>>
OfContract == <<"contract", 0>>
OfMessage == <<"message", 0>>

Bind(e, ns, b) == [n \in Names |-> IF n \in ns THEN b ELSE e[n]]

ContractEnv == [n \in Names |-> IF n \in CParams THEN OfContract ELSE Unbound]

(* handle_message: the message entries bound over the contract environment. *)
InitEnv == Bind(ContractEnv, TParams \cup Implicit, OfMessage)

Depth == Len(frames)

(* try_apply_as_procedure: init_env, with _sender and _amount as the caller *)
(* sees them and the actuals bound over it.                                 *)
CalleeEnv(p) ==
    [n \in Names |-> IF n \in Implicit THEN env[n]
                     ELSE Bind(InitEnv, PParams[p], <<"argument", Depth + 1>>)[n]]

(* type_component: a component sees the contract's names and its parameters. *)
CalleeScope(p) ==
    [n \in Names |-> IF n \in Implicit THEN OfMessage
                     ELSE Bind(ContractEnv, PParams[p], <<"argument", Depth + 1>>)[n]]

-----------------------------------------------------------------------------
(* Gas. *)

Larger(m, n) == IF m >= n THEN m ELSE n

(* Mutant: a smaller value gives gas back. *)
StoreCostRefunding(old, new) == new - old

(* G_Store: the work of the larger value and the storage the change takes.  *)
StoreCost(old, new) == Larger(old, new) + (new - old)

(* Mutant: gas is taken without a look at what is left. *)
ChargeBlindly(cost) == gas' = gas - cost /\ UNCHANGED status

(* stmt_gas_wrap: the statement has been executed when its gas is taken.    *)
Charge(cost) ==
    IF gas >= cost THEN gas' = gas - cost /\ UNCHANGED status
                   ELSE status' = "failed" /\ UNCHANGED gas

-----------------------------------------------------------------------------
Init ==
    /\ status = "running"
    /\ opening \in 0..Supply
    /\ amount \in 0..(Supply - opening)
    /\ balance = opening
    /\ accepted = FALSE
    /\ incoming = amount
    /\ env = InitEnv
    /\ scope = InitEnv
    /\ procs \in 0..NumProcs
    /\ componentStack = <<0>>
    /\ frames = <<>>
    /\ emitted = <<>>
    /\ events = 0
    /\ fields \in [Fields -> LitCosts]
    /\ gas \in 0..MaxGas

Running == status = "running" /\ UNCHANGED <<opening, amount>>

BindLocals(ns) ==
    /\ env' = Bind(env, ns, <<"statement", Depth>>)
    /\ scope' = Bind(scope, ns, <<"statement", Depth>>)

(* A statement that binds x and does nothing else. *)
Assign(x, cost) ==
    /\ Running
    /\ BindLocals({x})
    /\ Charge(cost)
    /\ UNCHANGED <<Funds, procs, componentStack, frames, Output, fields>>

Load(x, f) == Assign(x, fields[f])

(* _balance is loaded from the configuration, as a Uint128 of 16 bytes.     *)
LoadBalance(x, cost) == Assign(x, cost)

(* `n' index keys; Some v costs what v does and None costs 1.               *)
MapGet(x, n, cost) == Assign(x, n + cost)

ReadFromBC(x) == Assign(x, 1)

(* x = e.  Evaluating e charges as it goes and must not run out.            *)
BindExpr(x, cost) ==
    /\ gas >= cost
    /\ Running
    /\ BindLocals({x})
    /\ IF gas - cost >= 1 THEN gas' = gas - cost - 1 /\ UNCHANGED status
                          ELSE status' = "failed" /\ gas' = gas - cost
    /\ UNCHANGED <<Funds, procs, componentStack, frames, Output, fields>>

Store(f, size) ==
    /\ Running
    /\ fields' = [fields EXCEPT ![f] = size]
    /\ Charge(StoreCost(fields[f], size))
    /\ UNCHANGED conf

(* Writing or deleting an entry leaves the map with some other size; a      *)
(* deletion is charged for indexing only, which is cost 0 here.             *)
MapUpdate(f, n, cost, size) ==
    /\ Running
    /\ fields' = [fields EXCEPT ![f] = size]
    /\ Charge(n + cost)
    /\ UNCHANGED conf

(* Mutant: the incoming funds stay available. *)
AcceptPaymentKept ==
    /\ Running
    /\ balance' = (balance + incoming) % (MaxUint + 1)
    /\ accepted' = TRUE
    /\ UNCHANGED incoming
    /\ Charge(1)
    /\ UNCHANGED <<Control, Output, fields>>

AcceptPayment ==
    /\ Running
    /\ balance' = (balance + incoming) % (MaxUint + 1)
    /\ accepted' = TRUE
    /\ incoming' = 0
    /\ Charge(1)
    /\ UNCHANGED <<Control, Output, fields>>

SendMsgs(ms) ==
    /\ Running
    /\ emitted' = emitted \o ms
    /\ Charge(Len(ms) * MsgCost)
    /\ UNCHANGED <<Funds, Control, events, fields>>

CreateEvnt ==
    /\ Running
    /\ events' = events + 1
    /\ Charge(MsgCost)
    /\ UNCHANGED <<Funds, Control, emitted, fields>>

(* What the continuation of a match or a call restores or charges. *)
Frame(kind, callee, clauses) ==
    [kind |-> kind, env |-> env, scope |-> scope, procs |-> procs,
     stack |-> componentStack, callee |-> callee, clauses |-> clauses]

(* A branch runs with what its pattern binds. *)
MatchStmt(ns, clauses) ==
    /\ Running
    /\ Cardinality({i \in 1..Len(frames) : frames[i].kind = "match"}) < MaxNesting
    /\ frames' = Append(frames, Frame("match", 0, clauses))
    /\ env' = Bind(env, ns, <<"statement", Depth + 1>>)
    /\ scope' = Bind(scope, ns, <<"statement", Depth + 1>>)
    /\ UNCHANGED <<status, Funds, procs, componentStack, Output, fields, gas>>

(* Mutant: the whole list stays in scope for the callee. *)
CallProcSame(p) ==
    /\ Running
    /\ p <= procs
    /\ frames' = Append(frames, Frame("call", p, 0))
    /\ env' = CalleeEnv(p)
    /\ scope' = CalleeScope(p)
    /\ UNCHANGED <<status, procs, Funds, componentStack, Output, fields, gas>>

(* lookup_procedure finds p and hands its body the procedures declared      *)
(* before it.                                                               *)
CallProc(p) ==
    /\ Running
    /\ p <= procs
    /\ frames' = Append(frames, Frame("call", p, 0))
    /\ env' = CalleeEnv(p)
    /\ scope' = CalleeScope(p)
    /\ procs' = p - 1
    /\ UNCHANGED <<status, Funds, componentStack, Output, fields, gas>>

Top == frames[Len(frames)]

Pop == frames' = SubSeq(frames, 1, Len(frames) - 1)

(* Mutant: what the branch bound stays bound. *)
EndOfBranchLeaking ==
    /\ Running
    /\ frames # <<>> /\ Top.kind = "match"
    /\ Pop
    /\ scope' = Top.scope
    /\ Charge(Top.clauses)
    /\ UNCHANGED <<Funds, env, procs, componentStack, Output, fields>>

(* The branch is over: `Restore initial immutable bindings', then charge.   *)
EndOfBranch ==
    /\ Running
    /\ frames # <<>> /\ Top.kind = "match"
    /\ Pop
    /\ env' = Top.env
    /\ scope' = Top.scope
    /\ Charge(Top.clauses)
    /\ UNCHANGED <<Funds, procs, componentStack, Output, fields>>

(* Mutant: the call is free. *)
EndOfCallFree ==
    /\ Running
    /\ frames # <<>> /\ Top.kind = "call"
    /\ Pop
    /\ env' = Top.env
    /\ scope' = Top.scope
    /\ procs' = Top.procs
    /\ UNCHANGED <<status, Funds, componentStack, Output, fields, gas>>

(* The procedure is over: `Reset configuration', then charge.               *)
EndOfCall ==
    /\ Running
    /\ frames # <<>> /\ Top.kind = "call"
    /\ Pop
    /\ env' = Top.env
    /\ scope' = Top.scope
    /\ procs' = Top.procs
    /\ componentStack' = <<Top.callee>> \o Top.stack
    /\ Charge(1)
    /\ UNCHANGED <<Funds, Output, fields>>

(* A throw, or an operation that fails, at once or after its expressions    *)
(* used up some gas: the configuration is lost, the state service is not.   *)
Fail(rest) ==
    /\ Running
    /\ status' = "failed"
    /\ gas' = rest
    /\ UNCHANGED <<conf, fields>>

Amounts == 0..MaxUint

(* What messages carry, and the sum post_process_msgs takes, in Uint128. *)
Total(ms) == FoldLeft(LAMBDA z, a : z + a, 0, ms)
Transferred(ms) == FoldLeft(LAMBDA z, a : (z + a) % (MaxUint + 1), 0, ms)

(* Mutant: what the messages carry is not subtracted. *)
FinishGenerous ==
    /\ Running
    /\ frames = <<>>
    /\ status' = "done"
    /\ UNCHANGED <<Funds, Control, Output, fields, gas>>

(* The transition's body is over: post_process_msgs. *)
Finish ==
    /\ Running
    /\ frames = <<>>
    /\ \E total \in Amounts :
         /\ total = Transferred(emitted)
         /\ IF balance < total
            THEN status' = "failed" /\ UNCHANGED balance
            ELSE status' = "done" /\ balance' = balance - total
    /\ UNCHANGED <<accepted, incoming, Control, Output, fields, gas>>

Read ==
    \E x \in Locals :
      \/ \E f \in Fields : Load(x, f)
      \/ \E cost \in LitCosts : LoadBalance(x, cost)
      \/ \E cost \in LitCosts \cup {1} : MapGet(x, 1, cost)
      \/ ReadFromBC(x)
      \/ \E cost \in ExprCosts : BindExpr(x, cost)

Write ==
    \E f \in Fields, size \in LitCosts :
      \/ Store(f, size)
      \/ \E cost \in LitCosts \cup {0} : MapUpdate(f, 1, cost, size)

Effect ==
    \/ AcceptPayment
    \/ \E n \in 0..MaxBatch : \E ms \in [1..n -> Amounts] : SendMsgs(ms)
    \/ CreateEvnt

Transfer ==
    \/ \E ns \in SUBSET Locals, clauses \in 1..2 : MatchStmt(ns, clauses)
    \/ \E p \in Procs : CallProc(p)
    \/ EndOfBranch
    \/ EndOfCall

Stop ==
    \/ \E rest \in 0..gas : Fail(rest)
    \/ Finish

Next == Read \/ Write \/ Effect \/ Transfer \/ Stop

Spec == Init /\ [][Next]_vars

(* The interpreter is one sequential process: it goes on while it can.      *)
FairSpec == Spec /\ WF_vars(Next)

-----------------------------------------------------------------------------
(* Properties. *)

Frames == [kind : {"match", "call"}, env : [Names -> Binders],
           scope : [Names -> Binders], procs : 0..NumProcs,
           stack : Seq(0..NumProcs), callee : 0..NumProcs, clauses : Nat]

(* The configuration record of EvalUtil.ml, the gas a Uint64 that is never  *)
(* driven below zero, and balances that are amounts of a Uint128.           *)
TypeOK ==
    /\ status \in {"running", "done", "failed"}
    /\ opening \in 0..Supply /\ amount \in 0..(Supply - opening)
    /\ balance \in 0..MaxUint /\ incoming \in 0..MaxUint
    /\ accepted \in BOOLEAN
    /\ env \in [Names -> Binders] /\ scope \in [Names -> Binders]
    /\ procs \in 0..NumProcs
    /\ componentStack \in Seq(0..NumProcs)
    /\ frames \in Seq(Frames)
    /\ emitted \in Seq(Amounts)
    /\ events \in Nat
    /\ fields \in [Fields -> LitCosts]
    /\ gas \in 0..MaxGas

(* However many components of the call chain accept, the incoming amount is *)
(* added to the balance once, without wrapping, and none of it is lost.     *)
AcceptedOnce ==
    status = "running" =>
        /\ balance = opening + (IF accepted THEN amount ELSE 0)
        /\ incoming = IF accepted THEN 0 ELSE amount

IsCall(i) == frames[i].kind = "call"

(* Procedures cannot recurse: along the chain of open calls the position of *)
(* the callee strictly falls, and what is in scope lies below all of them.  *)
CallsDescend ==
    status = "running" =>
        \A i \in 1..Len(frames) : IsCall(i) =>
            /\ procs < frames[i].callee
            /\ \A j \in 1..(i - 1) : IsCall(j) => frames[i].callee < frames[j].callee

(* Names are lexically scoped: a name the type checker found in scope is    *)
(* bound, in the running environment, by the binder that gave it its type.  *)
LexicalScope ==
    status = "running" =>
        \A n \in Names : scope[n] # Unbound => env[n] = scope[n]

Paid == Total(emitted)

(* A message leaves the contract with its former balance, what it accepted, *)
(* less what its outgoing messages carry.                                   *)
Settled ==
    status = "done" => balance + Paid = opening + (IF accepted THEN amount ELSE 0)

(* scilla_runner outputs the result only if there is at most one message.   *)
SettledIfOutput == Len(emitted) <= 1 => Settled

(* No statement gives gas back, whatever it stores or deletes.              *)
GasOnlyFalls == [][gas' <= gas]_vars

(* Gas cuts off every program, however long: each message gets an answer.   *)
Answered == <>(status # "running")
=============================================================================
